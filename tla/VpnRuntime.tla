------------------------------- MODULE VpnRuntime ------------------------------
(*****************************************************************************)
(* The gate of public-vpn-node: which OpenVPN child may carry the traffic of   *)
(* the proxies, and through which device.  vpn_runtime keeps the owner, the    *)
(* device that the owner's log nominated and the gate (device and ifindex);    *)
(* firewall and the policy route keep the kernel's side; the reader of each    *)
(* child hands its log lines over, possibly long after they were written; the  *)
(* proxies bind sockets to the gate; a monitor checks it.                      *)
(*                                                                             *)
(* vpn_runtime.LOCK serialises the Python threads: one critical section is one *)
(* action, but for the activation, between whose commands the kernel and the   *)
(* children go on.  Children, devices, routes and rules change at any time.    *)
(*****************************************************************************)
EXTENDS Naturals, Sequences, FiniteSets

CONSTANTS
    Children,    \* OpenVPN processes that are started to serve
    Devices,     \* names of TUN devices
    Sessions,    \* threads of the proxy, one client each
    MaxSlots,    \* MAX_PROXY_CONNECTIONS
    MaxIndex,    \* bound: devices the kernel creates before a restart
    MaxLines,    \* bound: log lines of a child that are not read yet
    None

ASSUME RuntimeAssumption ==
    /\ None \notin Children \cup Devices
    /\ None \notin [idx : 1 .. MaxIndex, by : Children, ready : BOOLEAN]
    /\ "closed" \notin Devices /\ "gone" \notin Devices /\ "closed" # "gone"
    /\ MaxSlots \in Nat /\ MaxIndex \in Nat /\ MaxLines \in Nat

VARIABLES
    \* entrypoint.main: "down", "guarded" (the rules are in place), "up".
    boot,
    \* Globals of vpn_runtime, and its STATE file.
    interface, owner, candidate, sockets, state,
    \* The activation that holds LOCK: None, or its child, next command, ifindex.
    step,
    \* The children: life, reader thread of run_openvpn_until_ready, unread log.
    child, reader, log,
    \* The kernel: devices by name, last ifindex, table 100, the two nft tables.
    links, index, route, rules, guard,
    \* The proxy: what each client's thread does, what its socket is bound to.
    phase, bound

gateVars    == <<interface, owner, candidate, sockets, state>>
childVars   == <<child, reader, log>>
kernelVars  == <<links, index, route, rules, guard>>
sessionVars == <<phase, bound>>
vars == <<boot, gateVars, step, childVars, kernelVars, sessionVars>>

Gates == [dev : Devices, idx : 1 .. MaxIndex]
Lines == [kind : {"opened"}, dev : Devices] \cup [kind : {"down", "completed"}]

TypeOK ==
    /\ boot \in {"down", "guarded", "up"}
    /\ interface \in Gates \cup {None}
    /\ owner \in Children \cup {None} /\ candidate \in Devices \cup {None}
    /\ sockets \subseteq Sessions
    /\ state \in [gate : Gates, pid : Children] \cup {None}
    /\ step \in [by : Children, at : {"route", "rules", "publish"}, idx : 1 .. MaxIndex]
                \cup {None}
    /\ child \in [Children -> {"new", "running", "dead"}]
    /\ reader \in [Children -> {"none", "reading", "failed", "ended"}]
    /\ log \in [Children -> Seq(Lines)]
    /\ links \in [Devices -> [idx : 1 .. MaxIndex, by : Children, ready : BOOLEAN] \cup {None}]
    /\ index \in 0 .. MaxIndex
    /\ route \in Devices \cup {None} /\ rules \in Devices \cup {"closed", "gone"}
    /\ guard \in BOOLEAN
    /\ phase \in [Sessions -> {"idle", "accepted", "open"}]
    /\ bound \in [Sessions -> Gates \cup {None}]

Init ==
    /\ boot = "down"
    /\ interface = None /\ owner = None /\ candidate = None
    /\ sockets = {} /\ state = None /\ step = None
    /\ child = [c \in Children |-> "new"]
    /\ reader = [c \in Children |-> "none"]
    /\ log = [c \in Children |-> <<>>]
    /\ links = [d \in Devices |-> None] /\ index = 0
    /\ route = None /\ rules = "gone" /\ guard = FALSE
    /\ phase = [s \in Sessions |-> "idle"] /\ bound = [s \in Sessions |-> None]

-------------------------------------------------------------------------------
(* Operators.                                                                 *)

Alive(c) == c # None /\ child[c] = "running"

\* tun_identity(dev) = idx.
Identity(g) == /\ links[g.dev] # None
               /\ links[g.dev].idx = g.idx

\* require_interface, for the gate g.
Usable_ByName(g) ==    \* mutant: the device is known by its name alone
    /\ guard /\ Alive(owner)
    /\ links[g.dev] # None /\ route = g.dev /\ rules = g.dev
Usable(g) ==
    /\ guard /\ Alive(owner)
    /\ Identity(g) /\ route = g.dev /\ rules = g.dev

\* healthy(); the age of the record, which only makes it stricter, is left out.
Healthy ==
    /\ state # None
    /\ Alive(state.pid)
    /\ Identity(state.gate) /\ route = state.gate.dev /\ rules = state.gate.dev

CloseSockets == bound' = [s \in Sessions |-> IF s \in sockets THEN None ELSE bound[s]]

\* revoke().  It raises unless both the unlink and the rules succeed; one of
\* them may fail, both failing at once is left out.
Revoke_RulesFirst(unlinked, installed) ==    \* mutant: unlink fails before install
    /\ unlinked \/ installed
    /\ interface' = None /\ sockets' = {} /\ CloseSockets
    /\ state' = IF unlinked THEN None ELSE state
    /\ rules' = IF installed /\ unlinked THEN "closed" ELSE rules
Revoke(unlinked, installed) ==
    /\ unlinked \/ installed
    /\ interface' = None /\ sockets' = {} /\ CloseSockets
    /\ state' = IF unlinked THEN None ELSE state
    /\ rules' = IF installed THEN "closed" ELSE rules

\* The devices of a child, and the routes through them, are gone.
LinksWithout(c) == [d \in Devices |-> IF links[d] # None /\ links[d].by = c
                                      THEN None ELSE links[d]]
RouteAfter(ls)  == IF route # None /\ ls[route] = None THEN None ELSE route

Append1(c, line) == [log EXCEPT ![c] = Append(@, line)]

Free == boot = "up" /\ step = None

-------------------------------------------------------------------------------
(* entrypoint.main, and the container's stop: its processes, devices and rules *)
(* vanish, STATE stays on the data volume.                                     *)

InstallRules ==
    /\ boot = "down"
    /\ boot' = "guarded"
    /\ rules' = "closed" /\ guard' = TRUE
    /\ UNCHANGED <<gateVars, step, childVars, links, index, route, sessionVars>>

ResetState ==
    /\ boot = "guarded"
    /\ boot' = "up" /\ state' = None
    /\ UNCHANGED <<interface, owner, candidate, sockets, step, childVars, kernelVars,
                   sessionVars>>

Restart ==
    /\ boot' = "down"
    /\ interface' = None /\ owner' = None /\ candidate' = None /\ sockets' = {}
    /\ step' = None
    /\ child' = [c \in Children |-> IF child[c] = "new" THEN "new" ELSE "dead"]
    /\ reader' = [c \in Children |-> IF child[c] = "new" THEN "none" ELSE "ended"]
    /\ log' = [c \in Children |-> <<>>]
    /\ links' = [d \in Devices |-> None] /\ index' = 0
    /\ route' = None /\ rules' = "gone" /\ guard' = FALSE
    /\ phase' = [s \in Sessions |-> "idle"] /\ bound' = [s \in Sessions |-> None]
    /\ UNCHANGED state

-------------------------------------------------------------------------------
(* OpenVPN children.                                                          *)

Launch(c) ==
    /\ boot = "up" /\ child[c] = "new"
    /\ child' = [child EXCEPT ![c] = "running"]
    /\ UNCHANGED <<boot, gateVars, step, reader, log, kernelVars, sessionVars>>

OpenTun(c, d) ==
    /\ Alive(c) /\ links[d] = None
    /\ \A e \in Devices : links[e] # None => links[e].by # c
    /\ index < MaxIndex /\ Len(log[c]) < MaxLines
    /\ index' = index + 1
    /\ links' = [links EXCEPT ![d] = [idx |-> index + 1, by |-> c, ready |-> FALSE]]
    /\ log' = Append1(c, [kind |-> "opened", dev |-> d])
    /\ UNCHANGED <<boot, gateVars, step, child, reader, route, rules, guard, sessionVars>>

Complete(c, d) ==
    /\ Alive(c) /\ Len(log[c]) < MaxLines
    /\ links[d] # None /\ links[d].by = c /\ ~links[d].ready
    /\ links' = [links EXCEPT ![d].ready = TRUE]
    /\ log' = Append1(c, [kind |-> "completed"])
    /\ UNCHANGED <<boot, gateVars, step, child, reader, index, route, rules, guard,
                   sessionVars>>

CloseTun(c) ==
    /\ Alive(c) /\ Len(log[c]) < MaxLines
    /\ log' = Append1(c, [kind |-> "down"])
    /\ links' = LinksWithout(c) /\ route' = RouteAfter(links')
    /\ UNCHANGED <<boot, gateVars, step, child, reader, index, rules, guard, sessionVars>>

\* It ends by itself, is killed, or stop_process ends it.
Exit(c) ==
    /\ Alive(c)
    /\ child' = [child EXCEPT ![c] = "dead"]
    /\ links' = LinksWithout(c) /\ route' = RouteAfter(links')
    /\ UNCHANGED <<boot, gateVars, step, reader, log, index, rules, guard, sessionVars>>

\* An administrator's rules or routes, a flushed table.
Tamper ==
    /\ \/ rules' = "gone" /\ UNCHANGED <<route, guard>>
       \/ route' = None /\ UNCHANGED <<rules, guard>>
       \/ guard' = FALSE /\ UNCHANGED <<rules, route>>
    /\ UNCHANGED <<boot, gateVars, step, childVars, links, index, sessionVars>>

-------------------------------------------------------------------------------
(* The manager's calls.                                                       *)

\* vpn_runtime.begin in run_openvpn_until_ready, then the reader's start.
Begin_KeepsGate(c) ==    \* mutant: the old owner's gate is handed over open
    /\ Free /\ child[c] # "new" /\ reader[c] = "none"
    /\ owner' = c /\ candidate' = None
    /\ reader' = [reader EXCEPT ![c] = "reading"]
    /\ UNCHANGED <<boot, interface, sockets, state, step, child, log, kernelVars, sessionVars>>
Begin(c) ==
    /\ Free /\ child[c] # "new" /\ reader[c] = "none"
    /\ Revoke(TRUE, TRUE)
    /\ owner' = c /\ candidate' = None
    /\ reader' = [reader EXCEPT ![c] = "reading"]
    /\ UNCHANGED <<boot, step, child, log, links, index, route, guard, phase>>

\* begin raises: the child is stopped, nobody reads its log.
BeginFails(c) ==
    /\ Free /\ child[c] # "new" /\ reader[c] = "none"
    /\ \/ Revoke(FALSE, TRUE)
       \/ Revoke(TRUE, FALSE)
    /\ child' = [child EXCEPT ![c] = "dead"]
    /\ reader' = [reader EXCEPT ![c] = "ended"]
    /\ links' = LinksWithout(c) /\ route' = RouteAfter(links')
    /\ UNCHANGED <<boot, owner, candidate, step, log, index, guard, phase>>

\* cleanup_policy_routing.
Cleanup(unlinked, installed) ==
    /\ Free
    /\ owner' = None /\ candidate' = None
    /\ Revoke(unlinked, installed)
    /\ UNCHANGED <<boot, step, childVars, links, index, route, guard, phase>>

-------------------------------------------------------------------------------
(* event(process, line), called by the reader of the child c.                 *)

Reads(c, kinds) ==
    /\ Free /\ reader[c] = "reading" /\ log[c] # <<>>
    /\ Head(log[c]).kind \in kinds
    /\ log' = [log EXCEPT ![c] = Tail(@)]

\* "process is not owner".
IsOwner_Any(c) == TRUE    \* mutant: whose line it is does not matter
IsOwner(c) == c = owner

LateLine(c) ==
    /\ Reads(c, {"opened", "down", "completed"}) /\ ~IsOwner(c)
    /\ UNCHANGED <<boot, gateVars, step, child, reader, kernelVars, sessionVars>>

\* "TUN/TAP device ... opened", or a line that says that the tunnel is down.
Nominate(c) ==
    /\ Reads(c, {"opened", "down"}) /\ IsOwner(c)
    /\ Revoke(TRUE, TRUE)
    /\ candidate' = IF Head(log[c]).kind = "opened" THEN Head(log[c]).dev ELSE None
    /\ UNCHANGED <<boot, owner, step, child, reader, links, index, route, guard, phase>>

\* "Initialization Sequence Completed".
Activate(c) ==
    /\ Reads(c, {"completed"}) /\ IsOwner(c)
    /\ Revoke(TRUE, TRUE)
    /\ candidate # None /\ Alive(c) /\ links[candidate] # None
    /\ step' = [by |-> c, at |-> "route", idx |-> links[candidate].idx]
    /\ UNCHANGED <<boot, owner, candidate, child, reader, links, index, route, guard, phase>>

\* revoke raises; or no owned device that lives: "No owned VPN interface".
EventRaises(c, unlinked, installed) ==
    /\ Reads(c, {"opened", "down", "completed"}) /\ IsOwner(c)
    /\ Revoke(unlinked, installed)
    /\ \/ ~(unlinked /\ installed)
       \/ Head(log[c]).kind = "completed"
    /\ reader' = [reader EXCEPT ![c] = "failed"]
    /\ UNCHANGED <<boot, owner, candidate, step, child, links, index, route, guard, phase>>

StepIs(at) == step # None /\ step.at = at

\* setup_policy_routing; table 100 is flushed first.
SetupRoute ==
    /\ StepIs("route") /\ links[candidate] # None
    /\ route' = candidate
    /\ step' = [step EXCEPT !.at = "rules"]
    /\ UNCHANGED <<boot, gateVars, childVars, links, index, rules, guard, sessionVars>>

\* firewall.install(candidate), and the read-back.
OpenRules ==
    /\ StepIs("rules")
    /\ rules' = candidate
    /\ step' = [step EXCEPT !.at = "publish"]
    /\ UNCHANGED <<boot, gateVars, childVars, links, index, route, guard, sessionVars>>

\* A command fails, or what it installed does not read back.
ActivationRaises ==
    /\ \/ StepIs("route") /\ route' \in {route, None, candidate} /\ UNCHANGED rules
       \/ StepIs("rules") /\ rules' \in {rules, candidate} /\ UNCHANGED route
    /\ (route' # None => links[route'] # None)
    /\ step' = None
    /\ reader' = [reader EXCEPT ![step.by] = "failed"]
    /\ UNCHANGED <<boot, gateVars, child, log, links, index, guard, sessionVars>>

\* interface = (candidate, index); publish().
Publish_NameOnly ==    \* mutant: interface = candidate
    /\ StepIs("publish") /\ Usable([dev |-> candidate, idx |-> step.idx])
    /\ interface' = candidate
    /\ state' = [gate |-> [dev |-> candidate, idx |-> step.idx], pid |-> owner]
    /\ step' = None
    /\ UNCHANGED <<boot, owner, candidate, sockets, childVars, kernelVars, sessionVars>>
Publish ==
    /\ StepIs("publish") /\ Usable([dev |-> candidate, idx |-> step.idx])
    /\ interface' = [dev |-> candidate, idx |-> step.idx]
    /\ state' = [gate |-> interface', pid |-> owner]
    /\ step' = None
    /\ UNCHANGED <<boot, owner, candidate, sockets, childVars, kernelVars, sessionVars>>

PublishRaises(unlinked, installed) ==
    /\ StepIs("publish")
    /\ Revoke(unlinked, installed)
    /\ reader' = [reader EXCEPT ![step.by] = "failed"]
    /\ step' = None
    /\ UNCHANGED <<boot, owner, candidate, child, log, links, index, route, guard, phase>>

\* The reader after an exception: revoke whoever owns the gate by now, and end
\* the child (its Exit).
GiveUp(c, unlinked, installed) ==
    /\ Free /\ reader[c] = "failed"
    /\ Revoke(unlinked, installed)
    /\ reader' = [reader EXCEPT ![c] = "ended"]
    /\ UNCHANGED <<boot, owner, candidate, step, child, log, links, index, route, guard,
                   phase>>

\* End of the log: revoke only as the owner.
Eof(c, unlinked, installed) ==
    /\ Free /\ reader[c] = "reading" /\ child[c] = "dead" /\ log[c] = <<>>
    /\ reader' = [reader EXCEPT ![c] = "ended"]
    /\ \/ IsOwner(c) /\ Revoke(unlinked, installed)
       \/ ~IsOwner(c) /\ UNCHANGED <<interface, sockets, state, rules, bound>>
    /\ UNCHANGED <<boot, owner, candidate, step, child, log, links, index, route, guard,
                   phase>>

-------------------------------------------------------------------------------
(* The monitor thread.                                                        *)

Refresh ==
    /\ Free /\ interface # None /\ Usable(interface)
    /\ state' = [gate |-> interface, pid |-> owner]
    /\ UNCHANGED <<boot, interface, owner, candidate, sockets, step, childVars, kernelVars,
                   sessionVars>>

MonitorRevokes_OnlyDown(unlinked, installed) ==    \* mutant: looks at the device alone
    /\ Free /\ interface # None /\ Identity(interface)
    /\ Revoke(unlinked, installed)
    /\ UNCHANGED <<boot, owner, candidate, step, childVars, links, index, route, guard,
                   phase>>
MonitorRevokes(unlinked, installed) ==
    /\ Free /\ interface # None
    /\ Revoke(unlinked, installed)
    /\ UNCHANGED <<boot, owner, candidate, step, childVars, links, index, route, guard,
                   phase>>

Monitor == Refresh \/ \E u, i \in BOOLEAN : MonitorRevokes(u, i)

-------------------------------------------------------------------------------
(* The proxy: a thread and a slot per client.                                 *)

Busy == {s \in Sessions : phase[s] # "idle"}

Accept(s) ==
    /\ boot = "up" /\ phase[s] = "idle" /\ Cardinality(Busy) < MaxSlots
    /\ phase' = [phase EXCEPT ![s] = "accepted"]
    /\ UNCHANGED <<boot, gateVars, step, childVars, kernelVars, bound>>

\* bind_socket: of a DNS query, or of a connection.
BindSocket(s) ==
    /\ Free /\ interface # None /\ Usable(interface)
    /\ bound' = [bound EXCEPT ![s] = [dev |-> interface.dev,
                                      idx |-> links[interface.dev].idx]]
    /\ sockets' = sockets \cup {s}

\* create_connection: dns_query_over_vpn, then the connection itself.
Open(s) ==
    /\ phase[s] = "accepted" /\ BindSocket(s)
    /\ phase' = [phase EXCEPT ![s] = "open"]
    /\ UNCHANGED <<boot, interface, owner, candidate, state, step, childVars, kernelVars>>

\* The query was answered and its socket is closed.
Resolved(s) ==
    /\ phase[s] = "open" /\ bound[s] # None
    /\ phase' = [phase EXCEPT ![s] = "accepted"]
    /\ bound' = [bound EXCEPT ![s] = None] /\ sockets' = sockets \ {s}
    /\ UNCHANGED <<boot, interface, owner, candidate, state, step, childVars, kernelVars>>

\* Refused, failed, ended or cut off: finally closes the socket, frees the slot.
EndSession(s) ==
    /\ phase[s] # "idle"
    /\ phase' = [phase EXCEPT ![s] = "idle"]
    /\ bound' = [bound EXCEPT ![s] = None] /\ sockets' = sockets \ {s}
    /\ UNCHANGED <<boot, interface, owner, candidate, state, step, childVars, kernelVars>>

-------------------------------------------------------------------------------
Startup == InstallRules \/ ResetState \/ Restart

ChildStep(c) ==
    \/ Launch(c) \/ CloseTun(c) \/ Exit(c)
    \/ \E d \in Devices : OpenTun(c, d) \/ Complete(c, d)

ReaderStep(c) ==
    \/ LateLine(c) \/ Nominate(c) \/ Activate(c)
    \/ \E u, i \in BOOLEAN : EventRaises(c, u, i) \/ GiveUp(c, u, i) \/ Eof(c, u, i)

ActivationStep ==
    \/ SetupRoute \/ OpenRules \/ ActivationRaises \/ Publish
    \/ \E u, i \in BOOLEAN : PublishRaises(u, i)

ManagerStep ==
    \/ \E c \in Children : Begin(c) \/ BeginFails(c)
    \/ \E u, i \in BOOLEAN : Cleanup(u, i)

SessionStep(s) == Accept(s) \/ Open(s) \/ Resolved(s) \/ EndSession(s)

Next ==
    \/ Startup \/ Tamper \/ ManagerStep \/ ActivationStep \/ Monitor
    \/ \E c \in Children : ChildStep(c) \/ ReaderStep(c)
    \/ \E s \in Sessions : SessionStep(s)

Spec == Init /\ [][Next]_vars

\* Commands and waits end, the monitor wakes every second, a thread whose socket
\* was closed returns from select.
Fairness ==
    /\ WF_vars(ActivationStep) /\ WF_vars(Monitor)
    /\ \A s \in Sessions : WF_vars(bound[s] = None /\ EndSession(s))

FairSpec == Spec /\ Fairness

-------------------------------------------------------------------------------
(* Properties.                                                                *)

\* Every open socket of the proxy that is bound to a device is registered, and
\* is bound to the gate of this moment, device and ifindex: no socket survives
\* the generation it was opened in (vpn_runtime.bind_socket, revoke).
SocketsOfTheGate ==
    \A s \in Sessions : bound[s] # None => s \in sockets /\ bound[s] = interface

\* The container is reported healthy only while the gate is open and the record
\* on disk, which outlives the processes, speaks of this gate and of its owner;
\* also while revoke's unlink or its rules fail, and after a restart
\* (vpn_runtime.healthy, revoke; entrypoint.main).
HealthyMeansReady ==
    Healthy => interface = state.gate /\ owner = state.pid

\* A packet of socket s passes: its device still exists, and the rules allow it.
Passes(s) ==
    /\ bound[s] # None /\ Identity(bound[s])
    /\ rules \in {bound[s].dev, "gone"}

\* Once the owner's log is read, what passes goes through a device that the
\* owner itself opened, whatever replaced or dying children do with the same
\* names (vpn_runtime.event; the module's docstring: "Only the serving OpenVPN
\* child's log stream may nominate an interface").
TrafficIsTheOwners ==
    \A s \in Sessions :
        Passes(s) => /\ owner # None
                     /\ log[owner] # <<>> \/ links[bound[s].dev].by = owner

\* The proxies may use the gate: require_interface returns it.
GateOpen == interface # None /\ Usable(interface)

\* The promise to the manager and the proxies: the gate opens only in publish, for
\* the owner of that moment, and no device, route or rule that comes back later
\* opens it again (vpn_runtime.begin, event, require_interface).
Gate == INSTANCE ServingGate WITH live <- {c \in Children : child[c] = "running"},
                                  open <- GateOpen

GateSpec == Gate!Spec

\* When the owner dies with the gate open the gate is closed, although no line of
\* its log says so (vpn_runtime.monitor); and a client whose socket was revoked
\* is let go, so its slot is free again (proxy_server.relay, run_client).
GateCloses ==
    /\ (interface # None /\ ~Alive(owner)) ~> (interface = None)
    /\ \A s \in Sessions : (phase[s] = "open" /\ bound[s] = None) ~> (phase[s] = "idle")
================================================================================
