------------------------------- MODULE VpnManager ------------------------------
(*****************************************************************************)
(* vpngate_manager of public-vpn-node: connect_node, auto_switch_node,         *)
(* maintain_valid_nodes, test_multiple_nodes, the background checker and the   *)
(* administrator's requests, run by threads over shared globals, nodes.json    *)
(* and ui_auth.json.                                                           *)
(*                                                                             *)
(* A critical section of `lock` is one action; what a thread read before it    *)
(* waited is kept in its record.  The collector, the checker, the background   *)
(* switch and the requests are jobs that any of the threads may take.  `lock`  *)
(* is held over several actions only where maintenance switches nodes inside   *)
(* it.  Of vpn_runtime's gate only the owner is kept: whether a living owner's *)
(* gate is open is left open wherever it is asked (module VpnRuntime).  A file *)
(* that cannot be written raises out of the step that writes it.  The routing  *)
(* mode does not change: of the settings only connection_enabled is written.   *)
(*****************************************************************************)
EXTENDS Naturals, FiniteSets

CONSTANTS
    Nodes,       \* the VPNGate servers that are followed
    Threads,     \* each does one job after the other
    MaxProcs,    \* bound: serving OpenVPN children that live at once
    MaxTries,    \* auto_switch_node's attempts
    Faults,      \* whether files and the gate's rules may fail to be written
    None

ASSUME ManagerAssumption ==
    /\ None \notin Nodes \cup (1 .. MaxProcs) \cup Threads
    /\ MaxProcs \in Nat /\ MaxTries \in Nat
    /\ Faults \in BOOLEAN

VARIABLES
    connecting,  \* is_connecting
    maint,       \* who holds maintenance_lock
    locked,      \* who holds `lock` over several actions
    proc, activeId,    \* active_openvpn_process, active_openvpn_node_id
    live,        \* serving children that run, whoever knows them
    owner,       \* vpn_runtime.owner
    nodes,       \* nodes.json: who is listed, probed available, marked active
    enabled, mode,     \* ui_auth.json: connection_enabled, routing_mode
    th,          \* the threads
    stolen,      \* history: is_connecting was cleared under a running connect
    stuck        \* history: a failed claim has left is_connecting set

flags  == <<connecting, maint, locked>>
tunnel == <<proc, activeId, live, owner>>
files  == <<nodes, enabled, mode>>
shared == <<flags, tunnel, files>>
history == <<stolen, stuck>>
vars   == <<shared, th, history>>

Procs     == 1 .. MaxProcs
NodeLists == [listed : SUBSET Nodes, ok : SUBSET Nodes, active : SUBSET Nodes]
NoList    == [listed |-> {}, ok |-> {}, active |-> {}]
Jobs      == {"request", "collect", "check all", "background"}
Places    == {"idle", "claim", "configure", "save", "stop", "launch", "wait", "failed",
              "forget", "adopt", "require", "writeBack", "clear", "cleared", "finally",
              "done", "switch", "switchStop", "switchClear", "maintain", "revive", "fallen",
              "resume", "fetch", "test", "rejoin", "unlock", "mfinally", "checked",
              "offStop", "offClear"}

\* A thread: where it is, its job, connect_node's node and child, the node list it
\* has read, where connect_node and auto_switch_node return to, the attempt.
Idle == [pc |-> "idle", job |-> "request", node |-> None, child |-> None, list |-> NoList,
         ret |-> "idle", back |-> "idle", tries |-> 0]

TypeOK ==
    /\ connecting \in BOOLEAN /\ maint \in Threads \cup {None}
    /\ locked \in Threads \cup {None}
    /\ proc \in Procs \cup {None} /\ activeId \in Nodes \cup {None}
    /\ live \subseteq Procs /\ owner \in Procs \cup {None}
    /\ nodes \in NodeLists /\ enabled \in BOOLEAN /\ mode \in {"auto", "fixed_ip"}
    /\ th \in [Threads ->
                  [pc : Places, job : Jobs, node : Nodes \cup {None},
                   child : Procs \cup {None}, list : NodeLists,
                   ret : {"idle", "switch", "resume"},
                   back : {"idle", "resume", "unlock"}, tries : 0 .. MaxTries]]
    /\ stolen \in BOOLEAN /\ stuck \in BOOLEAN

\* main starts collector_loop: on one of the threads.
CollectorStarts ==
    {[[t \in Threads |-> Idle] EXCEPT ![c] = [Idle EXCEPT !.pc = "maintain",
                                                        !.job = "collect"]] : c \in Threads}

Init ==
    /\ connecting = TRUE /\ maint = None /\ locked = None
    /\ proc = None /\ activeId = None /\ live = {} /\ owner = None
    /\ nodes = NoList /\ enabled = TRUE /\ mode \in {"auto", "fixed_ip"}
    /\ th \in CollectorStarts
    /\ stolen = FALSE /\ stuck = FALSE

-------------------------------------------------------------------------------
At(t, pc)   == th[t].pc = pc
Forced(t)   == th[t].job = "check all"             \* maintain_valid_nodes(force=True)
CanLock(t)  == locked \in {None, t}
Running     == proc \in live                       \* active_openvpn_running
InConnect(t) == th[t].pc \in {"configure", "save", "stop", "launch", "wait", "failed",
                              "forget", "adopt", "require", "writeBack", "clear",
                              "cleared", "finally", "done"}

\* The thread is in maintain_valid_nodes, or in what it has called.
InMaintenance(r) ==
    \/ r.pc \in {"revive", "fallen", "resume", "fetch", "rejoin", "unlock", "mfinally"}
    \/ r.pc = "test" /\ r.job # "request"
    \/ r.ret = "resume" \/ r.back \in {"resume", "unlock"}

Goto(t, pc) == th' = [th EXCEPT ![t].pc = pc]

\* Back in the code of the thread's job.
InJob(t, pc) == IF pc = "idle" THEN Idle ELSE [Idle EXCEPT !.pc = pc, !.job = th[t].job]

\* is_connecting = False; a history variable notes whose connect it frees.
ClearFlag(t) ==
    /\ connecting' = FALSE /\ stuck' = FALSE
    /\ stolen' = (stolen \/ \E u \in Threads \ {t} : InConnect(u))

\* connect_node(n), to return to the place ret.
CallConnect(t, n, ret) ==
    th' = [th EXCEPT ![t].pc = "claim", ![t].node = n, ![t].ret = ret]

\* auto_switch_node(), to return to the place back.
CallSwitch(t, back) ==
    th' = [th EXCEPT ![t] = [InJob(t, "switch") EXCEPT !.back = back]]

\* connect_node returns to its caller.
ReturnFromConnect_NotCounted(t, ok) ==    \* mutant: a failed attempt is not counted
    th' = [th EXCEPT ![t] =
              IF th[t].ret # "switch" THEN InJob(t, th[t].ret)
              ELSE IF ok THEN InJob(t, th[t].back)
              ELSE [InJob(t, "switch") EXCEPT !.back = th[t].back, !.tries = th[t].tries]]
ReturnFromConnect(t, ok) ==
    th' = [th EXCEPT ![t] =
              IF th[t].ret # "switch" THEN InJob(t, th[t].ret)
              ELSE IF ok THEN InJob(t, th[t].back)
              ELSE [InJob(t, "switch") EXCEPT !.back = th[t].back,
                                              !.tries = th[t].tries + 1]]

\* stop_active_openvpn, inside `lock`: gate first, then the process.
StopActive ==
    /\ owner' = None
    /\ live' = live \ {proc} /\ proc' = None /\ activeId' = None

\* It raises: the rules could not be installed; the gate is nobody's, the process lives.
StopRaises ==
    /\ Faults
    /\ owner' = None
    /\ UNCHANGED <<proc, activeId, live>>

-------------------------------------------------------------------------------
(* connect_node.                                                              *)

Claim(t) ==
    /\ At(t, "claim") /\ CanLock(t) /\ ~connecting
    /\ connecting' = TRUE /\ Goto(t, "configure")
    /\ UNCHANGED <<maint, locked, tunnel, files, history>>

Refused(t) ==
    /\ At(t, "claim") /\ CanLock(t) /\ connecting
    /\ ReturnFromConnect(t, FALSE)
    /\ UNCHANGED <<shared, history>>

\* set_state fails between the flag and the try whose finally clears it.
ClaimBreaks(t) ==
    /\ Faults /\ At(t, "claim") /\ CanLock(t) /\ ~connecting
    /\ connecting' = TRUE /\ stuck' = TRUE
    /\ ReturnFromConnect(t, FALSE)
    /\ UNCHANGED <<maint, locked, tunnel, files, stolen>>

\* Where an exception is handled: what is connected is cleared once the old tunnel
\* was stopped, or when it has ended by itself.
Handler(t) ==
    IF th[t].pc \in {"configure", "save", "stop"}
       /\ ~(activeId = th[t].node /\ ~Running)
    THEN "finally" ELSE "clear"

\* set_state, write_json or a configuration file fails.  A child that is waited for
\* goes on, and nobody knows it any more; the handler's own write may fail as well.
ConnectBreaks(t) ==
    /\ Faults
    /\ th[t].pc \in {"save", "stop", "launch", "wait", "failed", "forget", "require",
                     "writeBack", "cleared", "done"}
    /\ th' = [th EXCEPT ![t].pc = IF @ = "cleared" THEN "finally" ELSE Handler(t),
                         ![t].child = None]
    /\ UNCHANGED <<shared, history>>

\* read_nodes: the node may not be listed any more.
Configure(t) ==
    /\ At(t, "configure") /\ CanLock(t)
    /\ IF th[t].node \in nodes.listed
       THEN th' = [th EXCEPT ![t].pc = "save", ![t].list = [nodes EXCEPT !.active = {}]]
       ELSE Goto(t, Handler(t))
    /\ UNCHANGED <<shared, history>>

\* connection_enabled = True, whatever the file says by now.
SaveConfig(t) ==
    /\ At(t, "save") /\ CanLock(t)
    /\ enabled' = TRUE /\ Goto(t, "stop")
    /\ UNCHANGED <<flags, tunnel, nodes, mode, history>>

StopOld(t) ==
    /\ At(t, "stop") /\ CanLock(t)
    /\ \/ StopActive /\ Goto(t, "launch")
       \/ StopRaises /\ Goto(t, Handler(t))
    /\ UNCHANGED <<flags, files, history>>

\* run_openvpn_until_ready: Popen and begin; or it cannot be started.
Fresh == {p \in Procs \ (live \cup {proc, owner}) : \A u \in Threads : th[u].child # p}

Launch(t) ==
    /\ At(t, "launch")
    /\ \E p \in Fresh :
          /\ live' = live \cup {p} /\ owner' = p
          /\ th' = [th EXCEPT ![t].pc = "wait", ![t].child = p]
    /\ UNCHANGED <<flags, proc, activeId, files, history>>

LaunchFails(t) ==
    /\ At(t, "launch")
    /\ Goto(t, "failed")
    /\ UNCHANGED <<shared, history>>

\* "Initialization Sequence Completed"; if the child is the owner, its reader has
\* opened the gate.
Ready(t) ==
    /\ At(t, "wait")
    /\ Goto(t, "adopt")
    /\ UNCHANGED <<shared, history>>

\* A line of failure, the time limit or the child's end: stop_process.
NotReady(t) ==
    /\ At(t, "wait")
    /\ live' = live \ {th[t].child}
    /\ th' = [th EXCEPT ![t].pc = "failed", ![t].child = None]
    /\ UNCHANGED <<flags, proc, activeId, owner, files, history>>

\* The list that was read before the wait goes back, with the node unavailable.
WriteFailed(t) ==
    /\ At(t, "failed") /\ CanLock(t)
    /\ nodes' = [th[t].list EXCEPT !.ok = @ \ {th[t].node}]
    /\ Goto(t, "forget")
    /\ UNCHANGED <<flags, tunnel, enabled, mode, history>>

Forget(t) ==
    /\ At(t, "forget") /\ CanLock(t)
    /\ activeId' = None /\ Goto(t, "clear")
    /\ UNCHANGED <<flags, proc, live, owner, files, history>>

Adopt(t) ==
    /\ At(t, "adopt") /\ CanLock(t)
    /\ proc' = th[t].child /\ activeId' = th[t].node
    /\ th' = [th EXCEPT ![t].pc = "require", ![t].child = None]
    /\ UNCHANGED <<flags, live, owner, files, history>>

\* vpn_runtime.require_interface, and the latency test: the gate may be open for an
\* owner that lives, and for nobody else (VpnRuntime).
Require(t) ==
    /\ At(t, "require")
    /\ \/ owner \in live /\ Goto(t, "writeBack")
       \/ Goto(t, "clear")
    /\ UNCHANGED <<shared, history>>

\* Again the list read before the wait; then check_proxy_health and set_state.
WriteBack(t) ==
    /\ At(t, "writeBack") /\ CanLock(t)
    /\ nodes' = [th[t].list EXCEPT !.active = {th[t].node}]
    /\ Goto(t, "done")
    /\ UNCHANGED <<flags, tunnel, enabled, mode, history>>

\* clear_active_connection_state: the process outside `lock`, then the list.
ClearProcess(t) ==
    /\ At(t, "clear")
    /\ live' = live \ {proc} /\ proc' = None /\ activeId' = None
    /\ Goto(t, "cleared")
    /\ UNCHANGED <<flags, owner, files, history>>

ClearMarks(t) ==
    /\ At(t, "cleared") /\ CanLock(t)
    /\ nodes' = [nodes EXCEPT !.active = {}]
    /\ Goto(t, "finally")
    /\ UNCHANGED <<flags, tunnel, enabled, mode, history>>

Finally(t) ==
    /\ th[t].pc \in {"finally", "done"} /\ CanLock(t)
    /\ ClearFlag(t)
    /\ ReturnFromConnect(t, At(t, "done"))
    /\ UNCHANGED <<maint, locked, tunnel, files>>

-------------------------------------------------------------------------------
(* auto_switch_node.                                                          *)

\* All attempts made, the connection switched off, a fixed node: nothing to do.
SwitchEnds(t) ==
    /\ At(t, "switch")
    /\ th[t].tries = MaxTries \/ ~enabled \/ mode = "fixed_ip"
    /\ th' = [th EXCEPT ![t] = InJob(t, th[t].back)]
    /\ UNCHANGED <<shared, history>>

MaySwitch_Unbounded(t) ==    \* mutant: the attempts are not limited
    /\ At(t, "switch") /\ CanLock(t)
    /\ enabled /\ mode # "fixed_ip"
MaySwitch(t) ==
    /\ At(t, "switch") /\ CanLock(t)
    /\ th[t].tries < MaxTries /\ enabled /\ mode # "fixed_ip"

\* The region or the favourites may leave out any of the candidates.
SwitchTo(t, n) ==
    /\ MaySwitch(t)
    /\ n \in nodes.ok \ nodes.active
    /\ CallConnect(t, n, "switch")
    /\ UNCHANGED <<shared, history>>

NoCandidate(t) ==
    /\ MaySwitch(t)
    /\ Goto(t, "switchStop")
    /\ UNCHANGED <<shared, history>>

\* An exception ends the job; maintenance runs its finally, `lock` is released.
Abandon(t) ==
    /\ th' = [th EXCEPT ![t] = IF InMaintenance(th[t]) THEN InJob(t, "mfinally") ELSE Idle]
    /\ locked' = IF locked = t THEN None ELSE locked
    /\ UNCHANGED <<connecting, maint, files, history>>

\* set_state or write_json fails outside connect_node.
JobBreaks(t) ==
    /\ Faults
    /\ th[t].pc \in {"switchClear", "test", "checked", "offClear"} /\ CanLock(t)
    /\ Abandon(t)
    /\ UNCHANGED tunnel

\* stop_active_openvpn raises there.
JobStopRaises(t) ==
    /\ \/ th[t].pc \in {"switchStop", "offStop"}
       \/ At(t, "revive") /\ Forced(t)
       \/ At(t, "fallen") /\ mode # "fixed_ip" /\ activeId # None
    /\ CanLock(t)
    /\ StopRaises /\ Abandon(t)

SwitchStops(t) ==
    /\ At(t, "switchStop") /\ CanLock(t)
    /\ StopActive /\ Goto(t, "switchClear")
    /\ UNCHANGED <<flags, files, history>>

\* Marks are removed; bg_fetch_and_switch is started (bound: on another, idle thread).
SwitchClears(t) ==
    /\ At(t, "switchClear") /\ CanLock(t)
    /\ nodes' = [nodes EXCEPT !.active = {}]
    /\ LET back == [th EXCEPT ![t] = InJob(t, th[t].back)]
           free == {u \in Threads \ {t} : th[u] = Idle}
       IN \/ /\ \E u \in free :
                th' = [back EXCEPT ![u].pc = "maintain", ![u].job = "background"]
          \/ free = {} /\ th' = back
    /\ UNCHANGED <<flags, tunnel, enabled, mode, history>>

-------------------------------------------------------------------------------
(* maintain_valid_nodes.                                                      *)

\* Its end: the background thread goes on with auto_switch_node.
AfterMaintain(t) == IF th[t].job = "background" THEN [Idle EXCEPT !.pc = "switch"] ELSE Idle

\* maintenance_lock is not waited for; set_state may fail.
MaintainBusy(t) ==
    /\ At(t, "maintain") /\ maint # None
    /\ \/ th' = [th EXCEPT ![t] = AfterMaintain(t)]
       \/ Faults /\ th' = [th EXCEPT ![t] = Idle]
    /\ UNCHANGED <<shared, history>>

\* is_connecting = True, whatever it was.
MaintainStarts(t) ==
    /\ At(t, "maintain") /\ maint = None
    /\ maint' = t /\ connecting' = TRUE /\ Goto(t, "revive")
    /\ UNCHANGED <<locked, tunnel, files, history>>

ForceStops(t) ==
    /\ At(t, "revive") /\ Forced(t) /\ CanLock(t)
    /\ StopActive /\ Goto(t, "fetch")
    /\ UNCHANGED <<flags, files, history>>

\* Nothing runs, although the connection is on: what follows looks again.
Fallen(t) ==
    /\ At(t, "revive") /\ ~Forced(t)
    /\ ~Running /\ enabled
    /\ Goto(t, "fallen")
    /\ UNCHANGED <<shared, history>>

\* fixed_ip: the active node again, or the one ui_auth.json names.
ReviveFixed(t) ==
    /\ At(t, "fallen") /\ CanLock(t) /\ mode = "fixed_ip"
    /\ \E n \in nodes.listed :
          /\ activeId \in {n, None}
          /\ CallConnect(t, n, "resume")
    /\ ClearFlag(t)
    /\ UNCHANGED <<maint, locked, tunnel, files>>

\* The process ended by itself: or so it was when maintenance looked.
ReviveSwitch(t) ==
    /\ At(t, "fallen") /\ CanLock(t) /\ mode # "fixed_ip" /\ activeId # None
    /\ StopActive /\ ClearFlag(t) /\ CallSwitch(t, "resume")
    /\ UNCHANGED <<maint, locked, files>>

NothingToRevive(t) ==
    /\ \/ At(t, "revive") /\ ~Forced(t) /\ (Running \/ ~enabled)
       \/ At(t, "fallen") /\ mode = "fixed_ip" /\ activeId \notin nodes.listed
       \/ At(t, "fallen") /\ mode # "fixed_ip" /\ activeId = None
    /\ CanLock(t)
    /\ Goto(t, "fetch")
    /\ UNCHANGED <<shared, history>>

Resume(t) ==
    /\ At(t, "resume")
    /\ connecting' = TRUE /\ Goto(t, "fetch")
    /\ UNCHANGED <<maint, locked, tunnel, files, history>>

FetchFails(t) ==
    /\ At(t, "fetch")
    /\ Goto(t, "mfinally")
    /\ UNCHANGED <<shared, history>>

\* The new list: the active node and the candidates, nothing else.  Those of them that
\* are not in Nodes are not followed (bound: they are never chosen).
Merged_DropsActive(cands) ==    \* mutant: the active node is not carried over
    [listed |-> cands, ok |-> {}, active |-> {}]
Merged(cands) ==
    LET kept == {activeId} \cap nodes.listed
    IN [listed |-> kept \cup cands, ok |-> kept \cap nodes.ok,
        active |-> kept \cap nodes.active]

\* The thread keeps the nodes that it will test: all that are not active.
Merge(t, cands) ==
    /\ At(t, "fetch") /\ CanLock(t)
    /\ nodes' = Merged(cands)
    /\ th' = [th EXCEPT ![t].pc = "test",
                 ![t].list = [NoList EXCEPT !.listed = nodes'.listed \ nodes'.active]]
    /\ UNCHANGED <<flags, tunnel, enabled, mode, history>>

\* test_multiple_nodes: its results go to those that are still listed.
Tested(t, good) ==
    /\ At(t, "test") /\ CanLock(t) /\ good \subseteq th[t].list.listed
    /\ nodes' = [nodes EXCEPT !.ok = (@ \ th[t].list.listed) \cup (good \cap nodes.listed)]

TestAll(t, good) ==
    /\ Tested(t, good) /\ th[t].job # "request"
    /\ ClearFlag(t)
    /\ th' = [th EXCEPT ![t].pc = "rejoin", ![t].list = NoList]
    /\ UNCHANGED <<maint, locked, tunnel, enabled, mode>>

\* Not connected, and there is somebody to connect to: switch inside `lock`.
Rejoin(t) ==
    /\ At(t, "rejoin") /\ CanLock(t)
    /\ IF ~Running /\ enabled /\ mode # "fixed_ip" /\ nodes.ok # {}
       THEN locked' = t /\ CallSwitch(t, "unlock")
       ELSE UNCHANGED locked /\ Goto(t, "mfinally")
    /\ UNCHANGED <<connecting, maint, tunnel, files, history>>

Unlock_Kept(t) ==    \* mutant: the lock taken around the switch is not released
    /\ At(t, "unlock")
    /\ Goto(t, "mfinally")
    /\ UNCHANGED <<shared, history>>
Unlock(t) ==
    /\ At(t, "unlock")
    /\ locked' = None /\ Goto(t, "mfinally")
    /\ UNCHANGED <<connecting, maint, tunnel, files, history>>

MaintainEnds_KeepsFlag(t) ==    \* mutant: finally releases the lock alone
    /\ At(t, "mfinally")
    /\ maint' = None
    /\ th' = [th EXCEPT ![t] = AfterMaintain(t)]
    /\ UNCHANGED <<connecting, locked, tunnel, files, history>>
MaintainEnds(t) ==
    /\ At(t, "mfinally")
    /\ ClearFlag(t) /\ maint' = None
    /\ th' = [th EXCEPT ![t] = AfterMaintain(t)]
    /\ UNCHANGED <<locked, tunnel, files>>

-------------------------------------------------------------------------------
(* The jobs.                                                                  *)

\* collector_loop, /api/refresh_nodes; /api/check.
StartMaintain(t, job) ==
    /\ At(t, "idle") /\ job \in {"collect", "check all"}
    /\ th' = [th EXCEPT ![t].pc = "maintain", ![t].job = job]
    /\ UNCHANGED <<shared, history>>

\* background_proxy_checker: it looks at the flag, then tries the proxy.
Check(t) ==
    /\ At(t, "idle") /\ ~connecting /\ activeId # None
    /\ Goto(t, "checked")
    /\ UNCHANGED <<shared, history>>

ProxyWorks(t) ==
    /\ At(t, "checked") /\ (owner \in live \/ activeId = None)
    /\ Goto(t, "idle")
    /\ UNCHANGED <<shared, history>>

\* The active node is blacklisted and unavailable.
ProxyFails(t) ==
    /\ At(t, "checked") /\ CanLock(t) /\ activeId # None /\ mode # "fixed_ip"
    /\ nodes' = [nodes EXCEPT !.ok = @ \ {activeId}]
    /\ CallSwitch(t, "idle")
    /\ UNCHANGED <<flags, tunnel, enabled, mode, history>>

FixedFails(t) ==
    /\ At(t, "checked") /\ activeId # None /\ mode = "fixed_ip"
    /\ ClearFlag(t) /\ CallConnect(t, activeId, "idle")
    /\ UNCHANGED <<maint, locked, tunnel, files>>

\* /api/test_nodes and /api/test_node: beside whatever else is going on.
AskTest(t, ns) ==
    /\ At(t, "idle") /\ ns \subseteq nodes.listed /\ ns # {}
    /\ th' = [th EXCEPT ![t].pc = "test", ![t].list = [NoList EXCEPT !.listed = ns]]
    /\ UNCHANGED <<shared, history>>

TestRequested(t, good) ==
    /\ Tested(t, good) /\ th[t].job = "request"
    /\ th' = [th EXCEPT ![t] = Idle]
    /\ UNCHANGED <<flags, tunnel, enabled, mode, history>>

\* /api/connect.
AskConnect(t, n) ==
    /\ At(t, "idle") /\ n \in nodes.listed
    /\ CallConnect(t, n, "idle")
    /\ UNCHANGED <<shared, history>>

\* /api/disconnect: the file, the process, the marks.
AskDisconnect(t) ==
    /\ At(t, "idle") /\ CanLock(t)
    /\ enabled' = FALSE /\ Goto(t, "offStop")
    /\ UNCHANGED <<flags, tunnel, nodes, mode, history>>

OffStop(t) ==
    /\ At(t, "offStop") /\ CanLock(t)
    /\ StopActive /\ Goto(t, "offClear")
    /\ UNCHANGED <<flags, files, history>>

OffClear(t) ==
    /\ At(t, "offClear") /\ CanLock(t)
    /\ nodes' = [nodes EXCEPT !.active = {}]
    /\ Goto(t, "idle")
    /\ UNCHANGED <<flags, tunnel, enabled, mode, history>>

-------------------------------------------------------------------------------
ChildDies(p) ==
    /\ p \in live
    /\ live' = live \ {p}
    /\ UNCHANGED <<flags, proc, activeId, owner, files, th, history>>

\* The container starts again: main(), with the files of before.
Restart ==
    /\ connecting' = TRUE /\ maint' = None /\ locked' = None
    /\ proc' = None /\ activeId' = None /\ live' = {} /\ owner' = None
    /\ th' \in CollectorStarts
    /\ stolen' = FALSE /\ stuck' = FALSE
    /\ UNCHANGED <<files>>

ConnectStep(t) ==
    \/ Claim(t) \/ ClaimBreaks(t) \/ ConnectBreaks(t) \/ Refused(t) \/ Configure(t) \/ SaveConfig(t) \/ StopOld(t)
    \/ Launch(t) \/ LaunchFails(t) \/ Ready(t) \/ NotReady(t)
    \/ WriteFailed(t) \/ Forget(t) \/ Adopt(t) \/ Require(t) \/ WriteBack(t)
    \/ ClearProcess(t) \/ ClearMarks(t) \/ Finally(t)

SwitchStep(t) ==
    \/ SwitchEnds(t) \/ NoCandidate(t) \/ SwitchStops(t) \/ SwitchClears(t)
    \/ JobBreaks(t) \/ JobStopRaises(t)
    \/ \E n \in Nodes : SwitchTo(t, n)

MaintainStep(t) ==
    \/ MaintainBusy(t) \/ MaintainStarts(t) \/ ForceStops(t) \/ Fallen(t)
    \/ ReviveFixed(t) \/ ReviveSwitch(t) \/ NothingToRevive(t) \/ Resume(t) \/ FetchFails(t)
    \/ \E ns \in SUBSET Nodes : Merge(t, ns) \/ TestAll(t, ns) \/ TestRequested(t, ns)
    \/ Rejoin(t) \/ Unlock(t) \/ MaintainEnds(t)

CheckerStep(t) == ProxyWorks(t) \/ ProxyFails(t) \/ FixedFails(t)

\* What a thread that works does next.
Work(t) ==
    ConnectStep(t) \/ SwitchStep(t) \/ MaintainStep(t) \/ CheckerStep(t)
    \/ OffStop(t) \/ OffClear(t)

Start(t) ==
    \/ \E job \in Jobs : StartMaintain(t, job)
    \/ Check(t) \/ AskDisconnect(t)
    \/ \E n \in Nodes : AskConnect(t, n)
    \/ \E ns \in SUBSET Nodes : AskTest(t, ns)

Next ==
    \/ \E t \in Threads : Work(t) \/ Start(t)
    \/ \E p \in Procs : ChildDies(p)
    \/ Restart

Spec == Init /\ [][Next]_vars

-------------------------------------------------------------------------------
(* Properties.                                                                *)

\* Whenever no connect is under way the active node is in nodes.json, although
\* maintenance replaces the list and connects write back old ones: the checker
\* and the pinger find it (connect_node, maintain_valid_nodes).
ActiveIsListed ==
    stolen \/ ((\A t \in Threads : ~InConnect(t)) /\ activeId # None
                   => activeId \in nodes.listed)

\* Neither is_connecting nor one of the locks is ever left taken: whoever has it
\* is on the way to the place that gives it back (the finally of connect_node and
\* of maintain_valid_nodes, the switch inside `lock`).  The one exception is named:
\* a claim whose set_state fails keeps the flag until somebody else clears it.
FlagHeld ==
    /\ connecting => stuck \/ \E t \in Threads :
                                \/ InConnect(t) \/ maint = t
                                \/ At(t, "maintain") /\ th[t].job = "collect"
    /\ maint # None => InMaintenance(th[maint])
    /\ locked # None => th[locked].back = "unlock" \/ At(locked, "unlock")

\* A bound on the steps that the thread r still makes for its job: in
\* connect_node, in auto_switch_node with its attempts, in the rest of the job.
ConnectLeft(r) ==
    CASE r.pc = "finally"                  -> 3
      [] r.pc = "cleared"                  -> 4
      [] r.pc = "clear"                    -> 5
      [] r.pc = "done"                     -> 6
      [] r.pc = "writeBack"                -> 7
      [] r.pc \in {"forget", "require"}    -> 8
      [] r.pc \in {"failed", "adopt"}      -> 9
      [] r.pc = "wait"                     -> 10
      [] r.pc = "launch"                   -> 11
      [] r.pc = "stop"                     -> 12
      [] r.pc = "save"                     -> 13
      [] r.pc = "configure"                -> 14
      [] r.pc = "claim"                    -> 15
      [] OTHER                             -> 0

SwitchLeft(r) ==
    20 * (MaxTries - r.tries)
      + (CASE r.pc = "switch"      -> 2
           [] r.pc = "switchStop"  -> 1
           [] r.pc = "switchClear" -> 0
           [] OTHER                -> ConnectLeft(r) - 18)

CallLeft(r) ==
    IF r.pc \in {"switch", "switchStop", "switchClear"} \/ r.ret = "switch"
    THEN SwitchLeft(r) ELSE ConnectLeft(r)

\* What auto_switch_node takes at most.
Round == 20 * MaxTries + 20

StepsLeft(r) ==
    CASE r.pc = "idle"     -> 0
      [] r.pc = "offClear" -> 1
      [] r.pc = "offStop"  -> 2
      [] r.pc \in {"mfinally", "checked"} -> Round + 2
      [] r.pc = "unlock"   -> Round + 3
      [] r.pc = "rejoin"   -> 2 * Round + 5
      [] r.pc = "test"     -> 2 * Round + 6
      [] r.pc = "fetch"    -> 2 * Round + 7
      [] r.pc = "resume"   -> 2 * Round + 8
      [] r.pc = "fallen"   -> 3 * Round + 10
      [] r.pc = "revive"   -> 3 * Round + 11
      [] r.pc = "maintain" -> 3 * Round + 12
      [] OTHER -> CallLeft(r) + (IF "resume" \in {r.ret, r.back} THEN 2 * Round + 9
                                 ELSE IF r.back = "unlock" THEN Round + 4
                                 ELSE 1)

\* Every step of a thread brings its job nearer to its end, and nobody else's
\* step takes it back: no retry, restart of the switch or repeated maintenance
\* goes round for ever (auto_switch_node's attempts, maintain_valid_nodes).
JobsAdvance ==
    [][~Restart => \A t \in Threads : \/ At(t, "idle") \/ th'[t] = th[t]
                                      \/ StepsLeft(th'[t]) < StepsLeft(th[t])]_vars

\* No thread is ever blocked for good, although a switch runs inside the lock that all
\* others need: whoever is at work can take a step, or waits for `lock` and its holder
\* can, which by JobsAdvance brings the lock back (maintain_valid_nodes,
\* auto_switch_node, the RLock `lock`).
NobodyIsStuck ==
    \A t \in Threads : ~At(t, "idle") =>
        \/ ENABLED Work(t)
        \/ locked \notin {None, t} /\ ENABLED Work(locked)

\* Every OpenVPN child that runs is the active process or in the hands of the thread
\* that started it, so that somebody will stop it (kill_existing_openvpn_processes:
\* "child lifecycle is managed by this process").
ChildrenAccountedFor == live \subseteq {proc} \cup {th[t].child : t \in Threads}

\* What /api/disconnect has switched off no automatic switch turns on again
\* (auto_switch_node, and connect_node, which sets connection_enabled).
OffStaysOff ==
    [][~enabled /\ enabled' => \E t \in Threads : At(t, "save") /\ th[t].ret = "idle"]_vars
================================================================================
