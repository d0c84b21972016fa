---------------------------- MODULE VpnRuntimeProofs ----------------------------
(*****************************************************************************)
(* Proofs about VpnRuntime, for any number of children, devices and sessions:   *)
(* no socket survives its gate, the container is not reported healthy behind a  *)
(* closed gate, what passes is the traffic of the owner's own device, the gate  *)
(* keeps the promise of ServingGate, and that of a dead owner only closes.      *)
(*****************************************************************************)
EXTENDS VpnRuntime, TLAPS

\* While an activation holds LOCK the gate is closed and a device is nominated.
StepInv ==
    step # None => interface = None /\ state = None /\ candidate # None /\ owner # None

\* The registered sockets are the bound ones, and the gate is theirs.
SockInv ==
    \A s \in Sessions : /\ bound[s] # None <=> s \in sockets
                        /\ bound[s] # None => bound[s] = interface

\* Before entrypoint has reset the record nothing runs that it could speak of.
DownInv == boot # "up" => /\ interface = None /\ step = None
                          /\ \A d \in Devices : links[d] = None
                          /\ \A c \in Children : child[c] # "running"

\* Then it is this gate's, or the gate was closed and the rules with it.
RecordInv == boot = "up" => \/ state = None
                            \/ interface = state.gate /\ owner = state.pid
                            \/ interface = None /\ step = None /\ rules \notin Devices

\* No line of c is unread that says that its device opened or went down.
Quiet(c) == \A k \in 1 .. Len(log[c]) : log[c][k].kind = "completed"

OwnedBy(d, c) == links[d] # None /\ links[d].by = c

\* Line k of c is the last unread one about its device.
Latest(c, k) ==
    /\ log[c][k].kind = "opened"
    /\ \A j \in 1 .. Len(log[c]) : j > k => log[c][j].kind = "completed"

\* Of a child that lives such a line is still true.
LogInv ==
    \A c \in Children : child[c] # "dead" =>
        \A k \in 1 .. Len(log[c]) : Latest(c, k) => OwnedBy(log[c][k].dev, c)

\* A device that has this ifindex is the owner's, unless the owner's log has news.
IsOwners(d, i) ==
    Quiet(owner) => (links[d] # None /\ links[d].idx = i => links[d].by = owner)

\* The nomination is up to date.
Nominated == /\ candidate # None /\ owner # None /\ child[owner] # "dead"
             /\ reader[owner] = "reading" /\ Quiet(owner)

OwnInv ==
    /\ Nominated => OwnedBy(candidate, owner)
    /\ interface # None => owner # None /\ IsOwners(interface.dev, interface.idx)
    /\ step # None => IsOwners(candidate, step.idx)

\* No ifindex is yet to come.
IndexInv ==
    /\ interface # None => interface.idx <= index
    /\ step # None => step.idx <= index
    /\ \A d \in Devices : links[d] # None => links[d].idx <= index

-------------------------------------------------------------------------------
(* Types.                                                                      *)

LEMMA RevokeType ==
    ASSUME TypeOK, NEW u \in BOOLEAN, NEW i \in BOOLEAN, Revoke(u, i)
    PROVE  /\ interface' = None /\ sockets' = {}
           /\ state' \in {state, None} /\ (u => state' = None)
           /\ rules' \in {rules, "closed"} /\ (i => rules' = "closed") /\ (u \/ i)
           /\ bound' \in [Sessions -> Gates \cup {None}]
           /\ \A s \in Sessions : bound'[s] = IF s \in sockets THEN None ELSE bound[s]
BY DEF TypeOK, Revoke, CloseSockets

LEMMA LinksType ==
    ASSUME TypeOK, NEW c \in Children
    PROVE  /\ LinksWithout(c) \in
                 [Devices -> [idx : 1 .. MaxIndex, by : Children, ready : BOOLEAN] \cup {None}]
           /\ RouteAfter(LinksWithout(c)) \in Devices \cup {None}
BY DEF TypeOK, LinksWithout, RouteAfter

LEMMA FirstValues ==
    /\ 0 \in 0 .. MaxIndex
    /\ [c \in Children |-> <<>>] \in [Children -> Seq(Lines)]
    /\ [d \in Devices |-> None] \in
          [Devices -> [idx : 1 .. MaxIndex, by : Children, ready : BOOLEAN] \cup {None}]
    /\ [s \in Sessions |-> None] \in [Sessions -> Gates \cup {None}]
<1>1. 0 \in 0 .. MaxIndex
    BY RuntimeAssumption
<1>2. <<>> \in Seq(Lines)
    OBVIOUS
<1>3. QED
    BY <1>1, <1>2

LEMMA TypeInit == Init => TypeOK
<1> SUFFICES ASSUME Init PROVE TypeOK
    OBVIOUS
<1>1. index \in 0 .. MaxIndex /\ log \in [Children -> Seq(Lines)]
    BY FirstValues DEF Init
<1>2. /\ links \in [Devices -> [idx : 1 .. MaxIndex, by : Children, ready : BOOLEAN] \cup {None}]
      /\ bound \in [Sessions -> Gates \cup {None}]
    BY FirstValues DEF Init
<1>3. /\ child \in [Children -> {"new", "running", "dead"}]
      /\ reader \in [Children -> {"none", "reading", "failed", "ended"}]
      /\ phase \in [Sessions -> {"idle", "accepted", "open"}]
    BY DEF Init
<1>4. QED
    BY <1>1, <1>2, <1>3 DEF Init, TypeOK

LEMMA StartupType ==
    ASSUME TypeOK, Startup
    PROVE  TypeOK'
<1>1. CASE InstallRules
    BY <1>1 DEF TypeOK, InstallRules, gateVars, childVars, sessionVars
<1>2. CASE ResetState
    BY <1>2 DEF TypeOK, ResetState, childVars, kernelVars, sessionVars
<1>3. CASE Restart
    BY <1>3, FirstValues DEF TypeOK, Restart
<1>4. QED
    BY <1>1, <1>2, <1>3 DEF Startup

LEMMA ChildType ==
    ASSUME TypeOK, NEW c \in Children, ChildStep(c)
    PROVE  TypeOK'
<1>1. CASE Launch(c)
    BY <1>1 DEF TypeOK, Launch, gateVars, kernelVars, sessionVars
<1>2. CASE CloseTun(c)
    <2>1. [kind |-> "down"] \in Lines
        BY DEF Lines
    <2>2. log' \in [Children -> Seq(Lines)]
        BY <1>2, <2>1 DEF TypeOK, CloseTun, Append1
    <2>3. QED
        BY <1>2, <2>2, LinksType DEF TypeOK, CloseTun, gateVars, sessionVars
<1>3. CASE Exit(c)
    BY <1>3, LinksType DEF TypeOK, Exit, gateVars, sessionVars
<1>4. ASSUME NEW d \in Devices, OpenTun(c, d) PROVE TypeOK'
    <2>1. [kind |-> "opened", dev |-> d] \in Lines
        BY DEF Lines
    <2>2. log' \in [Children -> Seq(Lines)]
        BY <1>4, <2>1 DEF TypeOK, OpenTun, Append1
    <2>3. index' \in 0 .. MaxIndex /\ index + 1 \in 1 .. MaxIndex
        BY <1>4, RuntimeAssumption DEF TypeOK, OpenTun
    <2>4. QED
        BY <1>4, <2>2, <2>3 DEF TypeOK, OpenTun, gateVars, sessionVars
<1>5. ASSUME NEW d \in Devices, Complete(c, d) PROVE TypeOK'
    <2>1. [kind |-> "completed"] \in Lines
        BY DEF Lines
    <2>2. log' \in [Children -> Seq(Lines)]
        BY <1>5, <2>1 DEF TypeOK, Complete, Append1
    <2>3. links' \in [Devices -> [idx : 1 .. MaxIndex, by : Children, ready : BOOLEAN]
                                 \cup {None}]
        BY <1>5 DEF TypeOK, Complete
    <2>4. QED
        BY <1>5, <2>2, <2>3 DEF TypeOK, Complete, gateVars, sessionVars
<1>6. QED
    BY <1>1, <1>2, <1>3, <1>4, <1>5 DEF ChildStep

LEMMA ManagerType ==
    ASSUME TypeOK, ManagerStep
    PROVE  TypeOK'
<1>1. ASSUME NEW c \in Children, Begin(c) PROVE TypeOK'
    BY <1>1, RevokeType DEF TypeOK, Begin
<1>2. ASSUME NEW c \in Children, BeginFails(c) PROVE TypeOK'
    <2>1. PICK u \in BOOLEAN, i \in BOOLEAN : Revoke(u, i)
        BY <1>2 DEF BeginFails
    <2>2. QED
        BY <1>2, <2>1, RevokeType, LinksType DEF TypeOK, BeginFails
<1>3. ASSUME NEW u \in BOOLEAN, NEW i \in BOOLEAN, Cleanup(u, i) PROVE TypeOK'
    BY <1>3, RevokeType DEF TypeOK, Cleanup, childVars
<1>4. QED
    BY <1>1, <1>2, <1>3 DEF ManagerStep

LEMMA ActivationType ==
    ASSUME TypeOK, StepInv, ActivationStep
    PROVE  TypeOK'
<1>1. CASE SetupRoute
    BY <1>1 DEF TypeOK, SetupRoute, StepIs, gateVars, childVars, sessionVars
<1>2. CASE OpenRules
    BY <1>2 DEF TypeOK, StepInv, OpenRules, StepIs, gateVars, childVars, sessionVars
<1>3. CASE ActivationRaises
    <2>1. step # None /\ candidate \in Devices /\ step.by \in Children
        BY <1>3 DEF TypeOK, StepInv, ActivationRaises, StepIs
    <2>2. rules' \in Devices \cup {"closed", "gone"} /\ route' \in Devices \cup {None}
        BY <1>3, <2>1 DEF TypeOK, ActivationRaises
    <2>3. reader' \in [Children -> {"none", "reading", "failed", "ended"}]
        BY <1>3, <2>1 DEF TypeOK, ActivationRaises
    <2>4. QED
        BY <1>3, <2>2, <2>3 DEF TypeOK, ActivationRaises, gateVars, sessionVars
<1>4. CASE Publish
    <2>1. step # None /\ candidate \in Devices /\ owner \in Children
        BY <1>4 DEF TypeOK, StepInv, Publish, StepIs
    <2>2. [dev |-> candidate, idx |-> step.idx] \in Gates
        BY <2>1 DEF TypeOK, Gates
    <2>3. interface' \in Gates /\ state' \in [gate : Gates, pid : Children]
        BY <1>4, <2>1, <2>2 DEF Publish
    <2>4. QED
        BY <1>4, <2>3 DEF TypeOK, Publish, childVars, kernelVars, sessionVars
<1>5. ASSUME NEW u \in BOOLEAN, NEW i \in BOOLEAN, PublishRaises(u, i) PROVE TypeOK'
    <2>1. step.by \in Children
        BY <1>5 DEF TypeOK, PublishRaises, StepIs
    <2>2. reader' \in [Children -> {"none", "reading", "failed", "ended"}]
        BY <1>5, <2>1 DEF TypeOK, PublishRaises
    <2>3. QED
        BY <1>5, <2>2, RevokeType DEF TypeOK, PublishRaises
<1>6. QED
    BY <1>1, <1>2, <1>3, <1>4, <1>5 DEF ActivationStep

LEMMA MonitorType ==
    ASSUME TypeOK, Monitor
    PROVE  TypeOK'
<1>1. CASE Refresh
    <2>1. interface \in Gates /\ owner \in Children
        BY <1>1 DEF TypeOK, Refresh, Usable, Alive
    <2>2. QED
        BY <1>1, <2>1 DEF TypeOK, Refresh, childVars, kernelVars, sessionVars
<1>2. ASSUME NEW u \in BOOLEAN, NEW i \in BOOLEAN, MonitorRevokes(u, i) PROVE TypeOK'
    BY <1>2, RevokeType DEF TypeOK, MonitorRevokes, childVars
<1>3. QED
    BY <1>1, <1>2 DEF Monitor

\* What a line says, and what is left of the log behind it.
LEMMA LineType ==
    ASSUME TypeOK, NEW c \in Children, NEW kinds, Reads(c, kinds)
    PROVE  /\ Head(log[c]) \in Lines
           /\ Head(log[c]).kind = "opened" => Head(log[c]).dev \in Devices
           /\ log' \in [Children -> Seq(Lines)]
<1>1. log[c] \in Seq(Lines) /\ log[c] # <<>>
    BY DEF TypeOK, Reads
<1>2. Head(log[c]) \in Lines /\ Tail(log[c]) \in Seq(Lines)
    BY <1>1
<1>3. log' \in [Children -> Seq(Lines)]
    BY <1>2 DEF TypeOK, Reads
<1>4. QED
    BY <1>2, <1>3 DEF Lines

LEMMA ReaderType ==
    ASSUME TypeOK, NEW c \in Children, ReaderStep(c)
    PROVE  TypeOK'
<1>1. CASE LateLine(c)
    BY <1>1, LineType DEF TypeOK, LateLine, gateVars, kernelVars, sessionVars
<1>2. CASE Nominate(c)
    <2>1. candidate' \in Devices \cup {None}
        BY <1>2, LineType DEF Nominate
    <2>2. QED
        BY <1>2, <2>1, LineType, RevokeType DEF TypeOK, Nominate
<1>3. CASE Activate(c)
    <2>1. links[candidate] \in [idx : 1 .. MaxIndex, by : Children, ready : BOOLEAN]
        BY <1>3 DEF TypeOK, Activate
    <2>2. step' \in [by : Children, at : {"route", "rules", "publish"}, idx : 1 .. MaxIndex]
        BY <1>3, <2>1 DEF Activate
    <2>3. QED
        BY <1>3, <2>2, LineType, RevokeType DEF TypeOK, Activate
<1>4. ASSUME NEW u \in BOOLEAN, NEW i \in BOOLEAN, EventRaises(c, u, i) PROVE TypeOK'
    BY <1>4, LineType, RevokeType DEF TypeOK, EventRaises
<1>5. ASSUME NEW u \in BOOLEAN, NEW i \in BOOLEAN, GiveUp(c, u, i) PROVE TypeOK'
    BY <1>5, RevokeType DEF TypeOK, GiveUp
<1>6. ASSUME NEW u \in BOOLEAN, NEW i \in BOOLEAN, Eof(c, u, i) PROVE TypeOK'
    <2>1. CASE Revoke(u, i)
        BY <1>6, <2>1, RevokeType DEF TypeOK, Eof
    <2>2. CASE UNCHANGED <<interface, sockets, state, rules, bound>>
        BY <1>6, <2>2 DEF TypeOK, Eof
    <2>3. QED
        BY <1>6, <2>1, <2>2 DEF Eof
<1>7. QED
    BY <1>1, <1>2, <1>3, <1>4, <1>5, <1>6 DEF ReaderStep

LEMMA SessionType ==
    ASSUME TypeOK, NEW s \in Sessions, SessionStep(s)
    PROVE  TypeOK'
<1>1. CASE Accept(s)
    BY <1>1 DEF TypeOK, Accept, gateVars, childVars, kernelVars
<1>2. CASE Open(s)
    <2>1. [dev |-> interface.dev, idx |-> links[interface.dev].idx] \in Gates
        BY <1>2 DEF TypeOK, Open, BindSocket, Usable, Identity, Gates
    <2>2. bound' \in [Sessions -> Gates \cup {None}] /\ sockets' \subseteq Sessions
        BY <1>2, <2>1 DEF TypeOK, Open, BindSocket
    <2>3. QED
        BY <1>2, <2>2 DEF TypeOK, Open, childVars, kernelVars
<1>3. CASE Resolved(s)
    BY <1>3 DEF TypeOK, Resolved, childVars, kernelVars
<1>4. CASE EndSession(s)
    BY <1>4 DEF TypeOK, EndSession, childVars, kernelVars
<1>5. QED
    BY <1>1, <1>2, <1>3, <1>4 DEF SessionStep

LEMMA TypeStep ==
    ASSUME TypeOK, StepInv, [Next]_vars
    PROVE  TypeOK'
<1>1. CASE Tamper
    BY <1>1 DEF TypeOK, Tamper, gateVars, childVars, sessionVars
<1>2. CASE UNCHANGED vars
    BY <1>2 DEF TypeOK, vars, gateVars, childVars, kernelVars, sessionVars
<1>3. QED
    BY <1>1, <1>2, StartupType, ChildType, ManagerType, ActivationType, MonitorType,
       ReaderType, SessionType DEF Next

-------------------------------------------------------------------------------
(* The gate and its sockets.                                                   *)

Revokes == \E u \in BOOLEAN, i \in BOOLEAN : Revoke(u, i)

\* What a step can do to the gate, its sockets and the record.
LEMMA StepKinds ==
    ASSUME [Next]_vars
    PROVE  \/ UNCHANGED <<interface, sockets, state, bound>>
           \/ Restart \/ ResetState \/ Publish \/ Refresh \/ Revokes
           \/ \E s \in Sessions : Open(s) \/ Resolved(s) \/ EndSession(s)
<1>1. CASE UNCHANGED vars
    BY <1>1 DEF vars, gateVars, sessionVars
<1>2. CASE InstallRules \/ Tamper
    BY <1>2 DEF InstallRules, Tamper, gateVars, sessionVars
<1>3. CASE ManagerStep
    BY <1>3 DEF ManagerStep, Begin, BeginFails, Cleanup, Revokes
<1>4. CASE ActivationStep
    BY <1>4 DEF ActivationStep, SetupRoute, OpenRules, ActivationRaises, PublishRaises,
                Revokes, gateVars, sessionVars
<1>5. CASE Monitor
    BY <1>5 DEF Monitor, MonitorRevokes, Revokes
<1>6. ASSUME NEW c \in Children, ChildStep(c)
      PROVE  UNCHANGED <<interface, sockets, state, bound>>
    BY <1>6 DEF ChildStep, Launch, CloseTun, Exit, OpenTun, Complete, gateVars, sessionVars
<1>7. ASSUME NEW c \in Children, ReaderStep(c)
      PROVE  UNCHANGED <<interface, sockets, state, bound>> \/ Revokes
    <2>1. CASE LateLine(c)
        BY <2>1 DEF LateLine, gateVars, sessionVars
    <2>2. CASE Nominate(c) \/ Activate(c)
        BY <2>2 DEF Nominate, Activate, Revokes
    <2>3. ASSUME NEW u \in BOOLEAN, NEW i \in BOOLEAN,
                 EventRaises(c, u, i) \/ GiveUp(c, u, i) \/ Eof(c, u, i)
          PROVE  UNCHANGED <<interface, sockets, state, bound>> \/ Revokes
        BY <2>3 DEF EventRaises, GiveUp, Eof, Revokes
    <2>4. QED
        BY <1>7, <2>1, <2>2, <2>3 DEF ReaderStep
<1>8. ASSUME NEW s \in Sessions, Accept(s)
      PROVE  UNCHANGED <<interface, sockets, state, bound>>
    BY <1>8 DEF Accept, gateVars
<1>9. QED
    BY <1>1, <1>2, <1>3, <1>4, <1>5, <1>6, <1>7, <1>8 DEF Next, Startup, SessionStep

LEMMA SockStep ==
    ASSUME TypeOK, StepInv, SockInv, [Next]_vars
    PROVE  SockInv'
<1>1. CASE UNCHANGED <<interface, sockets, state, bound>>
    BY <1>1 DEF SockInv
<1>2. CASE Restart
    BY <1>2 DEF SockInv, Restart
<1>3. CASE ResetState \/ Refresh
    BY <1>3 DEF SockInv, ResetState, Refresh, sessionVars
<1>4. CASE Publish
    <2>1. \A s \in Sessions : bound[s] = None
        BY <1>4 DEF StepInv, SockInv, Publish, StepIs
    <2>2. UNCHANGED <<sockets, bound>>
        BY <1>4 DEF Publish, sessionVars
    <2>3. QED
        BY <2>1, <2>2 DEF SockInv
<1>5. CASE Revokes
    <2>1. PICK u \in BOOLEAN, i \in BOOLEAN : Revoke(u, i)
        BY <1>5 DEF Revokes
    <2>2. sockets' = {} /\ \A s \in Sessions : bound'[s] = IF s \in sockets THEN None ELSE bound[s]
        BY <2>1, RevokeType
    <2>3. \A s \in Sessions : bound'[s] = None
        BY <2>2 DEF SockInv
    <2>4. QED
        BY <2>2, <2>3 DEF SockInv
<1>6. ASSUME NEW s \in Sessions, Open(s) PROVE SockInv'
    <2>1. /\ interface \in Gates /\ interface' = interface /\ sockets' = sockets \cup {s}
          /\ bound' = [bound EXCEPT ![s] = [dev |-> interface.dev, idx |-> interface.idx]]
        BY <1>6 DEF TypeOK, Open, BindSocket, Usable, Identity
    <2>2. [dev |-> interface.dev, idx |-> interface.idx] = interface
        BY <2>1 DEF Gates
    <2>3. bound' = [bound EXCEPT ![s] = interface] /\ interface # None
        BY <1>6, <2>1, <2>2 DEF Open, BindSocket
    <2>4. QED
        BY <2>1, <2>3 DEF TypeOK, SockInv
<1>7. ASSUME NEW s \in Sessions, Resolved(s) \/ EndSession(s) PROVE SockInv'
    BY <1>7 DEF TypeOK, SockInv, Resolved, EndSession
<1>8. QED
    BY <1>1, <1>2, <1>3, <1>4, <1>5, <1>6, <1>7, StepKinds

LEMMA StepStep ==
    ASSUME TypeOK, StepInv, [Next]_vars
    PROVE  StepInv'
<1>1. CASE UNCHANGED vars
    BY <1>1 DEF StepInv, vars, gateVars
<1>2. CASE Startup \/ Tamper
    BY <1>2 DEF StepInv, Startup, InstallRules, ResetState, Restart, Tamper, gateVars
<1>3. CASE ManagerStep
    BY <1>3 DEF StepInv, ManagerStep, Begin, BeginFails, Cleanup, Free
<1>4. CASE ActivationStep
    BY <1>4 DEF StepInv, ActivationStep, SetupRoute, OpenRules, ActivationRaises, Publish,
                PublishRaises, StepIs, gateVars
<1>5. CASE Monitor
    BY <1>5 DEF StepInv, Monitor, Refresh, MonitorRevokes, Free
<1>6. ASSUME NEW c \in Children, ChildStep(c) PROVE StepInv'
    BY <1>6 DEF StepInv, ChildStep, Launch, CloseTun, Exit, OpenTun, Complete, gateVars
<1>7. ASSUME NEW c \in Children, ReaderStep(c) PROVE StepInv'
    <2>1. CASE LateLine(c) \/ Nominate(c)
        BY <2>1 DEF StepInv, LateLine, Nominate, Reads, Free
    <2>2. CASE Activate(c)
        <3>1. interface' = None /\ state' = None
            BY <2>2, RevokeType DEF Activate
        <3>2. candidate' # None /\ owner' # None
            BY <2>2, RuntimeAssumption DEF TypeOK, Activate, IsOwner
        <3>3. QED
            BY <3>1, <3>2 DEF StepInv
    <2>3. ASSUME NEW u \in BOOLEAN, NEW i \in BOOLEAN,
                 EventRaises(c, u, i) \/ GiveUp(c, u, i) \/ Eof(c, u, i)
          PROVE  StepInv'
        BY <2>3 DEF StepInv, EventRaises, GiveUp, Eof, Reads, Free
    <2>4. QED
        BY <1>7, <2>1, <2>2, <2>3 DEF ReaderStep
<1>8. ASSUME NEW s \in Sessions, SessionStep(s) PROVE StepInv'
    BY <1>8 DEF StepInv, SessionStep, Accept, Open, Resolved, EndSession, gateVars
<1>9. QED
    BY <1>1, <1>2, <1>3, <1>4, <1>5, <1>6, <1>7, <1>8 DEF Next

-------------------------------------------------------------------------------
(* The record on disk.                                                         *)

LEMMA DownStep ==
    ASSUME TypeOK, StepInv, DownInv, [Next]_vars
    PROVE  DownInv'
<1>1. CASE UNCHANGED vars
    BY <1>1 DEF DownInv, vars, gateVars, childVars, kernelVars
<1>2. CASE Startup \/ Tamper
    BY <1>2 DEF DownInv, Startup, InstallRules, ResetState, Restart, Tamper, gateVars,
                childVars, kernelVars
<1>3. CASE ManagerStep
    BY <1>3 DEF DownInv, ManagerStep, Begin, BeginFails, Cleanup, Free
<1>4. CASE ActivationStep
    BY <1>4 DEF DownInv, ActivationStep, SetupRoute, OpenRules, ActivationRaises, Publish,
                PublishRaises, StepIs, gateVars
<1>5. CASE Monitor
    BY <1>5 DEF DownInv, Monitor, Refresh, MonitorRevokes, Free
<1>6. ASSUME NEW c \in Children, ChildStep(c) PROVE DownInv'
    BY <1>6 DEF DownInv, ChildStep, Launch, CloseTun, Exit, OpenTun, Complete, Alive
<1>7. ASSUME NEW c \in Children, ReaderStep(c) PROVE DownInv'
    BY <1>7 DEF DownInv, ReaderStep, LateLine, Nominate, Activate, EventRaises, GiveUp, Eof,
                Reads, Free
<1>8. ASSUME NEW s \in Sessions, SessionStep(s) PROVE DownInv'
    BY <1>8 DEF DownInv, SessionStep, Accept, Open, Resolved, EndSession, gateVars,
                childVars, kernelVars
<1>9. QED
    BY <1>1, <1>2, <1>3, <1>4, <1>5, <1>6, <1>7, <1>8 DEF Next

\* revoke leaves no record, or rules that let nothing through; no activation runs.
LEMMA RevokeRecord ==
    ASSUME TypeOK, StepInv, NEW u \in BOOLEAN, NEW i \in BOOLEAN, Revoke(u, i), step' = None
    PROVE  RecordInv'
BY RevokeType, RuntimeAssumption DEF RecordInv

LEMMA RecordStep ==
    ASSUME TypeOK, StepInv, DownInv, RecordInv, [Next]_vars
    PROVE  RecordInv'
<1>1. CASE UNCHANGED vars
    BY <1>1 DEF RecordInv, vars, gateVars, kernelVars
<1>2. CASE Startup
    BY <1>2 DEF RecordInv, Startup, InstallRules, ResetState, Restart
<1>3. CASE Tamper
    BY <1>3, RuntimeAssumption DEF RecordInv, Tamper, gateVars
<1>4. CASE ManagerStep
    BY <1>4, RevokeRecord DEF ManagerStep, Begin, BeginFails, Cleanup, Free
<1>5. CASE ActivationStep
    <2>1. step # None /\ state = None
        BY <1>5 DEF StepInv, ActivationStep, SetupRoute, OpenRules, ActivationRaises, Publish,
                    PublishRaises, StepIs
    <2>2. CASE SetupRoute \/ OpenRules \/ ActivationRaises
        BY <2>1, <2>2 DEF RecordInv, SetupRoute, OpenRules, ActivationRaises, gateVars
    <2>3. CASE Publish
        BY <2>3 DEF RecordInv, Publish
    <2>4. ASSUME NEW u \in BOOLEAN, NEW i \in BOOLEAN, PublishRaises(u, i) PROVE RecordInv'
        BY <2>4, RevokeRecord DEF PublishRaises
    <2>5. QED
        BY <1>5, <2>2, <2>3, <2>4 DEF ActivationStep
<1>6. CASE Refresh
    BY <1>6 DEF RecordInv, Refresh
<1>7. ASSUME NEW u \in BOOLEAN, NEW i \in BOOLEAN, MonitorRevokes(u, i) PROVE RecordInv'
    BY <1>7, RevokeRecord DEF MonitorRevokes, Free
<1>8. ASSUME NEW c \in Children, ChildStep(c) PROVE RecordInv'
    BY <1>8 DEF RecordInv, ChildStep, Launch, CloseTun, Exit, OpenTun, Complete, gateVars,
                kernelVars
<1>9. ASSUME NEW c \in Children, ReaderStep(c) PROVE RecordInv'
    <2>1. CASE LateLine(c)
        BY <2>1 DEF RecordInv, LateLine, gateVars, kernelVars
    <2>2. CASE Nominate(c)
        BY <2>2, RevokeRecord DEF Nominate, Reads, Free
    <2>3. CASE Activate(c)
        BY <2>3, RevokeType DEF RecordInv, Activate
    <2>4. ASSUME NEW u \in BOOLEAN, NEW i \in BOOLEAN,
                 EventRaises(c, u, i) \/ GiveUp(c, u, i) \/ Eof(c, u, i)
          PROVE  RecordInv'
        <3>1. step = None /\ step' = None /\ UNCHANGED <<boot, owner>>
            BY <2>4 DEF EventRaises, GiveUp, Eof, Reads, Free
        <3>2. Revoke(u, i) \/ UNCHANGED <<interface, state, rules>>
            BY <2>4 DEF EventRaises, GiveUp, Eof
        <3>3. QED
            BY <3>1, <3>2, RevokeRecord DEF RecordInv
    <2>5. QED
        BY <1>9, <2>1, <2>2, <2>3, <2>4 DEF ReaderStep
<1>10. ASSUME NEW s \in Sessions, SessionStep(s) PROVE RecordInv'
    BY <1>10 DEF RecordInv, SessionStep, Accept, Open, Resolved, EndSession, gateVars,
                 kernelVars
<1>11. QED
    BY <1>1, <1>2, <1>3, <1>4, <1>5, <1>6, <1>7, <1>8, <1>9, <1>10 DEF Next, Monitor

-------------------------------------------------------------------------------
(* The kernel's numbers and the logs.                                          *)

AllKinds == {"opened", "down", "completed"}

\* What a step can do to the devices and the logs.
LEMMA KernelKinds ==
    ASSUME [Next]_vars
    PROVE  \/ UNCHANGED <<child, log, links, index>>
           \/ Restart
           \/ \E c \in Children : Launch(c) \/ CloseTun(c) \/ Exit(c) \/ BeginFails(c)
           \/ \E c \in Children, d \in Devices : OpenTun(c, d) \/ Complete(c, d)
           \/ \E c \in Children : Reads(c, AllKinds) /\ UNCHANGED <<child, links, index>>
<1>1. CASE UNCHANGED vars
    BY <1>1 DEF vars, childVars, kernelVars
<1>2. CASE InstallRules \/ ResetState \/ Tamper
    BY <1>2 DEF InstallRules, ResetState, Tamper, childVars, kernelVars
<1>3. CASE ManagerStep
    BY <1>3 DEF ManagerStep, Begin, Cleanup, childVars
<1>4. CASE ActivationStep \/ Monitor
    BY <1>4 DEF ActivationStep, SetupRoute, OpenRules, ActivationRaises, Publish,
                PublishRaises, Monitor, Refresh, MonitorRevokes, childVars, kernelVars
<1>5. ASSUME NEW c \in Children, ReaderStep(c)
      PROVE  \/ UNCHANGED <<child, log, links, index>>
             \/ Reads(c, AllKinds) /\ UNCHANGED <<child, links, index>>
    BY <1>5 DEF ReaderStep, LateLine, Nominate, Activate, EventRaises, GiveUp, Eof, Reads,
                AllKinds, kernelVars
<1>6. ASSUME NEW s \in Sessions, SessionStep(s) PROVE UNCHANGED <<child, log, links, index>>
    BY <1>6 DEF SessionStep, Accept, Open, Resolved, EndSession, childVars, kernelVars
<1>7. QED
    BY <1>1, <1>2, <1>3, <1>4, <1>5, <1>6 DEF Next, Startup, ChildStep

LEMMA IndexStep ==
    ASSUME TypeOK, StepInv, IndexInv, [Next]_vars
    PROVE  IndexInv'
<1>. USE RuntimeAssumption
<1>1. index' >= index \/ Restart
    <2>1. index' \in {index, index + 1} \/ Restart
        BY KernelKinds DEF Launch, CloseTun, Exit, BeginFails, OpenTun, Complete, kernelVars
    <2>2. index \in Nat
        BY DEF TypeOK
    <2>3. QED
        BY <2>1, <2>2
<1>2. \A d \in Devices : links'[d] # None => links'[d].idx <= index'
    <2>1. CASE UNCHANGED <<child, log, links, index>>
        BY <2>1 DEF IndexInv
    <2>2. CASE Restart
        BY <2>2 DEF Restart
    <2>3. ASSUME NEW c \in Children, Launch(c) \/ CloseTun(c) \/ Exit(c) \/ BeginFails(c)
          PROVE  \A d \in Devices : links'[d] # None => links'[d].idx <= index'
        BY <2>3 DEF IndexInv, Launch, CloseTun, Exit, BeginFails, LinksWithout, kernelVars
    <2>4. ASSUME NEW c \in Children, NEW e \in Devices, OpenTun(c, e)
          PROVE  \A d \in Devices : links'[d] # None => links'[d].idx <= index'
        BY <2>4 DEF TypeOK, IndexInv, OpenTun
    <2>5. ASSUME NEW c \in Children, NEW e \in Devices, Complete(c, e)
          PROVE  \A d \in Devices : links'[d] # None => links'[d].idx <= index'
        BY <2>5 DEF TypeOK, IndexInv, Complete
    <2>6. CASE UNCHANGED <<child, links, index>>
        BY <2>6 DEF IndexInv
    <2>7. QED
        BY <2>1, <2>2, <2>3, <2>4, <2>5, <2>6, KernelKinds
<1>3. interface' # None => interface'.idx <= index'
    <2>1. CASE UNCHANGED interface
        <3>1. index \in Nat /\ index' \in Nat /\ (interface # None => interface.idx \in Nat)
            BY TypeStep DEF TypeOK, Gates
        <3>2. QED
            BY <1>1, <2>1, <3>1 DEF IndexInv, Restart
    <2>2. CASE Restart \/ Revokes
        BY <2>2, RevokeType DEF Restart, Revokes
    <2>3. CASE Publish
        BY <2>3 DEF IndexInv, Publish, StepIs, kernelVars
    <2>4. QED
        BY <2>1, <2>2, <2>3, StepKinds DEF ResetState, Refresh, Open, Resolved, EndSession
<1>4. step' # None => step'.idx <= index'
    <2>1. CASE UNCHANGED step
        <3>1. index \in Nat /\ index' \in Nat /\ (step # None => step.idx \in Nat)
            BY TypeStep DEF TypeOK
        <3>2. CASE Restart
            BY <3>2 DEF Restart
        <3>3. CASE index' >= index
            BY <2>1, <3>1, <3>3 DEF IndexInv
        <3>4. QED
            BY <1>1, <3>2, <3>3
    <2>2. CASE ActivationStep
        BY <2>2 DEF TypeOK, IndexInv, ActivationStep, SetupRoute, OpenRules, ActivationRaises,
                    Publish, PublishRaises, StepIs
    <2>3. ASSUME NEW c \in Children, Activate(c) PROVE step' # None => step'.idx <= index'
        BY <2>3 DEF TypeOK, IndexInv, Activate
    <2>4. CASE Restart
        BY <2>4 DEF Restart
    <2>5. UNCHANGED step \/ ActivationStep \/ Restart \/ \E c \in Children : Activate(c)
        BY DEF Next, vars, Startup, InstallRules, ResetState, Tamper, ManagerStep, Begin,
               BeginFails, Cleanup, Monitor, Refresh, MonitorRevokes, ChildStep, Launch,
               CloseTun, Exit, OpenTun, Complete, ReaderStep, LateLine, Nominate, EventRaises,
               GiveUp, Eof, SessionStep, Accept, Open, Resolved, EndSession
    <2>6. QED
        BY <2>1, <2>2, <2>3, <2>4, <2>5
<1>5. QED
    BY <1>2, <1>3, <1>4 DEF IndexInv

LEMMA LogType ==
    ASSUME TypeOK, NEW c \in Children
    PROVE  /\ log[c] \in Seq(Lines) /\ Len(log[c]) \in Nat
           /\ \A k \in 1 .. Len(log[c]) :
                 log[c][k].kind = "opened" => log[c][k].dev \in Devices
<1>1. log[c] \in Seq(Lines)
    BY DEF TypeOK
<1>2. \A k \in 1 .. Len(log[c]) : log[c][k] \in Lines
    BY <1>1
<1>3. QED
    BY <1>1, <1>2 DEF Lines

\* A line that is written is the last one, and the others keep their places.
LEMMA Written ==
    ASSUME TypeOK, NEW c \in Children, NEW e \in Children, NEW line, log' = Append1(e, line)
    PROVE  /\ c # e => log'[c] = log[c]
           /\ Len(log'[e]) = Len(log[e]) + 1 /\ log'[e][Len(log[e]) + 1] = line
           /\ \A k \in 1 .. Len(log[e]) : log'[e][k] = log[e][k]
<1>1. c # e => log'[c] = log[c]
    BY DEF TypeOK, Append1
<1>2. log'[e] = Append(log[e], line)
    BY DEF TypeOK, Append1
<1>3. QED
    BY <1>1, <1>2, LogType

\* Reading takes the first line away.
LEMMA Read ==
    ASSUME TypeOK, NEW c \in Children, NEW e \in Children, Reads(e, AllKinds)
    PROVE  /\ c # e => log'[c] = log[c]
           /\ Len(log[e]) >= 1 /\ Len(log'[e]) = Len(log[e]) - 1
           /\ log[e][1] = Head(log[e])
           /\ \A k \in 1 .. Len(log'[e]) : log'[e][k] = log[e][k + 1]
<1>1. c # e => log'[c] = log[c]
    BY DEF TypeOK, Reads
<1>2. log'[e] = Tail(log[e]) /\ log[e] # <<>>
    BY DEF TypeOK, Reads
<1>3. QED
    BY <1>1, <1>2, LogType

\* The devices of the other children stay.
LEMMA OthersLinks ==
    ASSUME TypeOK, NEW c \in Children, NEW e \in Children, c # e, NEW d \in Devices,
           links' = LinksWithout(e), OwnedBy(d, c)
    PROVE  OwnedBy(d, c)'
BY DEF TypeOK, OwnedBy, LinksWithout

LEMMA LogStep ==
    ASSUME TypeOK, LogInv, [Next]_vars
    PROVE  LogInv'
<1> SUFFICES ASSUME NEW c \in Children, child'[c] # "dead",
                    NEW k \in 1 .. Len(log'[c]), Latest(c, k)'
             PROVE  OwnedBy(log[c][k].dev, c)'
    BY DEF LogInv
<1>1. ASSUME log'[c] = log[c], child[c] # "dead"
      PROVE  OwnedBy(log'[c][k].dev, c) /\ log'[c][k].dev \in Devices
    BY <1>1, LogType DEF LogInv, Latest
<1>2. CASE UNCHANGED <<child, log, links, index>>
    BY <1>1, <1>2 DEF OwnedBy
<1>3. CASE Restart
    BY <1>3 DEF Restart
<1>4. ASSUME NEW e \in Children, Launch(e) PROVE OwnedBy(log[c][k].dev, c)'
    BY <1>1, <1>4 DEF TypeOK, OwnedBy, Launch, kernelVars
<1>5. ASSUME NEW e \in Children, CloseTun(e) PROVE OwnedBy(log[c][k].dev, c)'
    <2>1. log' = Append1(e, [kind |-> "down"]) /\ links' = LinksWithout(e) /\ child' = child
        BY <1>5 DEF CloseTun
    <2>2. c # e
        BY <2>1, Written, LogType DEF Latest
    <2>3. QED
        BY <1>1, <2>1, <2>2, Written, OthersLinks
<1>6. ASSUME NEW e \in Children, Exit(e) \/ BeginFails(e) PROVE OwnedBy(log[c][k].dev, c)'
    <2>1. links' = LinksWithout(e) /\ log' = log /\ child' = [child EXCEPT ![e] = "dead"]
        BY <1>6 DEF Exit, BeginFails
    <2>2. c # e /\ child[c] # "dead"
        BY <2>1 DEF TypeOK
    <2>3. QED
        BY <1>1, <2>1, <2>2, OthersLinks
<1>7. ASSUME NEW e \in Children, NEW d \in Devices, OpenTun(e, d)
      PROVE  OwnedBy(log[c][k].dev, c)'
    <2>1. /\ log' = Append1(e, [kind |-> "opened", dev |-> d]) /\ child' = child
          /\ links[d] = None
          /\ links' = [links EXCEPT ![d] = [idx |-> index + 1, by |-> e, ready |-> FALSE]]
        BY <1>7 DEF OpenTun
    <2>2. CASE c # e
        BY <1>1, <2>1, <2>2, Written DEF TypeOK, OwnedBy
    <2>3. CASE c = e
        <3>1. k = Len(log[c]) + 1
            BY <2>1, <2>3, Written, LogType DEF Latest
        <3>2. log'[c][k].dev = d
            BY <2>1, <2>3, <3>1, Written
        <3>3. links'[d] = [idx |-> index + 1, by |-> e, ready |-> FALSE]
            BY <2>1 DEF TypeOK
        <3>4. links'[d] # None
            <4>1. index + 1 \in 1 .. MaxIndex
                BY <1>7, RuntimeAssumption DEF TypeOK, OpenTun
            <4>2. links'[d] \in [idx : 1 .. MaxIndex, by : Children, ready : BOOLEAN]
                BY <3>3, <4>1
            <4>3. QED
                BY <4>2, RuntimeAssumption
        <3>5. QED
            BY <2>3, <3>2, <3>3, <3>4 DEF OwnedBy
    <2>4. QED
        BY <2>2, <2>3
<1>8. ASSUME NEW e \in Children, NEW d \in Devices, Complete(e, d)
      PROVE  OwnedBy(log[c][k].dev, c)'
    <2>1. /\ log' = Append1(e, [kind |-> "completed"]) /\ child' = child /\ links[d] # None
          /\ links' = [links EXCEPT ![d].ready = TRUE]
        BY <1>8 DEF Complete
    <2>2. k \in 1 .. Len(log[c]) /\ log'[c][k] = log[c][k] /\ Latest(c, k)
        BY <2>1, Written, LogType DEF Latest
    <2>3. OwnedBy(log[c][k].dev, c) /\ log[c][k].dev \in Devices
        BY <2>1, <2>2, LogType DEF LogInv, Latest
    <2>4. \A x \in Devices : OwnedBy(x, c) => OwnedBy(x, c)'
        BY <2>1, RuntimeAssumption DEF TypeOK, OwnedBy
    <2>5. QED
        BY <2>2, <2>3, <2>4
<1>9. ASSUME NEW e \in Children, Reads(e, AllKinds), UNCHANGED <<child, links, index>>
      PROVE  OwnedBy(log[c][k].dev, c)'
    <2>1. CASE c # e
        BY <1>1, <1>9, <2>1, Read DEF OwnedBy
    <2>2. CASE c = e
        <3>1. k + 1 \in 1 .. Len(log[c]) /\ log'[c][k] = log[c][k + 1]
            BY <1>9, <2>2, Read, LogType
        <3>2. ASSUME NEW j \in 1 .. Len(log[c]), j > k + 1
              PROVE  log[c][j].kind = "completed"
            <4>1. j - 1 \in 1 .. Len(log'[c]) /\ j - 1 > k /\ (j - 1) + 1 = j
                BY <1>9, <2>2, <3>2, Read, LogType
            <4>2. log'[c][j - 1] = log[c][j]
                BY <1>9, <2>2, <4>1, Read
            <4>3. QED
                BY <4>1, <4>2 DEF Latest
        <3>3. Latest(c, k + 1)
            BY <3>1, <3>2 DEF Latest
        <3>4. QED
            BY <1>9, <3>1, <3>3 DEF LogInv, OwnedBy
    <2>3. QED
        BY <2>1, <2>2
<1>10. QED
    BY <1>2, <1>3, <1>4, <1>5, <1>6, <1>7, <1>8, <1>9, KernelKinds

-------------------------------------------------------------------------------
(* The owner's device.                                                         *)

\* News of c are not forgotten, but by reading them.
LEMMA QuietKept ==
    ASSUME TypeOK, [Next]_vars, NEW c \in Children, Quiet(c)', ~Restart,
           Reads(c, AllKinds) => Head(log[c]).kind = "completed"
    PROVE  Quiet(c)
<1> SUFFICES ASSUME NEW k \in 1 .. Len(log[c]) PROVE log[c][k].kind = "completed"
    BY DEF Quiet
<1>1. CASE log'[c] = log[c]
    BY <1>1 DEF Quiet
<1>2. ASSUME NEW line, log' = Append1(c, line) PROVE log[c][k].kind = "completed"
    BY <1>2, Written, LogType DEF Quiet
<1>3. CASE Reads(c, AllKinds)
    <2>1. CASE k = 1
        BY <1>3, <2>1, Read
    <2>2. CASE k > 1
        <3>1. k - 1 \in 1 .. Len(log'[c]) /\ (k - 1) + 1 = k
            BY <1>3, <2>2, Read, LogType
        <3>2. log'[c][k - 1] = log[c][k]
            BY <1>3, <3>1, Read
        <3>3. QED
            BY <3>1, <3>2 DEF Quiet
    <2>3. QED
        BY <2>1, <2>2, LogType
<1>4. log'[c] = log[c] \/ Reads(c, AllKinds) \/ \E line : log' = Append1(c, line)
    <2>1. ASSUME NEW e \in Children, NEW line, log' = Append1(e, line)
          PROVE  log'[c] = log[c] \/ log' = Append1(c, line)
        BY <2>1, Written
    <2>2. ASSUME NEW e \in Children, Reads(e, AllKinds)
          PROVE  log'[c] = log[c] \/ Reads(c, AllKinds)
        BY <2>2, Read
    <2>3. \/ UNCHANGED log
          \/ \E e \in Children : Reads(e, AllKinds)
          \/ \E e \in Children : \E line : log' = Append1(e, line)
        BY KernelKinds DEF Launch, CloseTun, Exit, BeginFails, OpenTun, Complete
    <2>4. QED
        BY <2>1, <2>2, <2>3
<1>5. QED
    BY <1>1, <1>2, <1>3, <1>4

\* As long as a child lives and has no news its device stays its own.
LEMMA OwnedKept ==
    ASSUME TypeOK, [Next]_vars, NEW c \in Children, NEW d \in Devices, OwnedBy(d, c),
           child'[c] # "dead", Quiet(c)', ~Restart
    PROVE  OwnedBy(d, c)'
<1>1. CASE UNCHANGED <<child, links, index>>
    BY <1>1 DEF OwnedBy
<1>2. ASSUME NEW e \in Children, Launch(e) PROVE OwnedBy(d, c)'
    BY <1>2 DEF OwnedBy, Launch, kernelVars
<1>3. ASSUME NEW e \in Children, CloseTun(e) PROVE OwnedBy(d, c)'
    <2>1. log' = Append1(e, [kind |-> "down"]) /\ links' = LinksWithout(e)
        BY <1>3 DEF CloseTun
    <2>2. c # e
        BY <2>1, Written, LogType DEF Quiet
    <2>3. QED
        BY <2>1, <2>2, OthersLinks
<1>4. ASSUME NEW e \in Children, Exit(e) \/ BeginFails(e) PROVE OwnedBy(d, c)'
    <2>1. links' = LinksWithout(e) /\ child' = [child EXCEPT ![e] = "dead"]
        BY <1>4 DEF Exit, BeginFails
    <2>2. c # e
        BY <2>1 DEF TypeOK
    <2>3. QED
        BY <2>1, <2>2, OthersLinks
<1>5. ASSUME NEW e \in Children, NEW x \in Devices, OpenTun(e, x) PROVE OwnedBy(d, c)'
    BY <1>5 DEF TypeOK, OwnedBy, OpenTun
<1>6. ASSUME NEW e \in Children, NEW x \in Devices, Complete(e, x) PROVE OwnedBy(d, c)'
    BY <1>6, RuntimeAssumption DEF TypeOK, OwnedBy, Complete
<1>7. QED
    BY <1>1, <1>2, <1>3, <1>4, <1>5, <1>6, KernelKinds

\* A device keeps its ifindex and its child; a new one has a number of its own.
LEMMA LinkKept ==
    ASSUME TypeOK, [Next]_vars, NEW d \in Devices, links'[d] # None, ~Restart
    PROVE  \/ links'[d].idx = index + 1
           \/ links[d] # None /\ links'[d].idx = links[d].idx /\ links'[d].by = links[d].by
<1>1. CASE UNCHANGED <<child, links, index>>
    BY <1>1
<1>2. ASSUME NEW e \in Children, Launch(e) \/ CloseTun(e) \/ Exit(e) \/ BeginFails(e)
      PROVE  links'[d] = links[d]
    BY <1>2 DEF Launch, CloseTun, Exit, BeginFails, LinksWithout, kernelVars
<1>3. ASSUME NEW e \in Children, NEW x \in Devices, OpenTun(e, x)
      PROVE  links'[d] = links[d] \/ links'[d].idx = index + 1
    BY <1>3 DEF TypeOK, OpenTun
<1>4. ASSUME NEW e \in Children, NEW x \in Devices, Complete(e, x)
      PROVE  links[d] # None /\ links'[d].idx = links[d].idx /\ links'[d].by = links[d].by
    BY <1>4 DEF TypeOK, Complete
<1>5. QED
    BY <1>1, <1>2, <1>3, <1>4, KernelKinds

\* A step that does not nominate, activate or publish anything.
Calm ==
    /\ UNCHANGED <<owner, candidate>> /\ interface' \in {interface, None}
    /\ step' # None => step # None /\ step'.idx = step.idx
    /\ owner # None => /\ reader'[owner] = "reading" => reader[owner] = "reading"
                       /\ \/ log'[owner] = log[owner]
                          \/ \E line : log' = Append1(owner, line)

LEMMA OwnerKinds ==
    ASSUME TypeOK, [Next]_vars, ~Restart
    PROVE  \/ Calm \/ Publish
           \/ interface' = None /\ candidate' = None /\ step' = None
           \/ \E c \in Children : Nominate(c) \/ Activate(c)
           \/ \E c \in Children, u \in BOOLEAN, i \in BOOLEAN : EventRaises(c, u, i)
<1>1. CASE UNCHANGED vars
    BY <1>1 DEF Calm, vars, gateVars, childVars
<1>2. CASE InstallRules \/ ResetState \/ Tamper
    BY <1>2 DEF Calm, InstallRules, ResetState, Tamper, gateVars, childVars
<1>3. CASE ManagerStep
    <2>1. ASSUME NEW c \in Children, Begin(c)
          PROVE  interface' = None /\ candidate' = None /\ step' = None
        BY <2>1, RevokeType DEF Begin, Free
    <2>2. ASSUME NEW c \in Children, BeginFails(c) PROVE Calm
        BY <2>2, RevokeType DEF TypeOK, Calm, BeginFails
    <2>3. ASSUME NEW u \in BOOLEAN, NEW i \in BOOLEAN, Cleanup(u, i)
          PROVE  interface' = None /\ candidate' = None /\ step' = None
        BY <2>3, RevokeType DEF Cleanup, Free
    <2>4. QED
        BY <1>3, <2>1, <2>2, <2>3 DEF ManagerStep
<1>4. CASE SetupRoute \/ OpenRules
    BY <1>4 DEF TypeOK, Calm, SetupRoute, OpenRules, StepIs, gateVars, childVars
<1>5. CASE ActivationRaises
    BY <1>5 DEF TypeOK, Calm, ActivationRaises, StepIs, gateVars
<1>6. ASSUME NEW u \in BOOLEAN, NEW i \in BOOLEAN, PublishRaises(u, i) PROVE Calm
    BY <1>6, RevokeType DEF TypeOK, Calm, PublishRaises, StepIs
<1>7. CASE Monitor
    BY <1>7, RevokeType DEF Calm, Monitor, Refresh, MonitorRevokes, childVars
<1>8. ASSUME NEW c \in Children, ChildStep(c) PROVE Calm
    <2>1. UNCHANGED <<gateVars, step, reader>>
        BY <1>8 DEF ChildStep, Launch, CloseTun, Exit, OpenTun, Complete
    <2>2. UNCHANGED log \/ \E line : log' = Append1(c, line)
        BY <1>8 DEF ChildStep, Launch, CloseTun, Exit, OpenTun, Complete
    <2>3. owner # None => \/ log'[owner] = log[owner]
                          \/ \E line : log' = Append1(owner, line)
        BY <2>2, Written DEF TypeOK
    <2>4. QED
        BY <2>1, <2>3 DEF Calm, gateVars
<1>9. ASSUME NEW c \in Children, LateLine(c) PROVE Calm
    <2>1. UNCHANGED <<gateVars, step, reader>> /\ c # owner
        BY <1>9 DEF LateLine, IsOwner
    <2>2. owner # None => log'[owner] = log[owner]
        BY <1>9, <2>1, Read DEF TypeOK, LateLine, AllKinds
    <2>3. QED
        BY <2>1, <2>2 DEF Calm, gateVars
<1>10. ASSUME NEW c \in Children, NEW u \in BOOLEAN, NEW i \in BOOLEAN,
              GiveUp(c, u, i) \/ Eof(c, u, i)
       PROVE  Calm
    <2>1. UNCHANGED <<owner, candidate, step, log>> /\ reader' = [reader EXCEPT ![c] = "ended"]
        BY <1>10 DEF GiveUp, Eof
    <2>2. interface' \in {interface, None}
        BY <1>10, RevokeType DEF GiveUp, Eof
    <2>3. owner # None => (reader'[owner] = "reading" => reader[owner] = "reading")
        BY <2>1 DEF TypeOK
    <2>4. QED
        BY <2>1, <2>2, <2>3 DEF Calm
<1>11. ASSUME NEW s \in Sessions, SessionStep(s) PROVE Calm
    BY <1>11 DEF Calm, SessionStep, Accept, Open, Resolved, EndSession, gateVars, childVars
<1>12. QED
    BY <1>1, <1>2, <1>3, <1>4, <1>5, <1>6, <1>7, <1>8, <1>9, <1>10, <1>11
    DEF Next, Startup, ActivationStep, ReaderStep

\* A calm step reads nothing of the owner's, so what was its own stays its own.
LEMMA CalmKeeps ==
    ASSUME TypeOK, IndexInv, [Next]_vars, ~Restart, Calm, owner # None
    PROVE  /\ Quiet(owner)' => Quiet(owner)
           /\ \A d \in Devices, i \in 1 .. MaxIndex :
                 i <= index /\ IsOwners(d, i) => IsOwners(d, i)'
<1>1. owner \in Children /\ owner' = owner
    BY DEF TypeOK, Calm
<1>2. ~Reads(owner, AllKinds)
    BY <1>1, Read, Written, LogType DEF Calm
<1>3. Quiet(owner)' => Quiet(owner)
    BY <1>1, <1>2, QuietKept DEF Quiet
<1>4. ASSUME NEW d \in Devices, NEW i \in 1 .. MaxIndex, i <= index, IsOwners(d, i)
      PROVE  IsOwners(d, i)'
    <2> SUFFICES ASSUME Quiet(owner)', links'[d] # None, links'[d].idx = i
                 PROVE  links'[d].by = owner
        BY <1>1 DEF IsOwners
    <2>1. links'[d].idx # index + 1
        BY <1>4 DEF TypeOK
    <2>2. links[d] # None /\ links[d].idx = i /\ links'[d].by = links[d].by
        BY <2>1, LinkKept
    <2>3. QED
        BY <1>3, <1>4, <2>2 DEF IsOwners
<1>5. QED
    BY <1>3, <1>4

LEMMA OwnStep ==
    ASSUME TypeOK, StepInv, IndexInv, LogInv, OwnInv, [Next]_vars
    PROVE  OwnInv'
<1> USE DEF Nominated
<1>1. CASE Restart
    BY <1>1 DEF OwnInv, Restart
<1>2. CASE ~Restart /\ Calm
    <2>1. ASSUME Nominated' PROVE OwnedBy(candidate, owner)'
        <3>1. /\ owner' = owner /\ owner \in Children /\ candidate' = candidate
              /\ candidate \in Devices /\ child'[owner] # "dead"
            BY <1>2, <2>1 DEF TypeOK, Calm
        <3>2. child[owner] # "dead"
            BY <1>2, <3>1, KernelKinds
            DEF TypeOK, Launch, CloseTun, Exit, BeginFails, OpenTun, Complete
        <3>3. Quiet(owner) /\ reader[owner] = "reading"
            BY <1>2, <2>1, <3>1, CalmKeeps DEF Calm
        <3>4. OwnedBy(candidate, owner)
            BY <3>1, <3>2, <3>3, RuntimeAssumption DEF OwnInv
        <3>5. OwnedBy(candidate, owner)'
            BY <1>2, <2>1, <3>1, <3>4, OwnedKept DEF Quiet, OwnedBy
        <3>6. QED
            BY <3>5
    <2>2. ASSUME interface' # None
          PROVE  owner' # None /\ IsOwners(interface.dev, interface.idx)'
        <3>1. interface' = interface /\ owner' = owner /\ owner # None
            BY <1>2, <2>2 DEF Calm, OwnInv
        <3>2. interface.dev \in Devices /\ interface.idx \in 1 .. MaxIndex
            BY <2>2, <3>1 DEF TypeOK, Gates
        <3>3. interface.idx <= index /\ IsOwners(interface.dev, interface.idx)
            BY <2>2, <3>1 DEF OwnInv, IndexInv
        <3>4. IsOwners(interface.dev, interface.idx)'
            BY <1>2, <3>1, <3>2, <3>3, CalmKeeps DEF IsOwners
        <3>5. QED
            BY <3>1, <3>4
    <2>3. ASSUME step' # None PROVE IsOwners(candidate, step.idx)'
        <3>1. step # None /\ step'.idx = step.idx /\ candidate' = candidate /\ owner' = owner
            BY <1>2, <2>3 DEF Calm
        <3>2. owner # None /\ candidate \in Devices /\ step.idx \in 1 .. MaxIndex
            BY <3>1 DEF TypeOK, StepInv
        <3>3. step.idx <= index /\ IsOwners(candidate, step.idx)
            BY <3>1 DEF OwnInv, IndexInv
        <3>4. QED
            BY <1>2, <3>1, <3>2, <3>3, CalmKeeps DEF IsOwners
    <2>4. QED
        BY <2>1, <2>2, <2>3 DEF OwnInv
<1>3. CASE Publish
    <2>1. /\ step # None /\ step' = None /\ interface' = [dev |-> candidate, idx |-> step.idx]
          /\ UNCHANGED <<owner, candidate, child, reader, log, links>>
        BY <1>3 DEF Publish, StepIs, childVars, kernelVars
    <2>2. owner # None /\ IsOwners(candidate, step.idx)
        BY <2>1 DEF StepInv, OwnInv
    <2>3. QED
        BY <2>1, <2>2 DEF OwnInv, IsOwners, Quiet, OwnedBy
<1>4. CASE interface' = None /\ candidate' = None /\ step' = None
    BY <1>4 DEF OwnInv
<1>5. ASSUME NEW c \in Children, Nominate(c) PROVE OwnInv'
    <2>1. /\ owner' = owner /\ c = owner /\ step' = None /\ Reads(c, AllKinds)
          /\ UNCHANGED <<child, links>>
        BY <1>5 DEF Nominate, IsOwner, Reads, Free, AllKinds
    <2>2. interface' = None
        BY <1>5, RevokeType DEF Nominate
    <2>3. ASSUME Nominated' PROVE OwnedBy(candidate, owner)'
        <3>1. Head(log[c]).kind = "opened" /\ candidate' = Head(log[c]).dev
            BY <1>5, <2>3 DEF Nominate
        <3>2. 1 \in 1 .. Len(log[c]) /\ log[c][1] = Head(log[c])
            BY <2>1, Read, LogType
        <3>3. ASSUME NEW j \in 1 .. Len(log[c]), j > 1 PROVE log[c][j].kind = "completed"
            <4>1. j - 1 \in 1 .. Len(log'[c]) /\ (j - 1) + 1 = j
                BY <2>1, <3>3, Read, LogType
            <4>2. log'[c][j - 1] = log[c][j]
                BY <2>1, <4>1, Read
            <4>3. QED
                BY <2>1, <2>3, <4>1, <4>2 DEF Quiet
        <3>4. Latest(c, 1)
            BY <3>1, <3>2, <3>3 DEF Latest
        <3>5. OwnedBy(log[c][1].dev, c)
            BY <2>1, <2>3, <3>2, <3>4 DEF LogInv
        <3>6. QED
            BY <2>1, <3>1, <3>2, <3>5 DEF OwnedBy
    <2>4. QED
        BY <2>1, <2>2, <2>3 DEF OwnInv
<1>6. ASSUME NEW c \in Children, Activate(c) PROVE OwnInv'
    <2>1. /\ owner' = owner /\ c = owner /\ candidate' = candidate /\ candidate # None
          /\ Reads(c, {"completed"}) /\ child[owner] = "running"
          /\ UNCHANGED <<child, reader, links>>
        BY <1>6 DEF Activate, IsOwner, Alive
    <2>2. Reads(c, AllKinds) /\ Head(log[c]).kind = "completed" /\ ~Restart
        BY <1>6, <2>1 DEF Activate, Reads, AllKinds, Restart, Free
    <2>3. interface' = None /\ owner # None /\ reader[owner] = "reading"
        BY <1>6, <2>1, RevokeType, RuntimeAssumption DEF Activate, Reads
    <2>4. ASSUME Quiet(owner)' PROVE OwnedBy(candidate, owner)
        <3>1. Quiet(owner)
            BY <2>1, <2>2, <2>4, QuietKept DEF Quiet
        <3>2. QED
            BY <2>1, <2>3, <3>1 DEF OwnInv
    <2>5. QED
        BY <2>1, <2>3, <2>4 DEF OwnInv, IsOwners, OwnedBy, Quiet
<1>7. ASSUME NEW c \in Children, NEW u \in BOOLEAN, NEW i \in BOOLEAN, EventRaises(c, u, i)
      PROVE  OwnInv'
    <2>1. /\ owner' = owner /\ c = owner /\ step' = None
          /\ reader' = [reader EXCEPT ![c] = "failed"]
        BY <1>7 DEF EventRaises, IsOwner, Reads, Free
    <2>2. interface' = None /\ reader'[owner] # "reading"
        BY <1>7, <2>1, RevokeType DEF TypeOK, EventRaises
    <2>3. QED
        BY <2>1, <2>2 DEF OwnInv
<1>8. QED
    BY <1>1, <1>2, <1>3, <1>4, <1>5, <1>6, <1>7, OwnerKinds

-------------------------------------------------------------------------------
(* The theorems.                                                               *)

IInv == TypeOK /\ StepInv /\ SockInv /\ DownInv /\ RecordInv /\ IndexInv /\ LogInv /\ OwnInv

LEMMA Inductive == Spec => []IInv
<1>1. Init => IInv
    <2> SUFFICES ASSUME Init PROVE IInv
        OBVIOUS
    <2>1. StepInv /\ SockInv /\ DownInv /\ RecordInv /\ IndexInv /\ OwnInv
        BY DEF Init, StepInv, SockInv, DownInv, RecordInv, IndexInv, OwnInv, Nominated
    <2>2. LogInv
        BY DEF Init, LogInv
    <2>3. QED
        BY <2>1, <2>2, TypeInit DEF IInv
<1>2. IInv /\ [Next]_vars => IInv'
    BY TypeStep, StepStep, SockStep, DownStep, RecordStep, IndexStep, LogStep, OwnStep DEF IInv
<1>3. QED
    BY <1>1, <1>2, PTL DEF Spec

\* Every value has its type (vpn_runtime's globals, the kernel's tables, the proxy).
THEOREM TypeCorrect == Spec => []TypeOK
<1>1. IInv => TypeOK
    BY DEF IInv
<1>2. QED
    BY <1>1, Inductive, PTL

\* No socket of the proxy outlives the gate that it was opened under
\* (vpn_runtime.bind_socket, revoke).
THEOREM SocketsClosed == Spec => []SocketsOfTheGate
<1>1. IInv => SocketsOfTheGate
    BY DEF IInv, SockInv, SocketsOfTheGate
<1>2. QED
    BY <1>1, Inductive, PTL

\* The container is healthy only while the gate that is recorded is open, through
\* failed revocations and restarts (vpn_runtime.healthy, revoke; entrypoint.main).
THEOREM HealthTold == Spec => []HealthyMeansReady
<1>1. IInv => HealthyMeansReady
    <2> SUFFICES ASSUME IInv, Healthy PROVE interface = state.gate /\ owner = state.pid
        BY DEF HealthyMeansReady
    <2>1. state.gate.dev \in Devices /\ links[state.gate.dev] # None /\ rules = state.gate.dev
        BY DEF IInv, TypeOK, Gates, Healthy, Identity
    <2>2. boot = "up" /\ state # None
        BY <2>1 DEF IInv, DownInv, Healthy
    <2>3. QED
        BY <2>1, <2>2 DEF IInv, RecordInv
<1>2. QED
    BY <1>1, Inductive, PTL

\* What passes goes through a device of the owner's, however the children start,
\* stop, reuse names and write late lines (vpn_runtime.event, publish, bind_socket).
THEOREM OwnersTraffic == Spec => []TrafficIsTheOwners
<1>1. IInv => TrafficIsTheOwners
    <2> SUFFICES ASSUME IInv, NEW s \in Sessions, Passes(s)
                 PROVE  /\ owner # None
                        /\ log[owner] # <<>> \/ links[bound[s].dev].by = owner
        BY DEF TrafficIsTheOwners
    <2>1. bound[s] = interface /\ interface # None
        BY DEF IInv, SockInv, Passes
    <2>2. owner # None /\ IsOwners(interface.dev, interface.idx)
        BY <2>1 DEF IInv, OwnInv
    <2>3. log[owner] = <<>> => Quiet(owner)
        BY DEF Quiet
    <2>4. QED
        BY <2>1, <2>2, <2>3 DEF IsOwners, Passes, Identity
<1>2. QED
    BY <1>1, Inductive, PTL

-------------------------------------------------------------------------------
(* The gate keeps its promise to the manager and the proxies (ServingGate).    *)

Running == {c \in Children : child[c] = "running"}

\* Who owns the gate has been started.
StartedInv == owner # None => child[owner] # "new"

\* How the steps look to who sees only running children, owner and gate.
Seen == [Gate!Next]_(Gate!vars)

LEMMA Unseen ==
    ASSUME UNCHANGED <<child, owner>>, GateOpen' <=> GateOpen
    PROVE  Seen
BY DEF Seen, Gate!vars, GateOpen

LEMMA Shutting ==
    ASSUME TypeOK, owner' \in {owner, None}, ~GateOpen', NEW ended \in SUBSET Children,
           Running' = Running \ ended
    PROVE  Seen
<1>1. Gate!Shut(ended)
    BY DEF Gate!Shut, Running
<1>2. QED
    BY <1>1 DEF Seen, Gate!Next

LEMMA Narrowing ==
    ASSUME TypeOK, owner' = owner, GateOpen' => GateOpen, NEW ended \in SUBSET Children,
           Running' = Running \ ended
    PROVE  Seen
<1>1. CASE ~GateOpen'
    BY <1>1, Shutting
<1>2. CASE GateOpen'
    <2>1. owner \in Children => owner \notin ended
        BY <1>2 DEF GateOpen, Usable, Alive, Running
    <2>2. Gate!End(ended)
        BY <1>2, <2>1 DEF Gate!End, Running, GateOpen, Usable, Alive, TypeOK
    <2>3. QED
        BY <2>2 DEF Seen, Gate!Next
<1>3. QED
    BY <1>1, <1>2

LEMMA Closing ==
    ASSUME TypeOK, UNCHANGED <<child, owner>>, GateOpen' => GateOpen
    PROVE  Seen
<1>1. CASE GateOpen' <=> GateOpen
    BY <1>1, Unseen
<1>2. CASE ~GateOpen'
    <2>1. Gate!Shut({})
        BY <1>2 DEF Gate!Shut
    <2>2. QED
        BY <2>1 DEF Seen, Gate!Next
<1>3. QED
    BY <1>1, <1>2

\* What is used is not used through devices and routes that are gone.
LEMMA Losing ==
    ASSUME TypeOK, NEW c \in Children, UNCHANGED <<interface, owner, rules, guard>>,
           links' = LinksWithout(c), route' = RouteAfter(links'),
           \A o \in Children : child'[o] = "running" => child[o] = "running"
    PROVE  GateOpen' => GateOpen
<1> SUFFICES ASSUME GateOpen' PROVE GateOpen
    OBVIOUS
<1>1. interface # None /\ interface.dev \in Devices /\ Usable(interface)'
    BY DEF GateOpen, TypeOK, Gates
<1>2. links'[interface.dev] # None /\ links'[interface.dev] = links[interface.dev]
    BY <1>1 DEF LinksWithout, Usable, Identity
<1>3. route = route'
    BY <1>1, RuntimeAssumption DEF Usable, RouteAfter
<1>4. owner # None /\ owner \in Children /\ child[owner] = "running"
    BY <1>1 DEF Usable, Alive, TypeOK
<1>5. QED
    BY <1>1, <1>2, <1>3, <1>4 DEF GateOpen, Usable, Identity, Alive

LEMMA ChildSeen ==
    ASSUME TypeOK, IndexInv, StartedInv, NEW c \in Children, ChildStep(c)
    PROVE  Seen
<1>1. CASE Launch(c)
    <2>1. child' = [child EXCEPT ![c] = "running"] /\ owner' = owner /\ owner # c
        BY <1>1, RuntimeAssumption DEF Launch, gateVars, StartedInv
    <2>2. Running' = Running \cup {c}
        BY <2>1 DEF TypeOK, Running
    <2>3. GateOpen' <=> GateOpen
        BY <1>1, <2>1 DEF TypeOK, Launch, GateOpen, Usable, Alive, Identity, gateVars, kernelVars
    <2>4. Gate!Start(c)
        BY <2>1, <2>2, <2>3 DEF Gate!Start, Running
    <2>5. QED
        BY <2>4 DEF Seen, Gate!Next
<1>2. CASE CloseTun(c)
    <2>1. GateOpen' => GateOpen
        BY <1>2, Losing DEF CloseTun, gateVars
    <2>2. UNCHANGED <<child, owner>>
        BY <1>2 DEF CloseTun, gateVars
    <2>3. QED
        BY <2>1, <2>2, Closing
<1>3. CASE Exit(c)
    <2>1. child' = [child EXCEPT ![c] = "dead"] /\ owner' = owner
        BY <1>3 DEF Exit, gateVars
    <2>2. Running' = Running \ {c}
        BY <2>1 DEF TypeOK, Running
    <2>3. GateOpen' => GateOpen
        BY <1>3, <2>1, Losing DEF TypeOK, Exit, gateVars
    <2>4. QED
        BY <2>1, <2>2, <2>3, Narrowing
<1>4. ASSUME NEW d \in Devices, OpenTun(c, d)
      PROVE  Seen
    <2>1. /\ UNCHANGED <<child, interface, owner, route, rules, guard>> /\ links[d] = None
          /\ links' = [links EXCEPT ![d] = [idx |-> index + 1, by |-> c, ready |-> FALSE]]
        BY <1>4 DEF OpenTun, gateVars
    <2>2. interface # None => interface.dev \in Devices /\ interface.idx # index + 1
        BY DEF TypeOK, Gates, IndexInv
    <2>3. ASSUME interface # None PROVE Identity(interface)' <=> Identity(interface)
        <3>1. CASE interface.dev = d
            BY <2>1, <2>2, <2>3, <3>1 DEF TypeOK, Identity
        <3>2. CASE interface.dev # d
            BY <2>1, <2>2, <2>3, <3>2 DEF TypeOK, Identity
        <3>3. QED
            BY <3>1, <3>2
    <2>4. GateOpen' <=> GateOpen
        BY <2>1, <2>3 DEF GateOpen, Usable, Alive
    <2>5. QED
        BY <2>1, <2>4, Unseen
<1>5. ASSUME NEW d \in Devices, Complete(c, d)
      PROVE  Seen
    <2>1. /\ UNCHANGED <<child, interface, owner, route, rules, guard>> /\ links[d] # None
          /\ links' = [links EXCEPT ![d].ready = TRUE]
        BY <1>5 DEF Complete, gateVars
    <2>2. ASSUME interface # None PROVE Identity(interface)' <=> Identity(interface)
        BY <2>1, <2>2, RuntimeAssumption DEF TypeOK, Gates, Identity
    <2>3. GateOpen' <=> GateOpen
        BY <2>1, <2>2 DEF GateOpen, Usable, Alive
    <2>4. QED
        BY <2>1, <2>3, Unseen
<1>6. QED
    BY <1>1, <1>2, <1>3, <1>4, <1>5 DEF ChildStep

\* revoke, by whomever: the children and the owner stay.
LEMMA Revoked ==
    ASSUME TypeOK, interface' = None, UNCHANGED child, owner' \in {owner, None}
    PROVE  Seen
<1>1. Gate!Shut({})
    BY DEF Gate!Shut, GateOpen
<1>2. QED
    BY <1>1 DEF Seen, Gate!Next

LEMMA ReaderSeen ==
    ASSUME TypeOK, NEW c \in Children, ReaderStep(c)
    PROVE  Seen
<1>1. CASE LateLine(c)
    BY <1>1, Unseen DEF LateLine, gateVars, kernelVars, GateOpen, Usable, Alive, Identity
<1>2. CASE Nominate(c) \/ Activate(c)
    BY <1>2, RevokeType, Revoked DEF Nominate, Activate
<1>3. ASSUME NEW u \in BOOLEAN, NEW i \in BOOLEAN,
             EventRaises(c, u, i) \/ GiveUp(c, u, i) \/ (Eof(c, u, i) /\ IsOwner(c))
      PROVE  Seen
    BY <1>3, RevokeType, Revoked DEF EventRaises, GiveUp, Eof
<1>4. ASSUME NEW u \in BOOLEAN, NEW i \in BOOLEAN, Eof(c, u, i), ~IsOwner(c)
      PROVE  Seen
    BY <1>4, Unseen DEF Eof, GateOpen, Usable, Alive, Identity
<1>5. QED
    BY <1>1, <1>2, <1>3, <1>4 DEF ReaderStep

LEMMA ManagerSeen ==
    ASSUME TypeOK, ManagerStep
    PROVE  Seen
<1>1. ASSUME NEW c \in Children, Begin(c) PROVE Seen
    <2>1. interface' = None /\ owner' = c /\ child' = child
        BY <1>1, RevokeType DEF Begin
    <2>2. Gate!Serve(c)
        BY <2>1 DEF Gate!Serve, GateOpen
    <2>3. QED
        BY <2>2 DEF Seen, Gate!Next
<1>2. ASSUME NEW c \in Children, BeginFails(c) PROVE Seen
    <2>1. interface' = None /\ owner' = owner /\ child' = [child EXCEPT ![c] = "dead"]
        BY <1>2, RevokeType DEF BeginFails
    <2>2. Running' = Running \ {c} /\ ~GateOpen'
        BY <2>1 DEF TypeOK, Running, GateOpen
    <2>3. QED
        BY <2>1, <2>2, Shutting
<1>3. ASSUME NEW u \in BOOLEAN, NEW i \in BOOLEAN, Cleanup(u, i) PROVE Seen
    BY <1>3, RevokeType, Revoked DEF Cleanup, childVars
<1>4. QED
    BY <1>1, <1>2, <1>3 DEF ManagerStep

\* Only publish opens: whatever else an activation does, the gate is closed.
LEMMA ActivationSeen ==
    ASSUME TypeOK, StepInv, ActivationStep
    PROVE  Seen
<1>1. CASE SetupRoute \/ OpenRules \/ ActivationRaises
    <2>1. interface = None /\ interface' = None /\ owner' = owner /\ child' = child
        BY <1>1 DEF StepInv, SetupRoute, OpenRules, ActivationRaises, StepIs, gateVars, childVars
    <2>2. QED
        BY <2>1, Unseen DEF GateOpen
<1>2. CASE Publish
    <2> DEFINE g == [dev |-> candidate, idx |-> step.idx]
    <2>1. /\ interface = None /\ interface' = g /\ Usable(g)
          /\ UNCHANGED <<owner, child, links, route, rules, guard>>
        BY <1>2 DEF StepInv, Publish, StepIs, childVars, kernelVars
    <2>2. owner \in Running
        BY <2>1 DEF TypeOK, Usable, Alive, Running
    <2> HIDE DEF g
    <2>3. CASE g = None
        BY <2>1, <2>3, Unseen DEF GateOpen
    <2>4. CASE g # None
        <3>1. GateOpen'
            BY <2>1, <2>4 DEF GateOpen, Usable, Alive, Identity
        <3>2. Gate!Open
            BY <2>1, <2>2, <3>1 DEF Gate!Open, Running
        <3>3. QED
            BY <3>2 DEF Seen, Gate!Next
    <2>5. QED
        BY <2>3, <2>4
<1>3. ASSUME NEW u \in BOOLEAN, NEW i \in BOOLEAN, PublishRaises(u, i) PROVE Seen
    BY <1>3, RevokeType, Revoked DEF PublishRaises
<1>4. QED
    BY <1>1, <1>2, <1>3 DEF ActivationStep

LEMMA GateStep ==
    ASSUME IInv, StartedInv, [Next]_vars
    PROVE  Seen
<1> USE DEF IInv
<1>1. CASE UNCHANGED vars
    BY <1>1, Unseen DEF vars, gateVars, childVars, kernelVars, GateOpen, Usable, Alive, Identity
<1>2. CASE InstallRules \/ ResetState
    <2>1. interface = None /\ interface' = None /\ UNCHANGED <<child, owner>>
        BY <1>2 DEF DownInv, InstallRules, ResetState, gateVars, childVars
    <2>2. QED
        BY <2>1, Unseen DEF GateOpen
<1>3. CASE Restart
    <2>1. /\ interface' = None /\ owner' = None
          /\ child' = [c \in Children |-> IF child[c] = "new" THEN "new" ELSE "dead"]
        BY <1>3 DEF Restart
    <2>2. Running' = Running \ Children /\ ~GateOpen'
        BY <2>1 DEF Running, GateOpen
    <2>3. QED
        BY <2>1, <2>2, Shutting
<1>4. CASE Tamper
    <2>1. UNCHANGED <<child, owner, interface, links>>
        BY <1>4 DEF Tamper, gateVars, childVars
    <2>2. GateOpen' => GateOpen
        BY <1>4, <2>1, RuntimeAssumption
           DEF TypeOK, Gates, Tamper, GateOpen, Usable, Alive, Identity
    <2>3. QED
        BY <2>1, <2>2, Closing
<1>5. CASE Refresh
    BY <1>5, Unseen DEF Refresh, childVars, kernelVars, GateOpen, Usable, Alive, Identity
<1>6. ASSUME NEW u \in BOOLEAN, NEW i \in BOOLEAN, MonitorRevokes(u, i) PROVE Seen
    BY <1>6, RevokeType, Revoked DEF MonitorRevokes, childVars
<1>7. ASSUME NEW s \in Sessions, SessionStep(s) PROVE Seen
    BY <1>7, Unseen DEF SessionStep, Accept, Open, Resolved, EndSession, gateVars, childVars,
                        kernelVars, GateOpen, Usable, Alive, Identity
<1>8. QED
    BY <1>1, <1>2, <1>3, <1>4, <1>5, <1>6, <1>7, ManagerSeen, ActivationSeen, ChildSeen,
       ReaderSeen DEF Next, Startup, Monitor

LEMMA StartedStep ==
    ASSUME TypeOK, StartedInv, [Next]_vars
    PROVE  StartedInv'
<1>1. \A c \in Children : child[c] # "new" => child'[c] # "new"
    BY KernelKinds DEF TypeOK, Restart, Launch, CloseTun, Exit, BeginFails, OpenTun, Complete
<1>2. owner' \in {owner, None} \/ \E c \in Children : Begin(c)
    BY DEF Next, vars, gateVars, Startup, InstallRules, ResetState, Restart, Tamper,
           ManagerStep, BeginFails, Cleanup, ActivationStep, SetupRoute, OpenRules,
           ActivationRaises, Publish, PublishRaises, Monitor, Refresh, MonitorRevokes,
           ChildStep, Launch, CloseTun, Exit, OpenTun, Complete, ReaderStep, LateLine,
           Nominate, Activate, EventRaises, GiveUp, Eof, SessionStep, Accept, Open,
           Resolved, EndSession
<1>3. \A c \in Children : Begin(c) => owner' = c /\ child[c] # "new"
    BY DEF Begin
<1>4. QED
    BY <1>1, <1>2, <1>3 DEF TypeOK, StartedInv

\* A gate that was shut, or whose owner, device, route or rules went, opens again only
\* when publish finds the owner ready: not by a name that is used again, an old ifindex,
\* a late line, a new owner or a restart (vpn_runtime; entrypoint.main).
THEOREM GateKept == Spec => GateSpec
<1>1. Init => StartedInv /\ Gate!Init
    BY DEF Init, StartedInv, Gate!Init, GateOpen
<1>2. IInv /\ StartedInv /\ [Next]_vars => StartedInv' /\ Seen
    BY StartedStep, GateStep DEF IInv
<1>3. QED
    BY <1>1, <1>2, Inductive, PTL DEF Spec, GateSpec, Gate!Spec, Seen

-------------------------------------------------------------------------------
(* Dead gates and cut sessions end.                                            *)

\* While the gate is open LOCK is free, and the monitor runs.
OpenIsFree == interface # None => Free /\ owner # None

\* Nothing revives the gate of a dead owner, renews its record or binds a socket to it:
\* what is left of it is to be closed.
DeadStaysDead ==
    interface # None /\ ~Alive(owner) =>
        \/ interface' = None
        \/ /\ UNCHANGED <<interface, owner, state>> /\ ~Alive(owner)'
           /\ \A s \in Sessions : bound'[s] \in {bound[s], None}

\* A session whose socket was revoked gets no other one, it only ends.
CutStaysCut ==
    \A s \in Sessions : phase[s] = "open" /\ bound[s] = None =>
        phase'[s] = "idle" \/ (phase'[s] = "open" /\ bound'[s] = None)

\* An activation, under LOCK all the time, goes from command to command to its end.
CommandsLeft == [route |-> 3, rules |-> 2, publish |-> 1]
ActivationGoesOn ==
    step # None => \/ step' \in {step, None}
                   \/ /\ step'.by = step.by /\ step'.idx = step.idx
                      /\ CommandsLeft[step'.at] < CommandsLeft[step.at]

\* Each of these goes on to its end.
EndsGoOn == [][DeadStaysDead /\ CutStaysCut /\ ActivationGoesOn]_vars

LEMMA DeadStep ==
    ASSUME IInv, StartedInv, [Next]_vars
    PROVE  DeadStaysDead
<1> SUFFICES ASSUME interface # None, ~Alive(owner), interface' # None
             PROVE  /\ UNCHANGED <<interface, owner, state>> /\ ~Alive(owner)'
                    /\ \A s \in Sessions : bound'[s] \in {bound[s], None}
    BY DEF DeadStaysDead
<1>1. Free /\ owner \in Children /\ child[owner] = "dead"
    BY DEF IInv, TypeOK, StepInv, DownInv, OwnInv, StartedInv, Free, Alive
<1>2. UNCHANGED <<interface, state>> /\ \A s \in Sessions : bound'[s] \in {bound[s], None}
    <2>1. ~Revokes /\ ~Restart
        BY RevokeType DEF IInv, Revokes, Restart
    <2>2. ~Publish /\ ~Refresh /\ ~ResetState /\ \A s \in Sessions : ~Open(s)
        BY <1>1 DEF Publish, StepIs, Refresh, ResetState, Open, BindSocket, Usable, Free, Alive
    <2>3. ASSUME NEW s \in Sessions, Resolved(s) \/ EndSession(s)
          PROVE  UNCHANGED <<interface, state>> /\ \A q \in Sessions : bound'[q] \in {bound[q], None}
        BY <2>3 DEF IInv, TypeOK, Resolved, EndSession
    <2>4. QED
        BY <2>1, <2>2, <2>3, StepKinds
<1>3. owner' = owner
    <2>1. ~ManagerStep
        BY <1>2, RevokeType DEF IInv, ManagerStep, Begin, BeginFails, Cleanup
    <2>2. QED
        BY <1>2, <2>1
           DEF Next, vars, gateVars, Startup, InstallRules, ResetState, Restart, Tamper,
               ActivationStep, SetupRoute, OpenRules, ActivationRaises, Publish,
               PublishRaises, Monitor, Refresh, MonitorRevokes, ChildStep, Launch, CloseTun,
               Exit, OpenTun, Complete, ReaderStep, LateLine, Nominate, Activate,
               EventRaises, GiveUp, Eof, SessionStep, Accept, Open, Resolved, EndSession
<1>4. child'[owner] = "dead"
    BY <1>1, <1>2, KernelKinds
       DEF IInv, TypeOK, Restart, Launch, CloseTun, Exit, BeginFails, OpenTun, Complete, Alive
<1>5. QED
    BY <1>2, <1>3, <1>4 DEF Alive

LEMMA CutStep ==
    ASSUME IInv, [Next]_vars
    PROVE  CutStaysCut
<1> SUFFICES ASSUME NEW s \in Sessions, phase[s] = "open", bound[s] = None
             PROVE  phase'[s] = "idle" \/ (phase'[s] = "open" /\ bound'[s] = None)
    BY DEF CutStaysCut
<1>1. phase'[s] \in {"idle", "open"}
    BY DEF IInv, TypeOK, Next, vars, sessionVars, Startup, InstallRules, ResetState, Restart,
           Tamper, ManagerStep, Begin, BeginFails, Cleanup, ActivationStep, SetupRoute,
           OpenRules, ActivationRaises, Publish, PublishRaises, Monitor, Refresh,
           MonitorRevokes, ChildStep, Launch, CloseTun, Exit, OpenTun, Complete, ReaderStep,
           LateLine, Nominate, Activate, EventRaises, GiveUp, Eof, SessionStep, Accept, Open,
           Resolved, EndSession
<1>2. bound'[s] = None
    <2>1. CASE Revokes
        BY <2>1, RevokeType DEF IInv, Revokes
    <2>2. CASE Restart \/ ResetState \/ Publish \/ Refresh
        BY <2>2 DEF Restart, ResetState, Publish, Refresh, sessionVars
    <2>3. ASSUME NEW q \in Sessions, Open(q) \/ Resolved(q) \/ EndSession(q)
          PROVE  bound'[s] = None
        BY <2>3 DEF IInv, TypeOK, Open, BindSocket, Resolved, EndSession
    <2>4. QED
        BY <2>1, <2>2, <2>3, StepKinds
<1>3. QED
    BY <1>1, <1>2

LEMMA ActivationAdvances ==
    ASSUME IInv, [Next]_vars
    PROVE  ActivationGoesOn
<1> SUFFICES ASSUME step # None, step' \notin {step, None}
             PROVE  /\ step'.by = step.by /\ step'.idx = step.idx
                    /\ CommandsLeft[step'.at] < CommandsLeft[step.at]
    BY DEF ActivationGoesOn
<1>1. SetupRoute \/ OpenRules
    BY DEF Next, vars, Startup, InstallRules, ResetState, Restart, Tamper, ManagerStep, Begin,
           BeginFails, Cleanup, ActivationStep, ActivationRaises, Publish, PublishRaises,
           Monitor, Refresh, MonitorRevokes, ChildStep, Launch, CloseTun, Exit, OpenTun,
           Complete, ReaderStep, LateLine, Nominate, Activate, EventRaises, GiveUp, Eof, Reads,
           Free, SessionStep, Accept, Open, Resolved, EndSession
<1>2. step \in [by : Children, at : {"route", "rules", "publish"}, idx : 1 .. MaxIndex]
    BY DEF IInv, TypeOK
<1>3. CASE SetupRoute
    <2>1. step.at = "route" /\ step' = [step EXCEPT !.at = "rules"]
        BY <1>3 DEF SetupRoute, StepIs
    <2>2. step'.by = step.by /\ step'.idx = step.idx /\ step'.at = "rules"
        BY <1>2, <2>1
    <2>3. QED
        BY <2>1, <2>2 DEF CommandsLeft
<1>4. CASE OpenRules
    <2>1. step.at = "rules" /\ step' = [step EXCEPT !.at = "publish"]
        BY <1>4 DEF OpenRules, StepIs
    <2>2. step'.by = step.by /\ step'.idx = step.idx /\ step'.at = "publish"
        BY <1>2, <2>1
    <2>3. QED
        BY <2>1, <2>2 DEF CommandsLeft
<1>5. QED
    BY <1>1, <1>3, <1>4

\* The gate of a dead owner only closes: until it is closed LOCK is free for the monitor,
\* no call renews the record or binds a socket to it; a client that was cut off only ends;
\* and an activation holds LOCK for three commands at most.  With the fairness of the
\* threads that is GateCloses (vpn_runtime.monitor, event; proxy_server.relay).
THEOREM DeadGateEnds == Spec => []OpenIsFree /\ EndsGoOn
<1>1. Init => StartedInv
    BY DEF Init, StartedInv
<1>2. IInv /\ StartedInv /\ [Next]_vars => StartedInv'
    BY StartedStep DEF IInv
<1>3. IInv /\ StartedInv /\ [Next]_vars => [DeadStaysDead /\ CutStaysCut /\ ActivationGoesOn]_vars
    BY DeadStep, CutStep, ActivationAdvances
<1>4. IInv => OpenIsFree
    BY DEF IInv, StepInv, DownInv, OwnInv, OpenIsFree, Free
<1>5. QED
    BY <1>1, <1>2, <1>3, <1>4, Inductive, PTL DEF Spec, EndsGoOn
===============================================================================
