---------------------------- MODULE VpnManagerProofs ----------------------------
(*****************************************************************************)
(* Proofs about VpnManager, for any servers, threads, children and attempts.   *)
(*****************************************************************************)
EXTENDS VpnManager, TLAPS

-------------------------------------------------------------------------------
(* One thread.                                                                 *)

ThreadRows ==
    [pc : Places, job : Jobs, node : Nodes \cup {None},
     child : Procs \cup {None}, list : NodeLists,
     ret : {"idle", "switch", "resume"},
     back : {"idle", "resume", "unlock"}, tries : 0 .. MaxTries]

Connect == {"configure", "save", "stop", "launch", "wait", "failed", "forget", "adopt",
            "require", "writeBack", "clear", "cleared", "finally", "done"}

\* What connect_node, auto_switch_node and the jobs rely on in their own variables.
Local(r) ==
    /\ r.child # None => r.pc \in {"wait", "adopt"}
    /\ r.ret = "switch" /\ r.pc \in Connect \cup {"claim"} => r.tries < MaxTries
    /\ r.pc \in {"idle", "checked", "offStop", "offClear"} => r.job = "request"
    /\ r.job = "request" =>
          /\ r.pc \notin {"maintain", "revive", "fallen", "resume", "fetch", "rejoin", "unlock",
                         "mfinally"}
          /\ r.ret # "resume" /\ r.back = "idle"
    /\ r.ret # "idle" => r.pc \in Connect \cup {"claim"}
    /\ r.back # "idle" => \/ r.pc \in {"switch", "switchStop", "switchClear"}
                          \/ r.pc \in Connect \cup {"claim"} /\ r.ret = "switch"
    /\ r.pc \in {"save", "stop", "launch", "wait", "failed", "forget", "adopt", "require",
                 "writeBack"} =>
          r.node \in r.list.listed

LocalInv == th \in [Threads -> ThreadRows] /\ \A t \in Threads : Local(th[t])

\* The next step leaves r as the record of t and the other threads as they are.
Leaves(t, r) ==
    /\ th' \in [Threads -> ThreadRows] /\ th'[t] = r
    /\ \A u \in Threads \ {t} : th'[u] = th[u]

\* The record r has the fields of s but where it is, or also but what was called.
SameButPc(r, s) ==
    /\ r.job = s.job /\ r.node = s.node /\ r.child = s.child /\ r.list = s.list
    /\ r.ret = s.ret /\ r.back = s.back /\ r.tries = s.tries

IsCall(r, s, n, ret) ==
    /\ r.pc = "claim" /\ r.node = n /\ r.ret = ret
    /\ r.job = s.job /\ r.child = s.child /\ r.list = s.list /\ r.back = s.back
    /\ r.tries = s.tries

\* Back in the code of a job, outside connect_node.
IsFresh(r, job, back, tries) ==
    /\ r.job = job /\ r.child = None /\ r.ret = "idle" /\ r.back = back /\ r.tries = tries

LEMMA IdleRow ==
    Idle \in ThreadRows /\ NoList \in NodeLists /\ Idle.pc = "idle"
    /\ IsFresh(Idle, "request", "idle", 0)
BY ManagerAssumption DEF ThreadRows, Idle, NoList, NodeLists, Places, Jobs, IsFresh

LEMMA MovedRow ==
    ASSUME NEW r \in ThreadRows, NEW pc \in Places
    PROVE  /\ [r EXCEPT !.pc = pc] \in ThreadRows
           /\ [r EXCEPT !.pc = pc].pc = pc /\ SameButPc([r EXCEPT !.pc = pc], r)
BY DEF ThreadRows, SameButPc

LEMMA GotoLeaves ==
    ASSUME LocalInv, NEW t \in Threads, NEW pc \in Places, Goto(t, pc)
    PROVE  \E r \in ThreadRows : Leaves(t, r) /\ r.pc = pc /\ SameButPc(r, th[t])
<1>1. th' = [th EXCEPT ![t] = [th[t] EXCEPT !.pc = pc]] /\ th[t] \in ThreadRows
    BY DEF Goto, LocalInv
<1>2. QED
    BY <1>1, MovedRow DEF Leaves, LocalInv

LEMMA CalledRow ==
    ASSUME NEW r \in ThreadRows, NEW n \in Nodes \cup {None},
           NEW ret \in {"idle", "switch", "resume"},
           NEW pc \in Places
    PROVE  [r EXCEPT !.pc = pc, !.node = n, !.ret = ret] \in ThreadRows
BY DEF ThreadRows

LEMMA CallLeaves ==
    ASSUME LocalInv, NEW t \in Threads, NEW n \in Nodes \cup {None},
           NEW ret \in {"idle", "switch", "resume"}, CallConnect(t, n, ret)
    PROVE  \E r \in ThreadRows : Leaves(t, r) /\ IsCall(r, th[t], n, ret)
<1> DEFINE r == [th[t] EXCEPT !.pc = "claim", !.node = n, !.ret = ret]
<1>1. th' = [th EXCEPT ![t] = r] /\ th[t] \in ThreadRows
    BY DEF CallConnect, LocalInv
<1>2. r \in ThreadRows
    BY <1>1, CalledRow DEF Places
<1>3. IsCall(r, th[t], n, ret)
    BY <1>1 DEF ThreadRows, IsCall
<1>4. QED
    BY <1>1, <1>2, <1>3 DEF Leaves, LocalInv

\* Where InJob puts a thread.
LEMMA InJobRow ==
    ASSUME LocalInv, NEW t \in Threads, NEW pc \in Places
    PROVE  /\ InJob(t, pc) \in ThreadRows /\ InJob(t, pc).pc = pc
           /\ IsFresh(InJob(t, pc), IF pc = "idle" THEN "request" ELSE th[t].job, "idle", 0)
<1>1. CASE pc = "idle"
    BY <1>1, IdleRow DEF InJob
<1>2. CASE pc # "idle"
    <2>1. th[t].job \in Jobs
        BY DEF LocalInv, ThreadRows
    <2>2. \A job \in Jobs : /\ [Idle EXCEPT !.pc = pc, !.job = job] \in ThreadRows
                            /\ [Idle EXCEPT !.pc = pc, !.job = job].pc = pc
                            /\ IsFresh([Idle EXCEPT !.pc = pc, !.job = job], job, "idle", 0)
        <3> HIDE DEF Idle
        <3>1. QED
            BY IdleRow DEF ThreadRows, IsFresh
    <2>3. QED
        BY <1>2, <2>1, <2>2 DEF InJob
<1>3. QED
    BY <1>1, <1>2

GoOn(t, pc) == th' = [th EXCEPT ![t] = InJob(t, pc)]

LEMMA JobLeaves ==
    ASSUME LocalInv, NEW t \in Threads, NEW pc \in Places, GoOn(t, pc)
    PROVE  \E r \in ThreadRows :
              /\ Leaves(t, r) /\ r.pc = pc
              /\ IsFresh(r, IF pc = "idle" THEN "request" ELSE th[t].job, "idle", 0)
BY InJobRow DEF Leaves, LocalInv, GoOn

LEMMA TriedRow ==
    ASSUME NEW s \in ThreadRows, NEW back \in {"idle", "resume", "unlock"},
           NEW tries \in 0 .. MaxTries, NEW job, IsFresh(s, job, "idle", 0)
    PROVE  LET r == [s EXCEPT !.back = back, !.tries = tries] IN
           /\ r \in ThreadRows /\ r.pc = s.pc /\ IsFresh(r, job, back, tries)
BY DEF ThreadRows, IsFresh

LEMMA SwitchRow ==
    ASSUME LocalInv, NEW t \in Threads, NEW back \in {"idle", "resume", "unlock"},
           NEW tries \in 0 .. MaxTries
    PROVE  LET r == [InJob(t, "switch") EXCEPT !.back = back, !.tries = tries] IN
           /\ r \in ThreadRows /\ r.pc = "switch" /\ IsFresh(r, th[t].job, back, tries)
<1>1. /\ InJob(t, "switch") \in ThreadRows /\ InJob(t, "switch").pc = "switch"
      /\ IsFresh(InJob(t, "switch"), th[t].job, "idle", 0)
    BY InJobRow DEF Places
<1>2. QED
    BY <1>1, TriedRow

LEMMA SwitchLeaves ==
    ASSUME LocalInv, NEW t \in Threads, NEW back \in {"idle", "resume", "unlock"},
           CallSwitch(t, back)
    PROVE  \E r \in ThreadRows :
              Leaves(t, r) /\ r.pc = "switch" /\ IsFresh(r, th[t].job, back, 0)
<1> DEFINE s == InJob(t, "switch")
           r == [s EXCEPT !.back = back]
<1>1. s \in ThreadRows /\ s.pc = "switch" /\ IsFresh(s, th[t].job, "idle", 0)
    BY InJobRow DEF Places
<1>2. th' = [th EXCEPT ![t] = r]
    BY DEF CallSwitch
<1> HIDE DEF s
<1>3. r \in ThreadRows /\ r.pc = "switch" /\ IsFresh(r, th[t].job, back, 0)
    BY <1>1 DEF ThreadRows, IsFresh
<1>4. QED
    BY <1>2, <1>3 DEF Leaves, LocalInv

\* connect_node's caller goes on: with the next attempt, or where it was.
LEMMA ReturnLeaves ==
    ASSUME LocalInv, NEW t \in Threads, NEW ok \in BOOLEAN, ReturnFromConnect(t, ok),
           th[t].ret = "switch" => th[t].tries < MaxTries
    PROVE  \E r \in ThreadRows :
              /\ Leaves(t, r)
              /\ \/ th[t].ret # "switch" /\ r.pc = th[t].ret
                    /\ IsFresh(r, IF r.pc = "idle" THEN "request" ELSE th[t].job, "idle", 0)
                 \/ th[t].ret = "switch" /\ r.pc = th[t].back
                    /\ IsFresh(r, IF r.pc = "idle" THEN "request" ELSE th[t].job, "idle", 0)
                 \/ th[t].ret = "switch" /\ r.pc = "switch"
                    /\ IsFresh(r, th[t].job, th[t].back, th[t].tries + 1)
<1>1. /\ th[t].ret \in {"idle", "switch", "resume"} /\ th[t].back \in {"idle", "resume", "unlock"}
      /\ th[t].tries \in 0 .. MaxTries
    BY DEF LocalInv, ThreadRows
<1>2. CASE th[t].ret # "switch"
    <2>1. GoOn(t, th[t].ret) /\ th[t].ret \in Places
        BY <1>1, <1>2 DEF ReturnFromConnect, Places, GoOn
    <2>2. PICK r \in ThreadRows :
              /\ Leaves(t, r) /\ r.pc = th[t].ret
              /\ IsFresh(r, IF th[t].ret = "idle" THEN "request" ELSE th[t].job, "idle", 0)
        BY <2>1, JobLeaves
    <2>3. QED
        BY <1>2, <2>2
<1>3. CASE th[t].ret = "switch" /\ ok
    <2>1. GoOn(t, th[t].back) /\ th[t].back \in Places
        BY <1>1, <1>3 DEF ReturnFromConnect, Places, GoOn
    <2>2. PICK r \in ThreadRows :
              /\ Leaves(t, r) /\ r.pc = th[t].back
              /\ IsFresh(r, IF th[t].back = "idle" THEN "request" ELSE th[t].job, "idle", 0)
        BY <2>1, JobLeaves
    <2>3. QED
        BY <1>3, <2>2
<1>4. CASE th[t].ret = "switch" /\ ~ok
    <2> DEFINE back == th[t].back
               n == th[t].tries + 1
               r == [InJob(t, "switch") EXCEPT !.back = back, !.tries = n]
    <2>1. th' = [th EXCEPT ![t] = r]
        BY <1>4 DEF ReturnFromConnect
    <2>2. n \in 0 .. MaxTries
        BY <1>1, <1>4, ManagerAssumption
    <2>3. r \in ThreadRows /\ r.pc = "switch" /\ IsFresh(r, th[t].job, back, n)
        <3> HIDE DEF n, back
        <3>1. back \in {"idle", "resume", "unlock"}
            BY <1>1 DEF back
        <3>2. QED
            BY <2>2, <3>1, SwitchRow
    <2>4. QED
        <3> HIDE DEF r
        <3>1. QED
            BY <1>4, <2>1, <2>3 DEF Leaves, LocalInv
<1>5. QED
    BY <1>2, <1>3, <1>4

\* A child started, stopped or adopted; a node list read or kept.
PutChild(t, pc, p) == th' = [th EXCEPT ![t].pc = pc, ![t].child = p]
PutList(t, pc, l)  == th' = [th EXCEPT ![t].pc = pc, ![t].list = l]

LEMMA ChildLeaves ==
    ASSUME LocalInv, NEW t \in Threads, NEW pc \in Places, NEW p \in Procs \cup {None},
           PutChild(t, pc, p)
    PROVE  \E r \in ThreadRows :
              /\ Leaves(t, r) /\ r.pc = pc /\ r.child = p
              /\ r.job = th[t].job /\ r.node = th[t].node /\ r.list = th[t].list
              /\ r.ret = th[t].ret /\ r.back = th[t].back /\ r.tries = th[t].tries
<1> DEFINE r == [th[t] EXCEPT !.pc = pc, !.child = p]
<1>1. th' = [th EXCEPT ![t] = r] /\ th[t] \in ThreadRows
    BY DEF LocalInv, PutChild
<1>2. /\ r \in ThreadRows /\ r.pc = pc /\ r.child = p
      /\ r.job = th[t].job /\ r.node = th[t].node /\ r.list = th[t].list
      /\ r.ret = th[t].ret /\ r.back = th[t].back /\ r.tries = th[t].tries
    BY <1>1 DEF ThreadRows
<1> HIDE DEF r
<1>3. QED
    BY <1>1, <1>2 DEF Leaves, LocalInv

LEMMA ListLeaves ==
    ASSUME LocalInv, NEW t \in Threads, NEW pc \in Places, NEW l \in NodeLists,
           PutList(t, pc, l)
    PROVE  \E r \in ThreadRows :
              /\ Leaves(t, r) /\ r.pc = pc /\ r.list = l
              /\ r.job = th[t].job /\ r.node = th[t].node /\ r.child = th[t].child
              /\ r.ret = th[t].ret /\ r.back = th[t].back /\ r.tries = th[t].tries
<1> DEFINE r == [th[t] EXCEPT !.pc = pc, !.list = l]
<1>1. th' = [th EXCEPT ![t] = r] /\ th[t] \in ThreadRows
    BY DEF LocalInv, PutList
<1>2. /\ r \in ThreadRows /\ r.pc = pc /\ r.list = l
      /\ r.job = th[t].job /\ r.node = th[t].node /\ r.child = th[t].child
      /\ r.ret = th[t].ret /\ r.back = th[t].back /\ r.tries = th[t].tries
    BY <1>1 DEF ThreadRows
<1> HIDE DEF r
<1>3. QED
    BY <1>1, <1>2 DEF Leaves, LocalInv

\* A job taken up; maintenance left.
PutJob(t, pc, job) == th' = [th EXCEPT ![t].pc = pc, ![t].job = job]
PutAfter(t)        == th' = [th EXCEPT ![t] = AfterMaintain(t)]

LEMMA TaskLeaves ==
    ASSUME LocalInv, NEW t \in Threads, NEW pc \in Places, NEW job \in Jobs, PutJob(t, pc, job)
    PROVE  \E r \in ThreadRows :
              /\ Leaves(t, r) /\ r.pc = pc /\ r.job = job
              /\ r.node = th[t].node /\ r.child = th[t].child /\ r.list = th[t].list
              /\ r.ret = th[t].ret /\ r.back = th[t].back /\ r.tries = th[t].tries
<1> DEFINE r == [th[t] EXCEPT !.pc = pc, !.job = job]
<1>1. th' = [th EXCEPT ![t] = r] /\ th[t] \in ThreadRows
    BY DEF LocalInv, PutJob
<1>2. /\ r \in ThreadRows /\ r.pc = pc /\ r.job = job
      /\ r.node = th[t].node /\ r.child = th[t].child /\ r.list = th[t].list
      /\ r.ret = th[t].ret /\ r.back = th[t].back /\ r.tries = th[t].tries
    BY <1>1 DEF ThreadRows
<1> HIDE DEF r
<1>3. QED
    BY <1>1, <1>2 DEF Leaves, LocalInv

LEMMA AfterLeaves ==
    ASSUME LocalInv, NEW t \in Threads, PutAfter(t)
    PROVE  \E r \in ThreadRows :
              /\ Leaves(t, r) /\ r.pc \in {"idle", "switch"}
              /\ IsFresh(r, "request", "idle", 0)
<1>1. CASE th[t].job = "background"
    <2> DEFINE r == [Idle EXCEPT !.pc = "switch"]
    <2>1. \A pc \in Places : /\ [Idle EXCEPT !.pc = pc] \in ThreadRows
                             /\ [Idle EXCEPT !.pc = pc].pc = pc
                             /\ IsFresh([Idle EXCEPT !.pc = pc], "request", "idle", 0)
        <3> HIDE DEF Idle
        <3>1. QED
            BY IdleRow DEF ThreadRows, IsFresh
    <2>2. r \in ThreadRows /\ r.pc = "switch" /\ IsFresh(r, "request", "idle", 0)
        BY <2>1 DEF Places
    <2>3. th' = [th EXCEPT ![t] = r]
        BY <1>1 DEF PutAfter, AfterMaintain
    <2> HIDE DEF r
    <2>4. QED
        BY <2>2, <2>3 DEF Leaves, LocalInv
<1>2. CASE th[t].job # "background"
    BY <1>2, IdleRow DEF PutAfter, AfterMaintain, Leaves, LocalInv
<1>3. QED
    BY <1>1, <1>2

-------------------------------------------------------------------------------
(* What a step of a thread does to its own record.                             *)

\* connect_node has no tunnel: between stop_active_openvpn and its success.
Bare == {"launch", "wait", "failed", "forget", "adopt"}

\* It has one that is not in nodes.json yet, or that it is about to clear.
Unlisted == {"require", "writeBack", "clear"}

\* The thread holds `lock` over the switch it makes.
InLock(r) == r.back = "unlock" \/ r.pc = "unlock"

Follows(t, r) ==
    /\ Local(r)
    /\ r.pc \in Connect => th[t].pc \in Connect \/ Claim(t)
    /\ th[t].pc \in Connect => r.pc \in Connect \/ Finally(t)
    /\ r.pc \in Bare => th[t].pc \in Bare \/ (At(t, "stop") /\ StopActive)
    /\ r.pc \in {"require", "writeBack"} =>
          \/ th[t].pc \in {"require", "writeBack"} /\ r.node = th[t].node
          \/ Adopt(t)
    /\ th[t].pc \in Unlisted => r.pc \in Unlisted \/ WriteBack(t) \/ ClearProcess(t)
    /\ InMaintenance(r) => InMaintenance(th[t]) \/ MaintainStarts(t)
    /\ InMaintenance(th[t]) => InMaintenance(r) \/ MaintainEnds(t)
    /\ InLock(th[t]) => InLock(r) \/ locked' # t
    /\ th[t].pc # "idle" => StepsLeft(r) < StepsLeft(th[t])
    /\ th[t].pc = "maintain" => maint # None \/ MaintainStarts(t)

Moves(t) == \E r \in ThreadRows : Leaves(t, r) /\ Follows(t, r)

LEMMA ReturnMoves ==
    ASSUME LocalInv, NEW t \in Threads, NEW ok \in BOOLEAN, ReturnFromConnect(t, ok),
           At(t, "claim") \/ Finally(t)
    PROVE  Moves(t)
<1> USE ManagerAssumption
    DEF Follows, IsFresh, LocalInv, Local, At, Connect, Bare, Unlisted, InMaintenance, InLock,
            StepsLeft, CallLeft, SwitchLeft, ConnectLeft, Round, ThreadRows
<1>1. th[t].pc \in {"claim", "finally", "done"} /\ th[t].child = None
    BY DEF Finally
<1>2. th[t].ret = "switch" => th[t].tries < MaxTries
    BY <1>1
<1>3. /\ th[t].ret \in {"idle", "switch", "resume"} /\ th[t].back \in {"idle", "resume", "unlock"}
    BY DEF ThreadRows
<1>4. PICK r \in ThreadRows :
         /\ Leaves(t, r)
         /\ \/ th[t].ret # "switch" /\ r.pc = th[t].ret
               /\ IsFresh(r, IF r.pc = "idle" THEN "request" ELSE th[t].job, "idle", 0)
            \/ th[t].ret = "switch" /\ r.pc = th[t].back
               /\ IsFresh(r, IF r.pc = "idle" THEN "request" ELSE th[t].job, "idle", 0)
            \/ th[t].ret = "switch" /\ r.pc = "switch"
               /\ IsFresh(r, th[t].job, th[t].back, th[t].tries + 1)
    BY <1>2, ReturnLeaves
<1>5. Local(r) /\ r.child = None
    BY <1>3, <1>4
<1>6. InMaintenance(r) => InMaintenance(th[t])
    BY <1>3, <1>4
<1>7. InMaintenance(th[t]) => InMaintenance(r)
    BY <1>1, <1>3, <1>4
<1>8. InLock(th[t]) => InLock(r)
    BY <1>1, <1>3, <1>4
<1>9. StepsLeft(r) < StepsLeft(th[t])
    <2>1. /\ th[t].tries \in Nat /\ r.tries \in Nat
          /\ th[t].ret = "switch" => th[t].tries + 1 <= MaxTries
        BY <1>2
    <2>2. CASE th[t].ret # "switch"
        BY <1>1, <1>3, <1>4, <2>1, <2>2
    <2>3. CASE th[t].ret = "switch" /\ r.pc = th[t].back
        BY <1>1, <1>3, <2>1, <2>3
    <2>4. CASE th[t].ret = "switch" /\ r.pc = "switch"
        BY <1>1, <1>3, <1>4, <2>1, <2>4
    <2>5. QED
        BY <1>4, <2>2, <2>3, <2>4
<1>10. th[t].pc # "maintain" /\ (r.pc \in Connect \cup Bare \cup Unlisted => FALSE)
    BY <1>1, <1>3, <1>4
<1>11. QED
    BY <1>1, <1>4, <1>5, <1>6, <1>7, <1>8, <1>9, <1>10 DEF Moves

LEMMA ConnectMoves ==
    ASSUME TypeOK, LocalInv, NEW t \in Threads, ConnectStep(t)
    PROVE  Moves(t)
<1> USE ManagerAssumption DEF Moves, Follows, SameButPc, IsFresh, LocalInv, Local, At, Places,
            Connect, Bare, Unlisted, InMaintenance, InLock,
            StepsLeft, CallLeft, SwitchLeft, ConnectLeft, Round, ThreadRows
<1>1. CASE Claim(t)
    BY <1>1, GotoLeaves DEF Claim
<1>2. CASE Refused(t)
    BY <1>2, ReturnMoves DEF Refused
<1>3. CASE Configure(t)
    <2>1. CASE th[t].node \in nodes.listed
        <3> DEFINE l == [nodes EXCEPT !.active = {}]
        <3>1. l \in NodeLists /\ l.listed = nodes.listed
            BY DEF TypeOK, NodeLists
        <3>2. PutList(t, "save", l)
            BY <1>3, <2>1 DEF Configure, PutList
        <3> HIDE DEF l
        <3>3. QED
            <4>1. PICK r \in ThreadRows :
                      /\ Leaves(t, r) /\ r.pc = "save" /\ r.list = l
                      /\ r.job = th[t].job /\ r.node = th[t].node /\ r.child = th[t].child
                      /\ r.ret = th[t].ret /\ r.back = th[t].back /\ r.tries = th[t].tries
                BY <3>1, <3>2, ListLeaves
            <4>2. th[t].pc = "configure"
                BY <1>3 DEF Configure
            <4>3. QED
                BY <2>1, <3>1, <4>1, <4>2
    <2>2. CASE th[t].node \notin nodes.listed
        <3>1. Goto(t, Handler(t)) /\ Handler(t) \in {"finally", "clear"} /\ th[t].pc = "configure"
            BY <1>3, <2>2 DEF Configure, Handler
        <3>2. PICK r \in ThreadRows : Leaves(t, r) /\ r.pc \in {"finally", "clear"} /\ SameButPc(r, th[t])
            BY <3>1, GotoLeaves
        <3>3. QED
            BY <3>1, <3>2
    <2>3. QED
        BY <2>1, <2>2
<1>4. CASE SaveConfig(t)
    BY <1>4, GotoLeaves DEF SaveConfig
<1>5. CASE StopOld(t)
    <2>1. CASE StopActive /\ Goto(t, "launch")
        BY <1>5, <2>1, GotoLeaves DEF StopOld
    <2>2. CASE Goto(t, Handler(t))
        <3>1. Handler(t) \in {"finally", "clear"}
            BY DEF Handler
        <3>2. PICK r \in ThreadRows : Leaves(t, r) /\ r.pc \in {"finally", "clear"} /\ SameButPc(r, th[t])
            BY <2>2, <3>1, GotoLeaves
        <3>3. QED
            BY <1>5, <3>2 DEF StopOld
    <2>3. QED
        BY <1>5, <2>1, <2>2 DEF StopOld
<1>6. CASE Launch(t)
    <2>1. PICK p \in Procs : PutChild(t, "wait", p)
        BY <1>6 DEF Launch, Fresh, PutChild
    <2>2. PICK r \in ThreadRows :
              /\ Leaves(t, r) /\ r.pc = "wait" /\ r.child = p
              /\ r.job = th[t].job /\ r.node = th[t].node /\ r.list = th[t].list
              /\ r.ret = th[t].ret /\ r.back = th[t].back /\ r.tries = th[t].tries
        BY <2>1, ChildLeaves
    <2>3. th[t].pc = "launch"
        BY <1>6 DEF Launch
    <2>4. QED
        BY <1>6, <2>2, <2>3
<1>7. CASE LaunchFails(t)
    BY <1>7, GotoLeaves DEF LaunchFails
<1>8. CASE Ready(t)
    BY <1>8, GotoLeaves DEF Ready
<1>9. CASE NotReady(t)
    <2>1. PICK r \in ThreadRows :
              /\ Leaves(t, r) /\ r.pc = "failed" /\ r.child = None
              /\ r.job = th[t].job /\ r.node = th[t].node /\ r.list = th[t].list
              /\ r.ret = th[t].ret /\ r.back = th[t].back /\ r.tries = th[t].tries
        <3>1. PutChild(t, "failed", None)
            BY <1>9 DEF NotReady, PutChild
        <3>2. QED
            BY <3>1, ChildLeaves
    <2>2. th[t].pc = "wait"
        BY <1>9 DEF NotReady
    <2>3. QED
        BY <1>9, <2>1, <2>2
<1>10. CASE WriteFailed(t)
    BY <1>10, GotoLeaves DEF WriteFailed
<1>11. CASE Forget(t)
    BY <1>11, GotoLeaves DEF Forget
<1>12. CASE Adopt(t)
    <2>1. PICK r \in ThreadRows :
              /\ Leaves(t, r) /\ r.pc = "require" /\ r.child = None
              /\ r.job = th[t].job /\ r.node = th[t].node /\ r.list = th[t].list
              /\ r.ret = th[t].ret /\ r.back = th[t].back /\ r.tries = th[t].tries
        <3>1. PutChild(t, "require", None)
            BY <1>12 DEF Adopt, PutChild
        <3>2. QED
            BY <3>1, ChildLeaves
    <2>2. th[t].pc = "adopt"
        BY <1>12 DEF Adopt
    <2>3. QED
        BY <1>12, <2>1, <2>2
<1>13. CASE Require(t)
    BY <1>13, GotoLeaves DEF Require
<1>14. CASE WriteBack(t)
    BY <1>14, GotoLeaves DEF WriteBack
<1>15. CASE ClearProcess(t)
    BY <1>15, GotoLeaves DEF ClearProcess
<1>16. CASE ClearMarks(t)
    BY <1>16, GotoLeaves DEF ClearMarks
<1>17. CASE Finally(t)
    BY <1>17, ReturnMoves DEF Finally
<1>18. CASE ClaimBreaks(t)
    BY <1>18, ReturnMoves DEF ClaimBreaks
<1>19. CASE ConnectBreaks(t)
    <2> DEFINE pc == IF th[t].pc = "cleared" THEN "finally" ELSE Handler(t)
    <2>1. PutChild(t, pc, None) /\ pc \in {"finally", "clear"}
        <3>1. th[t] \in ThreadRows
            OBVIOUS
        <3>2. QED
            BY <1>19, <3>1 DEF ConnectBreaks, PutChild, Handler
    <2>2. th[t].pc \in {"save", "stop", "launch", "wait", "failed", "forget", "require",
                        "writeBack", "cleared", "done"}
        BY <1>19 DEF ConnectBreaks
    <2>3. th[t].pc = "cleared" => pc = "finally"
        OBVIOUS
    <2>4. th[t].pc \in {"require", "writeBack"} => pc = "clear"
        BY DEF Handler
    <2> HIDE DEF pc
    <2>5. PICK r \in ThreadRows :
              /\ Leaves(t, r) /\ r.pc = pc /\ r.child = None
              /\ r.job = th[t].job /\ r.node = th[t].node /\ r.list = th[t].list
              /\ r.ret = th[t].ret /\ r.back = th[t].back /\ r.tries = th[t].tries
        BY <2>1, ChildLeaves
    <2>6. StepsLeft(r) < StepsLeft(th[t])
        BY <2>1, <2>2, <2>3, <2>5
    <2>7. Local(r) /\ r.pc \in Connect /\ th[t].pc \in Connect
        BY <2>1, <2>2, <2>5
    <2>8. /\ InMaintenance(r) <=> InMaintenance(th[t])
          /\ InLock(r) <=> InLock(th[t])
        BY <2>1, <2>2, <2>5
    <2>9. Follows(t, r)
        BY <2>1, <2>2, <2>4, <2>5, <2>6, <2>7, <2>8
    <2>10. QED
        BY <2>5, <2>9
<1>20. QED
    BY <1>1, <1>2, <1>3, <1>4, <1>5, <1>6, <1>7, <1>8, <1>9,
       <1>10, <1>11, <1>12, <1>13, <1>14, <1>15, <1>16, <1>17, <1>18, <1>19
       DEF ConnectStep

\* An exception outside connect_node: to the finally of maintenance, or to the end.
LEMMA AbandonMoves ==
    ASSUME LocalInv, NEW t \in Threads, Abandon(t),
           \/ th[t].pc \in {"switchStop", "switchClear", "test", "checked", "offStop", "offClear"}
           \/ th[t].pc \in {"revive", "fallen"}
    PROVE  Moves(t)
<1> USE ManagerAssumption DEF Moves, Follows, IsFresh, LocalInv, Local, At, Places,
            Connect, Bare, Unlisted, InMaintenance, InLock,
            StepsLeft, CallLeft, SwitchLeft, ConnectLeft, Round, ThreadRows
<1>1. locked' # t
    BY DEF Abandon
<1>2. CASE InMaintenance(th[t])
    <2>1. GoOn(t, "mfinally")
        BY <1>2 DEF Abandon, GoOn
    <2>2. PICK r \in ThreadRows : /\ Leaves(t, r) /\ r.pc = "mfinally"
                                  /\ IsFresh(r, th[t].job, "idle", 0)
        BY <2>1, JobLeaves
    <2>3. th[t].job # "request" /\ th[t].pc \notin {"checked", "offStop", "offClear"}
        BY <1>2
    <2>4. StepsLeft(r) < StepsLeft(th[t])
        BY <1>2, <2>2, <2>3
    <2>5. Local(r) /\ InMaintenance(r)
        BY <2>2, <2>3
    <2>6. Follows(t, r)
        BY <1>1, <1>2, <2>2, <2>3, <2>4, <2>5
    <2>7. QED
        BY <2>2, <2>6
<1>3. CASE ~InMaintenance(th[t])
    <2>1. Leaves(t, Idle)
        BY <1>3, IdleRow DEF Abandon, Leaves
    <2>2. Local(Idle) /\ ~InMaintenance(Idle) /\ StepsLeft(Idle) = 0
        BY IdleRow
    <2>3. StepsLeft(th[t]) > 0
        BY <1>3
    <2>4. Follows(t, Idle)
        BY <1>1, <1>3, <2>2, <2>3, IdleRow
    <2>5. QED
        BY <2>1, <2>4, IdleRow
<1>4. QED
    BY <1>2, <1>3

LEMMA SwitchMoves ==
    ASSUME TypeOK, LocalInv, NEW t \in Threads, SwitchStep(t), ~SwitchClears(t)
    PROVE  Moves(t)
<1> USE ManagerAssumption DEF Moves, Follows, SameButPc, IsFresh, LocalInv, Local, At, Places,
            Connect, Bare, Unlisted, InMaintenance, InLock,
            StepsLeft, CallLeft, SwitchLeft, ConnectLeft, Round, ThreadRows
<1>1. CASE SwitchEnds(t)
    <2>1. GoOn(t, th[t].back) /\ th[t].pc = "switch"
        BY <1>1 DEF SwitchEnds, GoOn
    <2>2. th[t].back \in {"idle", "resume", "unlock"} /\ th[t].back \in Places
        BY DEF ThreadRows
    <2>3. PICK r \in ThreadRows :
              /\ Leaves(t, r) /\ r.pc = th[t].back
              /\ IsFresh(r, IF th[t].back = "idle" THEN "request" ELSE th[t].job, "idle", 0)
        BY <2>1, <2>2, JobLeaves
    <2>4. QED
        BY <2>1, <2>2, <2>3
<1>2. CASE NoCandidate(t)
    BY <1>2, GotoLeaves DEF NoCandidate, MaySwitch
<1>3. CASE SwitchStops(t)
    BY <1>3, GotoLeaves DEF SwitchStops
<1>4. CASE \E n \in Nodes : SwitchTo(t, n)
    BY <1>4, CallLeaves DEF SwitchTo, MaySwitch, IsCall
<1>5. CASE JobBreaks(t)
    BY <1>5, AbandonMoves DEF JobBreaks
<1>6. CASE JobStopRaises(t)
    BY <1>6, AbandonMoves DEF JobStopRaises
<1>7. QED
    BY <1>1, <1>2, <1>3, <1>4, <1>5, <1>6 DEF SwitchStep

LEMMA MaintainMoves ==
    ASSUME TypeOK, LocalInv, NEW t \in Threads, MaintainStep(t)
    PROVE  Moves(t)
<1> USE ManagerAssumption DEF Moves, Follows, SameButPc, IsFresh, LocalInv, Local, At, Places,
            Connect, Bare, Unlisted, InMaintenance, InLock,
            StepsLeft, CallLeft, SwitchLeft, ConnectLeft, Round, ThreadRows
<1>1. CASE MaintainBusy(t)
    <2>1. PICK r \in ThreadRows : /\ Leaves(t, r) /\ r.pc \in {"idle", "switch"}
                                  /\ IsFresh(r, "request", "idle", 0)
        <3>1. CASE PutAfter(t)
            BY <3>1, AfterLeaves
        <3>2. CASE th' = [th EXCEPT ![t] = Idle]
            BY <3>2, IdleRow DEF Leaves
        <3>3. QED
            BY <1>1, <3>1, <3>2 DEF MaintainBusy, PutAfter
    <2>2. th[t].pc = "maintain" /\ maint # None
        BY <1>1 DEF MaintainBusy
    <2>3. StepsLeft(r) < StepsLeft(th[t])
        BY <2>1, <2>2
    <2>4. QED
        BY <2>1, <2>2, <2>3
<1>2. CASE MaintainStarts(t)
    BY <1>2, GotoLeaves DEF MaintainStarts
<1>3. CASE ForceStops(t)
    BY <1>3, GotoLeaves DEF ForceStops
<1>4. CASE Fallen(t)
    BY <1>4, GotoLeaves DEF Fallen
<1>5. CASE ReviveFixed(t)
    <2>1. PICK n \in nodes.listed : CallConnect(t, n, "resume") /\ th[t].pc = "fallen"
        BY <1>5 DEF ReviveFixed
    <2>2. n \in Nodes \cup {None}
        BY DEF TypeOK, NodeLists
    <2>3. PICK r \in ThreadRows : Leaves(t, r) /\ IsCall(r, th[t], n, "resume")
        BY <2>1, <2>2, CallLeaves
    <2>4. Local(r) /\ InMaintenance(r)
        <3>1. /\ th[t].child = None /\ th[t].ret = "idle" /\ th[t].back = "idle"
              /\ th[t].job # "request"
            BY <2>1
        <3>2. QED
            BY <2>3, <3>1 DEF IsCall
    <2>5. StepsLeft(r) < StepsLeft(th[t])
        BY <2>1, <2>3 DEF IsCall
    <2>6. QED
        BY <2>1, <2>3, <2>4, <2>5 DEF IsCall
<1>6. CASE ReviveSwitch(t)
    <2>1. CallSwitch(t, "resume") /\ th[t].pc = "fallen"
        BY <1>6 DEF ReviveSwitch
    <2>2. PICK r \in ThreadRows : /\ Leaves(t, r) /\ r.pc = "switch"
                                  /\ IsFresh(r, th[t].job, "resume", 0)
        BY <2>1, SwitchLeaves
    <2>3. StepsLeft(r) < StepsLeft(th[t])
        BY <2>1, <2>2
    <2>4. QED
        BY <2>1, <2>2, <2>3
<1>7. CASE NothingToRevive(t)
    BY <1>7, GotoLeaves DEF NothingToRevive
<1>8. CASE Resume(t)
    BY <1>8, GotoLeaves DEF Resume
<1>9. CASE FetchFails(t)
    BY <1>9, GotoLeaves DEF FetchFails
<1>10. CASE \E ns \in SUBSET Nodes : Merge(t, ns)
    <2> DEFINE l == [NoList EXCEPT !.listed = nodes'.listed \ nodes'.active]
    <2>1. l \in NodeLists /\ PutList(t, "test", l)
        BY <1>10 DEF Merge, Merged, PutList, NoList, NodeLists, TypeOK
    <2>2. th[t].pc = "fetch"
        BY <1>10 DEF Merge, Merged
    <2> HIDE DEF l
    <2>3. PICK r \in ThreadRows :
              /\ Leaves(t, r) /\ r.pc = "test"
              /\ r.job = th[t].job /\ r.node = th[t].node /\ r.child = th[t].child
              /\ r.ret = th[t].ret /\ r.back = th[t].back /\ r.tries = th[t].tries
        BY <2>1, ListLeaves
    <2>4. QED
        BY <2>2, <2>3
<1>11. CASE \E ns \in SUBSET Nodes : TestAll(t, ns)
    <2> DEFINE l == NoList
    <2>1. l \in NodeLists /\ PutList(t, "rejoin", l)
        BY <1>11 DEF TestAll, Tested, PutList, NoList, NodeLists, TypeOK
    <2>2. th[t].pc = "test" /\ th[t].job # "request"
        BY <1>11 DEF TestAll, Tested
    <2> HIDE DEF l
    <2>3. QED
        BY <1>11, <2>1, <2>2, ListLeaves
<1>12. CASE \E ns \in SUBSET Nodes : TestRequested(t, ns)
    BY <1>12, IdleRow DEF TestRequested, Tested, Leaves
<1>13. CASE Rejoin(t)
    <2>1. th[t].pc = "rejoin" /\ (Goto(t, "mfinally") \/ CallSwitch(t, "unlock"))
        BY <1>13 DEF Rejoin
    <2>2. CASE Goto(t, "mfinally")
        BY <2>1, <2>2, GotoLeaves
    <2>3. CASE CallSwitch(t, "unlock")
        <3>1. PICK r \in ThreadRows : /\ Leaves(t, r) /\ r.pc = "switch"
                                      /\ IsFresh(r, th[t].job, "unlock", 0)
            BY <2>3, SwitchLeaves
        <3>2. StepsLeft(r) < StepsLeft(th[t])
            BY <2>1, <3>1
        <3>3. QED
            BY <2>1, <3>1, <3>2
    <2>4. QED
        BY <2>1, <2>2, <2>3
<1>14. CASE Unlock(t)
    <2>1. locked' # t
        BY <1>14 DEF Unlock
    <2>2. QED
        BY <1>14, <2>1, GotoLeaves DEF Unlock
<1>15. CASE MaintainEnds(t)
    <2>1. PICK r \in ThreadRows : /\ Leaves(t, r) /\ r.pc \in {"idle", "switch"}
                                  /\ IsFresh(r, "request", "idle", 0)
        BY <1>15, AfterLeaves DEF MaintainEnds, PutAfter
    <2>2. th[t].pc = "mfinally" /\ th[t].child = None
        BY <1>15 DEF MaintainEnds
    <2>3. StepsLeft(r) < StepsLeft(th[t])
        BY <2>1, <2>2
    <2>4. QED
        BY <1>15, <2>1, <2>2, <2>3
<1>16. QED
    BY <1>1, <1>2, <1>3, <1>4, <1>5, <1>6, <1>7, <1>8, <1>9,
       <1>10, <1>11, <1>12, <1>13, <1>14, <1>15
       DEF MaintainStep

LEMMA OtherMoves ==
    ASSUME TypeOK, LocalInv, NEW t \in Threads, CheckerStep(t) \/ OffStop(t) \/ OffClear(t)
    PROVE  Moves(t)
<1> USE ManagerAssumption DEF Moves, Follows, SameButPc, IsFresh, LocalInv, Local, At, Places,
            Connect, Bare, Unlisted, InMaintenance, InLock,
            StepsLeft, CallLeft, SwitchLeft, ConnectLeft, Round, ThreadRows
<1>1. CASE ProxyWorks(t)
    BY <1>1, GotoLeaves DEF ProxyWorks
<1>2. CASE ProxyFails(t)
    BY <1>2, SwitchLeaves DEF ProxyFails
<1>3. CASE FixedFails(t)
    BY <1>3, CallLeaves DEF FixedFails, IsCall, TypeOK
<1>4. CASE OffStop(t)
    BY <1>4, GotoLeaves DEF OffStop
<1>5. CASE OffClear(t)
    BY <1>5, GotoLeaves DEF OffClear
<1>6. QED
    BY <1>1, <1>2, <1>3, <1>4, <1>5 DEF CheckerStep

LEMMA StartMoves ==
    ASSUME TypeOK, LocalInv, NEW t \in Threads, Start(t)
    PROVE  Moves(t)
<1> USE ManagerAssumption DEF Moves, Follows, SameButPc, IsFresh, LocalInv, Local, At, Places,
            Connect, Bare, Unlisted, InMaintenance, InLock,
            StepsLeft, CallLeft, SwitchLeft, ConnectLeft, Round, ThreadRows
<1>1. CASE \E job \in Jobs : StartMaintain(t, job)
    <2>1. PICK job \in Jobs : PutJob(t, "maintain", job) /\ th[t].pc = "idle"
                                /\ job # "request"
        BY <1>1 DEF StartMaintain, PutJob
    <2>2. PICK r \in ThreadRows :
              /\ Leaves(t, r) /\ r.pc = "maintain" /\ r.job = job
              /\ r.node = th[t].node /\ r.child = th[t].child /\ r.list = th[t].list
              /\ r.ret = th[t].ret /\ r.back = th[t].back /\ r.tries = th[t].tries
        BY <2>1, TaskLeaves
    <2>3. QED
        BY <2>1, <2>2
<1>2. CASE Check(t)
    BY <1>2, GotoLeaves DEF Check
<1>3. CASE AskDisconnect(t)
    BY <1>3, GotoLeaves DEF AskDisconnect
<1>4. CASE \E n \in Nodes : AskConnect(t, n)
    BY <1>4, CallLeaves DEF AskConnect, IsCall
<1>5. CASE \E ns \in SUBSET Nodes : AskTest(t, ns)
    <2>1. PICK ns \in SUBSET Nodes :
              PutList(t, "test", [NoList EXCEPT !.listed = ns]) /\ th[t].pc = "idle"
        BY <1>5 DEF AskTest, PutList
    <2> DEFINE l == [NoList EXCEPT !.listed = ns]
    <2>2. l \in NodeLists /\ PutList(t, "test", l)
        BY <2>1 DEF NoList, NodeLists
    <2> HIDE DEF l
    <2>3. QED
        BY <2>1, <2>2, ListLeaves
<1>6. QED
    BY <1>1, <1>2, <1>3, <1>4, <1>5 DEF Start

\* Of all the threads: a step moves one, and may hand over to an idle one.
Wakes(r, s) ==
    /\ r.pc = "idle" /\ r.child = None
    /\ s.pc = "maintain" /\ s.child = None /\ Local(s) /\ ~InMaintenance(s)

Moved(t) ==
    /\ th' \in [Threads -> ThreadRows] /\ Follows(t, th'[t])
    /\ \A u \in Threads \ {t} : th'[u] = th[u] \/ Wakes(th[u], th'[u])

LEMMA BackgroundRow ==
    ASSUME NEW pc \in Places, NEW job \in Jobs
    PROVE  LET r == [Idle EXCEPT !.pc = pc, !.job = job] IN
           r \in ThreadRows /\ r.pc = pc /\ IsFresh(r, job, "idle", 0)
<1> HIDE DEF Idle
<1>1. QED
    BY IdleRow DEF ThreadRows, IsFresh

LEMMA HandoverMoves ==
    ASSUME TypeOK, LocalInv, NEW t \in Threads, SwitchClears(t)
    PROVE  Moved(t)
<1> DEFINE r == InJob(t, th[t].back)
           b == [th EXCEPT ![t] = r]
<1> USE ManagerAssumption
    DEF Follows, IsFresh, LocalInv, Local, At, Connect, Bare, Unlisted, InMaintenance, InLock,
            StepsLeft, CallLeft, SwitchLeft, ConnectLeft, Round
<1>1. th[t].pc = "switchClear" /\ th[t].child = None
    BY DEF SwitchClears
<1>2. th[t].back \in {"idle", "resume", "unlock"} /\ th[t].back \in Places
    BY DEF ThreadRows, Places
<1>3. /\ r \in ThreadRows /\ r.pc = th[t].back
      /\ IsFresh(r, IF th[t].back = "idle" THEN "request" ELSE th[t].job, "idle", 0)
    BY <1>2, InJobRow
<1>4. Follows(t, r)
    BY <1>1, <1>2, <1>3 DEF ThreadRows
<1> HIDE DEF r
<1>5. b \in [Threads -> ThreadRows] /\ b[t] = r /\ \A u \in Threads \ {t} : b[u] = th[u]
    BY <1>3
<1> HIDE DEF b
<1>6. \/ th' = b
      \/ \E u \in Threads \ {t} : /\ th[u] = Idle
                                  /\ th' = [b EXCEPT ![u].pc = "maintain", ![u].job = "background"]
    BY DEF SwitchClears, b, r
<1>7. CASE th' = b
    BY <1>4, <1>5, <1>7 DEF Moved
<1>8. ASSUME NEW u \in Threads \ {t}, th[u] = Idle,
             th' = [b EXCEPT ![u].pc = "maintain", ![u].job = "background"]
      PROVE  Moved(t)
    <2> DEFINE q == [Idle EXCEPT !.pc = "maintain", !.job = "background"]
    <2>1. th' = [b EXCEPT ![u] = q]
        BY <1>5, <1>8
    <2>2. q \in ThreadRows /\ q.pc = "maintain" /\ IsFresh(q, "background", "idle", 0)
        BY BackgroundRow DEF Places, Jobs
    <2>3. th[u].pc = "idle" /\ th[u].child = None
        BY <1>8, IdleRow
    <2> HIDE DEF q
    <2>4. Wakes(th[u], q)
        BY <2>2, <2>3 DEF Wakes
    <2>5. QED
        BY <1>4, <1>5, <2>1, <2>2, <2>4 DEF Moved
<1>9. QED
    BY <1>6, <1>7, <1>8

LEMMA AllMove ==
    ASSUME TypeOK, LocalInv, NEW t \in Threads, Work(t) \/ Start(t)
    PROVE  Moved(t)
<1>1. CASE SwitchClears(t)
    BY <1>1, HandoverMoves
<1>2. CASE ~SwitchClears(t)
    <2>1. Moves(t)
        BY <1>2, ConnectMoves, SwitchMoves, MaintainMoves, OtherMoves, StartMoves DEF Work
    <2>2. QED
        BY <2>1 DEF Moves, Moved, Leaves
<1>3. QED
    BY <1>1, <1>2

-------------------------------------------------------------------------------
(* Who changes what is shared.                                                 *)

LEMMA WhoTunnel ==
    ASSUME NEW t \in Threads, Work(t) \/ Start(t)
    PROVE  \/ UNCHANGED tunnel
           \/ StopActive \/ StopRaises
           \/ Launch(t) \/ NotReady(t) \/ Forget(t) \/ Adopt(t) \/ ClearProcess(t)
<1> USE DEF shared, tunnel
<1>1. CASE ConnectStep(t)
    BY <1>1 DEF ConnectStep, Claim, ClaimBreaks, ConnectBreaks, Refused, Configure, SaveConfig,
                StopOld, LaunchFails, Ready, WriteFailed, Require, WriteBack, ClearMarks, Finally
<1>2. CASE SwitchStep(t)
    BY <1>2 DEF SwitchStep, SwitchEnds, SwitchTo, NoCandidate, SwitchStops, SwitchClears,
                JobBreaks, JobStopRaises, Abandon
<1>3. CASE MaintainStep(t)
    BY <1>3 DEF MaintainStep, MaintainBusy, MaintainStarts, ForceStops, Fallen, ReviveFixed,
                ReviveSwitch, NothingToRevive, Resume, FetchFails, Merge, TestAll,
                TestRequested, Rejoin, Unlock, MaintainEnds
<1>4. CASE CheckerStep(t) \/ OffStop(t) \/ OffClear(t)
    BY <1>4 DEF CheckerStep, ProxyWorks, ProxyFails, FixedFails, OffStop, OffClear
<1>5. CASE Start(t)
    BY <1>5 DEF Start, StartMaintain, Check, AskDisconnect, AskConnect, AskTest
<1>6. QED
    BY <1>1, <1>2, <1>3, <1>4, <1>5 DEF Work

LEMMA WhoNodes ==
    ASSUME NEW t \in Threads, Work(t) \/ Start(t)
    PROVE  \/ nodes' = nodes
           \/ nodes' = [nodes EXCEPT !.active = {}]
           \/ nodes' = [nodes EXCEPT !.ok = @ \ {activeId}]
           \/ WriteFailed(t) \/ WriteBack(t)
           \/ \E ns \in SUBSET Nodes : nodes' = Merged(ns) \/ Tested(t, ns)
<1> USE DEF shared, files
<1>1. CASE ConnectStep(t)
    BY <1>1 DEF ConnectStep, Claim, ClaimBreaks, ConnectBreaks, Refused, Configure, SaveConfig, StopOld, Launch, LaunchFails,
                Ready, NotReady, Forget, Adopt, Require, ClearProcess, ClearMarks, Finally
<1>2. CASE SwitchStep(t)
    BY <1>2 DEF SwitchStep, SwitchEnds, SwitchTo, NoCandidate, SwitchStops, SwitchClears,
                JobBreaks, JobStopRaises, Abandon
<1>3. CASE MaintainStep(t)
    BY <1>3 DEF MaintainStep, MaintainBusy, MaintainStarts, ForceStops, Fallen, ReviveFixed,
                ReviveSwitch, NothingToRevive, Resume, FetchFails, Merge, TestAll,
                TestRequested, Rejoin, Unlock, MaintainEnds
<1>4. CASE CheckerStep(t) \/ OffStop(t) \/ OffClear(t)
    BY <1>4 DEF CheckerStep, ProxyWorks, ProxyFails, FixedFails, OffStop, OffClear
<1>5. CASE Start(t)
    BY <1>5 DEF Start, StartMaintain, Check, AskDisconnect, AskConnect, AskTest
<1>6. QED
    BY <1>1, <1>2, <1>3, <1>4, <1>5 DEF Work

LEMMA WhoFlags ==
    ASSUME NEW t \in Threads, Work(t) \/ Start(t)
    PROVE  /\ \/ UNCHANGED <<connecting, stolen, stuck>>
              \/ /\ Claim(t) \/ MaintainStarts(t) \/ Resume(t)
                 /\ connecting' /\ UNCHANGED <<stolen, stuck>>
              \/ ClaimBreaks(t) /\ connecting' /\ stuck' /\ stolen' = stolen
              \/ ClearFlag(t) /\ (Finally(t) \/ th[t].pc \notin Connect)
           /\ maint' = maint \/ MaintainStarts(t) \/ MaintainEnds(t)
           /\ locked' \in {locked, None} \/ (locked' = t /\ CallSwitch(t, "unlock"))
           /\ enabled' \in {enabled, TRUE, FALSE} /\ mode' = mode
<1> USE DEF shared, history, flags, files, At, Connect
<1>1. CASE ConnectStep(t)
    BY <1>1 DEF ConnectStep, Claim, ClaimBreaks, ConnectBreaks, Refused, Configure, SaveConfig, StopOld, Launch, LaunchFails,
                Ready, NotReady, WriteFailed, Forget, Adopt, Require, WriteBack, ClearProcess,
                ClearMarks, Finally
<1>2. CASE SwitchStep(t)
    BY <1>2 DEF SwitchStep, SwitchEnds, SwitchTo, NoCandidate, SwitchStops, SwitchClears,
                JobBreaks, JobStopRaises, Abandon
<1>3. CASE MaintainStep(t)
    BY <1>3 DEF MaintainStep, MaintainBusy, MaintainStarts, ForceStops, Fallen, ReviveFixed,
                ReviveSwitch, NothingToRevive, Resume, FetchFails, Merge, TestAll,
                TestRequested, Tested, Rejoin, Unlock, MaintainEnds
<1>4. CASE CheckerStep(t) \/ OffStop(t) \/ OffClear(t)
    BY <1>4 DEF CheckerStep, ProxyWorks, ProxyFails, FixedFails, OffStop, OffClear
<1>5. CASE Start(t)
    BY <1>5 DEF Start, StartMaintain, Check, AskDisconnect, AskConnect, AskTest
<1>6. QED
    BY <1>1, <1>2, <1>3, <1>4, <1>5 DEF Work

\* What some of the actions leave behind.
LEMMA Outcomes ==
    ASSUME LocalInv, NEW t \in Threads
    PROVE  /\ Claim(t) => th'[t].pc = "configure"
           /\ Finally(t) => th'[t].pc \notin Connect /\ ClearFlag(t)
           /\ MaintainStarts(t) => InMaintenance(th'[t])
           /\ MaintainEnds(t) => ~InMaintenance(th'[t]) /\ ClearFlag(t)
           /\ CallSwitch(t, "unlock") => InLock(th'[t])
           /\ Adopt(t) => th'[t].pc = "require" /\ th'[t].node = th[t].node
<1>1. ASSUME Claim(t) PROVE th'[t].pc = "configure"
    BY <1>1, GotoLeaves DEF Claim, Places, Leaves
<1>2. ASSUME Finally(t) PROVE th'[t].pc \notin Connect /\ ClearFlag(t)
    <2>1. PICK ok \in BOOLEAN : ReturnFromConnect(t, ok)
        <3>1. ReturnFromConnect(t, At(t, "done")) /\ At(t, "done") \in BOOLEAN
            BY <1>2 DEF Finally, At
        <3>2. QED
            BY <3>1
    <2>2. th[t].ret = "switch" => th[t].tries < MaxTries
        BY <1>2 DEF Finally, LocalInv, Local, At, Connect
    <2>3. PICK r \in ThreadRows :
             /\ Leaves(t, r)
             /\ \/ th[t].ret # "switch" /\ r.pc = th[t].ret
                \/ r.pc \in {th[t].back, "switch"}
        BY <2>1, <2>2, ReturnLeaves
    <2>4. /\ th[t].ret \in {"idle", "switch", "resume"}
          /\ th[t].back \in {"idle", "resume", "unlock"}
        BY DEF LocalInv, ThreadRows
    <2>5. QED
        BY <1>2, <2>3, <2>4 DEF Finally, Leaves, Connect
<1>3. ASSUME MaintainEnds(t) PROVE ~InMaintenance(th'[t]) /\ ClearFlag(t)
    BY <1>3, AfterLeaves DEF MaintainEnds, PutAfter, Leaves, InMaintenance, InLock, IsFresh
<1>4. ASSUME Adopt(t) PROVE th'[t].pc = "require" /\ th'[t].node = th[t].node
    <2>1. PutChild(t, "require", None)
        BY <1>4 DEF Adopt, PutChild
    <2>2. QED
        BY <2>1, ChildLeaves DEF Places, Leaves
<1>5. ASSUME MaintainStarts(t) PROVE InMaintenance(th'[t])
    BY <1>5, GotoLeaves DEF MaintainStarts, Places, Leaves, InMaintenance
<1>6. ASSUME CallSwitch(t, "unlock") PROVE InLock(th'[t])
    BY <1>6, SwitchLeaves DEF Leaves, IsFresh, InLock
<1>7. QED
    BY <1>1, <1>2, <1>3, <1>4, <1>5, <1>6

-------------------------------------------------------------------------------
(* The invariant.                                                              *)

\* One connect_node holds the flag.
OneInv ==
    ~stolen =>
        /\ \A t \in Threads : InConnect(t) => connecting
        /\ \A t, u \in Threads : InConnect(t) /\ InConnect(u) => t = u

\* Who is at work in maintain_valid_nodes holds its lock.
MaintInv == \A t \in Threads : InMaintenance(th[t]) => maint = t

\* What a connect under way may assume of the tunnel.
TunnelInv ==
    ~stolen => \A t \in Threads :
        /\ th[t].pc \in Bare => proc = None /\ activeId = None
        /\ th[t].pc \in {"require", "writeBack"} => activeId \in {None, th[t].node}

\* The active node is listed, or will be, or will not be active.
ListInv ==
    ~stolen /\ activeId # None =>
        activeId \in nodes.listed \/ \E t \in Threads : th[t].pc \in Unlisted

IInv == /\ TypeOK /\ LocalInv /\ OneInv /\ MaintInv /\ TunnelInv /\ ListInv
        /\ FlagHeld

LEMMA StartRows ==
    ASSUME NEW f \in CollectorStarts
    PROVE  /\ f \in [Threads -> ThreadRows]
           /\ \A t \in Threads : /\ Local(f[t]) /\ ~InMaintenance(f[t])
                                 /\ f[t].pc \in {"idle", "maintain"}
           /\ \E t \in Threads : f[t].pc = "maintain" /\ f[t].job = "collect"
<1>1. PICK c \in Threads : f = [[t \in Threads |-> Idle] EXCEPT
                                  ![c] = [Idle EXCEPT !.pc = "maintain", !.job = "collect"]]
    BY DEF CollectorStarts
<1> DEFINE q == [Idle EXCEPT !.pc = "maintain", !.job = "collect"]
<1>2. q \in ThreadRows /\ q.pc = "maintain" /\ IsFresh(q, "collect", "idle", 0)
    BY BackgroundRow DEF Places, Jobs
<1>3. /\ f[c] = q /\ \A t \in Threads \ {c} : f[t] = Idle
      /\ f = [t \in Threads |-> IF t = c THEN q ELSE Idle]
    BY <1>1
<1> HIDE DEF q
<1>4. Local(q) /\ ~InMaintenance(q) /\ Local(Idle) /\ ~InMaintenance(Idle)
    BY <1>2, IdleRow DEF Local, InMaintenance, InLock, IsFresh, Connect
<1>5. f \in [Threads -> ThreadRows]
    BY <1>2, <1>3, IdleRow
<1>6. QED
    BY <1>2, <1>3, <1>4, <1>5, IdleRow DEF IsFresh

\* At the start of main, first or again.
Started ==
    /\ connecting /\ maint = None /\ locked = None /\ proc = None /\ activeId = None
    /\ live = {} /\ owner = None /\ stolen = FALSE /\ stuck = FALSE
    /\ nodes \in NodeLists /\ enabled \in BOOLEAN /\ mode \in {"auto", "fixed_ip"}
    /\ th \in CollectorStarts

LEMMA StartedInv == Started => IInv
<1> SUFFICES ASSUME Started PROVE IInv
    OBVIOUS
<1>1. LocalInv /\ \A t \in Threads : ~InConnect(t) /\ ~InMaintenance(th[t]) /\ th[t].pc \notin Unlisted
    BY StartRows DEF Started, LocalInv, InConnect, Unlisted
<1>2. TypeOK
    BY <1>1 DEF Started, TypeOK, LocalInv, ThreadRows
<1>3. OneInv /\ MaintInv /\ ListInv
    BY <1>1 DEF Started, OneInv, MaintInv, ListInv
<1>4. TunnelInv
    BY DEF Started, TunnelInv
<1>5. FlagHeld
    BY StartRows DEF Started, FlagHeld, At
<1>6. QED
    BY <1>1, <1>2, <1>3, <1>4, <1>5 DEF IInv

LEMMA InitInv == Init => IInv
BY StartedInv, IdleRow DEF Init, Started

LEMMA LocalStep ==
    ASSUME IInv, NEW t \in Threads, Work(t) \/ Start(t)
    PROVE  LocalInv' /\ Moved(t)
<1>1. Moved(t)
    BY AllMove DEF IInv
<1>2. QED
    BY <1>1 DEF IInv, LocalInv, Moved, Wakes, Follows

LEMMA TypeStep ==
    ASSUME IInv, NEW t \in Threads, Work(t) \/ Start(t)
    PROVE  TypeOK'
<1>1. th' \in [Threads -> ThreadRows]
    BY LocalStep DEF Moved
<1>2. /\ connecting' \in BOOLEAN /\ stolen' \in BOOLEAN /\ stuck' \in BOOLEAN /\ maint' \in Threads \cup {None}
      /\ locked' \in Threads \cup {None} /\ enabled' \in BOOLEAN /\ mode' \in {"auto", "fixed_ip"}
    BY WhoFlags DEF IInv, TypeOK, ClearFlag, MaintainStarts, MaintainEnds
<1>3. /\ proc' \in Procs \cup {None} /\ activeId' \in Nodes \cup {None}
      /\ live' \subseteq Procs /\ owner' \in Procs \cup {None}
    <2> USE DEF IInv, TypeOK
    <2>1. th[t].child \in Procs \cup {None} /\ th[t].node \in Nodes \cup {None}
        BY DEF ThreadRows, LocalInv
    <2>2. CASE UNCHANGED tunnel
        BY <2>2 DEF tunnel
    <2>3. CASE StopActive \/ StopRaises
        BY <2>3 DEF StopActive, StopRaises
    <2>4. CASE Launch(t)
        BY <2>4 DEF Launch, Fresh
    <2>5. CASE NotReady(t) \/ ClearProcess(t)
        BY <2>5 DEF NotReady, ClearProcess
    <2>6. CASE Forget(t) \/ Adopt(t)
        BY <2>1, <2>6 DEF Forget, Adopt
    <2>7. QED
        BY <2>2, <2>3, <2>4, <2>5, <2>6, WhoTunnel
<1>4. nodes' \in NodeLists
    <2>1. nodes \in NodeLists /\ th[t].list \in NodeLists
        BY DEF IInv, TypeOK, LocalInv, ThreadRows
    <2>2. CASE WriteFailed(t)
        BY <2>1, <2>2 DEF WriteFailed, NodeLists
    <2>3. CASE WriteBack(t)
        <3>1. th[t].node \in Nodes
            BY <2>1, <2>3 DEF WriteBack, At, IInv, LocalInv, Local, NodeLists
        <3>2. QED
            BY <2>1, <2>3, <3>1 DEF WriteBack, NodeLists
    <2>4. ASSUME NEW ns \in SUBSET Nodes, nodes' = Merged(ns) \/ Tested(t, ns)
          PROVE  nodes' \in NodeLists
        BY <2>1, <2>4 DEF Merged, Tested, NodeLists
    <2>5. ASSUME \/ nodes' = [nodes EXCEPT !.active = {}]
                 \/ nodes' = [nodes EXCEPT !.ok = @ \ {activeId}]
          PROVE  nodes' \in NodeLists
        BY <2>1, <2>5 DEF NodeLists
    <2>6. QED
        BY <2>1, <2>2, <2>3, <2>4, <2>5, WhoNodes
<1>5. QED
    BY <1>1, <1>2, <1>3, <1>4 DEF TypeOK, ThreadRows

LEMMA OneStep ==
    ASSUME IInv, NEW t \in Threads, Work(t) \/ Start(t)
    PROVE  OneInv'
<1> SUFFICES ASSUME ~stolen'
             PROVE  /\ \A u \in Threads : th'[u].pc \in Connect => connecting'
                    /\ \A u, v \in Threads :
                          th'[u].pc \in Connect /\ th'[v].pc \in Connect => u = v
    BY DEF OneInv, InConnect, Connect
<1>1. \A u \in Threads : InConnect(u) <=> th[u].pc \in Connect
    BY DEF InConnect, Connect
<1>2. /\ \A u \in Threads \ {t} : th'[u].pc \in Connect => th[u].pc \in Connect
      /\ th'[t].pc \in Connect => th[t].pc \in Connect \/ Claim(t)
    BY LocalStep DEF Moved, Wakes, Follows, Connect
<1>3. CASE Claim(t)
    <2>1. ~stolen /\ ~connecting /\ connecting'
        BY <1>3 DEF Claim, history
    <2>2. QED
        BY <1>1, <1>2, <2>1 DEF IInv, OneInv
<1>4. CASE ~Claim(t) /\ (connecting => connecting') /\ stolen' = stolen
    BY <1>1, <1>2, <1>4 DEF IInv, OneInv
<1>5. CASE ~Claim(t) /\ ClearFlag(t) /\ (Finally(t) \/ th[t].pc \notin Connect)
    <2>1. ~stolen /\ \A u \in Threads \ {t} : th[u].pc \notin Connect
        BY <1>1, <1>5 DEF ClearFlag, IInv, TypeOK
    <2>2. th'[t].pc \notin Connect
        BY <1>2, <1>5, Outcomes DEF IInv
    <2>3. QED
        BY <1>2, <2>1, <2>2
<1>6. QED
    BY <1>3, <1>4, <1>5, WhoFlags

LEMMA MaintStep ==
    ASSUME IInv, NEW t \in Threads, Work(t) \/ Start(t)
    PROVE  MaintInv'
<1> SUFFICES ASSUME NEW u \in Threads, InMaintenance(th'[u]) PROVE maint' = u
    BY DEF MaintInv
<1>1. /\ \A v \in Threads : InMaintenance(th[v]) => maint = v
      /\ maint \in Threads \cup {None} /\ None \notin Threads
    BY ManagerAssumption DEF IInv, MaintInv, TypeOK
<1>2. MaintainStarts(t) => maint = None /\ maint' = t
    BY DEF MaintainStarts
<1>3. MaintainEnds(t) => InMaintenance(th[t]) /\ ~InMaintenance(th'[t])
    BY Outcomes DEF MaintainEnds, At, InMaintenance, InLock, IInv
<1>4. CASE u = t
    <2>1. InMaintenance(th[t]) \/ MaintainStarts(t)
        BY <1>4, LocalStep DEF Moved, Follows
    <2>2. QED
        BY <1>1, <1>2, <1>3, <1>4, <2>1, WhoFlags
<1>5. CASE u # t
    <2>1. InMaintenance(th[u])
        BY <1>5, LocalStep DEF Moved, Wakes
    <2>2. QED
        BY <1>1, <1>2, <1>3, <1>5, <2>1, WhoFlags
<1>6. QED
    BY <1>4, <1>5

\* History: once stolen, until the container starts again.
LEMMA StolenStays ==
    ASSUME IInv, NEW t \in Threads, Work(t) \/ Start(t), ~stolen'
    PROVE  ~stolen
BY WhoFlags DEF IInv, TypeOK, ClearFlag

LEMMA TunnelStep ==
    ASSUME IInv, NEW t \in Threads, Work(t) \/ Start(t)
    PROVE  TunnelInv'
<1> SUFFICES ASSUME ~stolen', NEW u \in Threads
             PROVE  /\ th'[u].pc \in Bare => proc' = None /\ activeId' = None
                    /\ th'[u].pc \in {"require", "writeBack"} => activeId' \in {None, th'[u].node}
    BY DEF TunnelInv
<1>1. /\ \A v \in Threads : /\ th[v].pc \in Bare => proc = None /\ activeId = None
                            /\ th[v].pc \in {"require", "writeBack"} =>
                                  activeId \in {None, th[v].node}
      /\ \A v, w \in Threads : InConnect(v) /\ InConnect(w) => v = w
    BY StolenStays DEF IInv, TunnelInv, OneInv
<1>2. ASSUME ~Adopt(t) PROVE activeId' \in {activeId, None} /\ proc' \in {proc, None}
    BY <1>2, WhoTunnel DEF tunnel, StopActive, StopRaises, Launch, NotReady, Forget, ClearProcess
<1>3. Adopt(t) => InConnect(t) /\ activeId' = th[t].node
    BY DEF Adopt, At, InConnect
<1>4. StopActive => proc' = None /\ activeId' = None
    BY DEF StopActive
<1>5. CASE u # t
    <2>1. th'[u] = th[u] \/ th'[u].pc = "maintain"
        BY <1>5, LocalStep DEF Moved, Wakes
    <2>2. th[u].pc \in Bare \cup {"require", "writeBack"} => InConnect(u)
        BY DEF InConnect, Bare
    <2>3. QED
        BY <1>1, <1>2, <1>3, <1>5, <2>1, <2>2 DEF Bare
<1>6. CASE u = t
    <2>1. /\ th'[t].pc \in Bare => th[t].pc \in Bare \/ StopActive
          /\ th'[t].pc \in {"require", "writeBack"} =>
                \/ th[t].pc \in {"require", "writeBack"} /\ th'[t].node = th[t].node
                \/ Adopt(t)
        BY LocalStep DEF Moved, Follows
    <2>2. Adopt(t) => th'[t].pc = "require" /\ th'[t].node = th[t].node
        BY Outcomes DEF IInv
    <2>3. QED
        BY <1>1, <1>2, <1>3, <1>4, <1>6, <2>1, <2>2 DEF Bare
<1>7. QED
    BY <1>5, <1>6

LEMMA ListStep ==
    ASSUME IInv, NEW t \in Threads, Work(t) \/ Start(t)
    PROVE  ListInv'
<1> SUFFICES ASSUME ~stolen', activeId' # None, \A u \in Threads : th'[u].pc \notin Unlisted
             PROVE  activeId' \in nodes'.listed
    BY DEF ListInv
<1>1. ~stolen
    BY StolenStays
<1>2. ~Adopt(t)
    BY Outcomes DEF IInv, Unlisted
<1>3. activeId' = activeId /\ ~ClearProcess(t)
    BY <1>2, WhoTunnel DEF tunnel, StopActive, StopRaises, Launch, NotReady, Forget, ClearProcess
<1>4. CASE WriteBack(t)
    <2>1. activeId = th[t].node /\ th[t].node \in th[t].list.listed
        BY <1>1, <1>3, <1>4 DEF WriteBack, At, IInv, TunnelInv, LocalInv, Local
    <2>2. nodes'.listed = th[t].list.listed
        BY <1>4 DEF WriteBack, IInv, LocalInv, ThreadRows, NodeLists
    <2>3. QED
        BY <1>3, <2>1, <2>2
<1>5. CASE ~WriteBack(t)
    <2>1. \A u \in Threads : th[u].pc \notin Unlisted
        <3>1. th[t].pc \notin Unlisted
            BY <1>3, <1>5, LocalStep DEF Moved, Follows
        <3>2. QED
            BY <3>1, LocalStep DEF Moved, Wakes, Unlisted
    <2>2. activeId \in nodes.listed /\ nodes \in NodeLists
        BY <1>1, <1>3, <2>1 DEF IInv, ListInv, TypeOK
    <2>3. ~WriteFailed(t)
        BY <1>1, <1>3 DEF WriteFailed, At, Bare, IInv, TunnelInv
    <2>4. ASSUME NEW ns \in SUBSET Nodes, nodes' = Merged(ns) PROVE activeId \in nodes'.listed
        BY <2>2, <2>4 DEF Merged
    <2>5. ASSUME NEW ns \in SUBSET Nodes, Tested(t, ns) PROVE nodes'.listed = nodes.listed
        BY <2>2, <2>5 DEF Tested, NodeLists
    <2>6. ASSUME \/ nodes' = [nodes EXCEPT !.active = {}]
                 \/ nodes' = [nodes EXCEPT !.ok = @ \ {activeId}]
          PROVE  nodes'.listed = nodes.listed
        BY <2>2, <2>6 DEF NodeLists
    <2>7. QED
        BY <1>3, <1>5, <2>2, <2>3, <2>4, <2>5, <2>6, WhoNodes
<1>6. QED
    BY <1>4, <1>5

\* The three parts of FlagHeld.
FlagTaken ==
    connecting => stuck \/ \E t \in Threads : \/ th[t].pc \in Connect \/ maint = t
                                              \/ th[t].pc = "maintain" /\ th[t].job = "collect"
HolderInv == maint # None => InMaintenance(th[maint])
LockInv   == locked # None => InLock(th[locked])

LEMMA FlagParts == FlagHeld <=> FlagTaken /\ HolderInv /\ LockInv
BY DEF FlagHeld, FlagTaken, HolderInv, LockInv, InLock, InConnect, Connect, At

LEMMA HolderStep ==
    ASSUME IInv, NEW t \in Threads, Work(t) \/ Start(t)
    PROVE  HolderInv' /\ LockInv'
<1>1. HolderInv /\ LockInv
    BY FlagParts DEF IInv
<1>2. \A u \in Threads \ {t} : (InMaintenance(th[u]) => InMaintenance(th'[u]))
                               /\ (InLock(th[u]) => InLock(th'[u]))
    <2>1. \A u \in Threads : th[u].pc = "idle" => ~InMaintenance(th[u]) /\ ~InLock(th[u])
        BY DEF IInv, LocalInv, Local, Connect, InMaintenance, InLock
    <2>2. QED
        BY <2>1, LocalStep DEF Moved, Wakes
<1>3. /\ InMaintenance(th[t]) => InMaintenance(th'[t]) \/ MaintainEnds(t)
      /\ InLock(th[t]) => InLock(th'[t]) \/ locked' # t
    BY LocalStep DEF Moved, Follows
<1>4. /\ MaintainStarts(t) => maint' = t /\ InMaintenance(th'[t])
      /\ MaintainEnds(t) => maint' = None
      /\ CallSwitch(t, "unlock") => InLock(th'[t])
    BY Outcomes DEF IInv, MaintainStarts, MaintainEnds
<1>5. maint \in Threads \cup {None} /\ locked \in Threads \cup {None}
    BY DEF IInv, TypeOK
<1>6. HolderInv'
    BY <1>1, <1>2, <1>3, <1>4, <1>5, WhoFlags DEF HolderInv
<1>7. LockInv'
    BY <1>1, <1>2, <1>3, <1>4, <1>5, WhoFlags DEF LockInv
<1>8. QED
    BY <1>6, <1>7

LEMMA FlagStep ==
    ASSUME IInv, NEW t \in Threads, Work(t) \/ Start(t)
    PROVE  FlagTaken'
<1> SUFFICES ASSUME connecting', ~stuck'
             PROVE  \E u \in Threads : \/ th'[u].pc \in Connect \/ maint' = u
                                       \/ th'[u].pc = "maintain" /\ th'[u].job = "collect"
    BY DEF FlagTaken
<1>1. ~ClearFlag(t) /\ ~Finally(t) /\ ~MaintainEnds(t)
    BY Outcomes DEF IInv, ClearFlag
<1>2. maint \in Threads => maint' \in Threads
    BY <1>1, WhoFlags DEF MaintainStarts
<1>3. MaintainStarts(t) => maint' = t
    BY DEF MaintainStarts
<1>4. CASE Claim(t)
    BY <1>4, Outcomes DEF IInv, Connect
<1>5. CASE Resume(t)
    <2>1. maint = t
        BY <1>5 DEF Resume, At, IInv, MaintInv, InMaintenance, InLock
    <2>2. QED
        BY <1>2, <2>1
<1>6. CASE connecting /\ ~stuck
    <2>1. PICK u \in Threads : \/ th[u].pc \in Connect \/ maint = u
                               \/ th[u].pc = "maintain" /\ th[u].job = "collect"
        BY <1>6, FlagParts DEF IInv, FlagTaken
    <2>2. CASE maint = u
        BY <1>2, <2>2
    <2>3. CASE u # t
        BY <2>1, <2>2, <2>3, LocalStep DEF Moved, Wakes, Connect
    <2>4. CASE u = t /\ th[t].pc \in Connect
        BY <1>1, <2>4, LocalStep DEF Moved, Follows
    <2>5. CASE u = t /\ th[t].pc = "maintain"
        <3>1. maint # None \/ MaintainStarts(t)
            BY <2>5, LocalStep DEF Moved, Follows
        <3>2. maint # None => maint \in Threads
            BY DEF IInv, TypeOK
        <3>3. QED
            BY <1>2, <1>3, <3>1, <3>2
    <2>6. QED
        BY <2>1, <2>2, <2>3, <2>4, <2>5
<1>7. QED
    BY <1>1, <1>3, <1>4, <1>5, <1>6, WhoFlags

LEMMA DiesStep ==
    ASSUME IInv, NEW p \in Procs, ChildDies(p)
    PROVE  IInv'
<1> USE DEF ChildDies, flags, files, history
<1>1. TypeOK'
    BY DEF IInv, TypeOK
<1>2. LocalInv' /\ OneInv' /\ MaintInv' /\ TunnelInv' /\ ListInv'
    BY DEF IInv, LocalInv, OneInv, InConnect, MaintInv, TunnelInv, ListInv
<1>3. FlagHeld'
    BY DEF IInv, FlagHeld, InConnect, InMaintenance, At
<1>4. QED
    BY <1>1, <1>2, <1>3 DEF IInv

LEMMA IInvStep == IInv /\ [Next]_vars => IInv'
<1> SUFFICES ASSUME IInv, [Next]_vars PROVE IInv'
    OBVIOUS
<1>1. ASSUME NEW t \in Threads, Work(t) \/ Start(t) PROVE IInv'
    BY <1>1, LocalStep, TypeStep, OneStep, MaintStep, TunnelStep, ListStep,
       FlagStep, HolderStep, FlagParts, PTL DEF IInv
<1>2. ASSUME NEW p \in Procs, ChildDies(p) PROVE IInv'
    BY <1>2, DiesStep
<1>3. CASE Restart
    <2>1. Started'
        BY <1>3 DEF Restart, Started, files, IInv, TypeOK
    <2>2. QED
        BY <2>1, StartedInv, PTL
<1>4. CASE UNCHANGED vars
    BY <1>4 DEF vars, shared, flags, tunnel, files, history, IInv, TypeOK, LocalInv, OneInv,
                InConnect, MaintInv, TunnelInv, ListInv, FlagHeld, InMaintenance, At
<1>5. QED
    BY <1>1, <1>2, <1>3, <1>4 DEF Next

-------------------------------------------------------------------------------
(* Theorems.                                                                   *)

LEMMA Invariance == Spec => []IInv
BY InitInv, IInvStep, PTL DEF Spec

\* Every variable of the manager keeps its type.
THEOREM TypeCorrect == Spec => []TypeOK
<1>1. IInv => TypeOK
    BY DEF IInv
<1>2. QED
    BY Invariance, <1>1, PTL

\* Merges and late writes keep the active node in nodes.json.
THEOREM ActiveListed == Spec => []ActiveIsListed
<1>1. IInv => ActiveIsListed
    BY DEF IInv, ListInv, ActiveIsListed, InConnect, Unlisted
<1>2. QED
    BY Invariance, <1>1, PTL

\* Whenever a lock is taken, or is_connecting set other than by a claim whose set_state
\* failed, a thread is on its way to the place where it gives it back.
THEOREM FlagReleased == Spec => []FlagHeld
<1>1. IInv => FlagHeld
    BY DEF IInv
<1>2. QED
    BY Invariance, <1>1, PTL

\* A thread's own steps bring its job nearer to its end, other threads' steps
\* leave it where it is: a job ends after at most StepsLeft steps of its thread.
THEOREM EveryJobEnds ==
    Spec => JobsAdvance /\ [](\A t \in Threads : StepsLeft(th[t]) \in 0 .. 60 * MaxTries + 72)
<1>1. IInv => \A t \in Threads : StepsLeft(th[t]) \in 0 .. 60 * MaxTries + 72
    <2> SUFFICES ASSUME IInv, NEW t \in Threads
                 PROVE  StepsLeft(th[t]) \in 0 .. 60 * MaxTries + 72
        OBVIOUS
    <2> DEFINE calls == Connect \cup {"claim", "switch", "switchStop", "switchClear"}
    <2>1. /\ th[t].tries \in 0 .. MaxTries /\ MaxTries \in Nat
          /\ th[t].pc \in Places
          /\ th[t].ret = "switch" => th[t].pc \in Connect \cup {"claim"} /\ th[t].tries < MaxTries
        BY ManagerAssumption DEF IInv, LocalInv, Local, ThreadRows
    <2>2. ConnectLeft(th[t]) \in 0 .. 15 /\ (th[t].pc \in Connect \cup {"claim"} => ConnectLeft(th[t]) >= 3)
        BY <2>1 DEF ConnectLeft, Connect
    <2>3. th[t].pc \in calls => CallLeft(th[t]) \in 0 .. 20 * MaxTries + 15
        BY <2>1, <2>2 DEF CallLeft, SwitchLeft
    <2>4. ASSUME th[t].pc \in calls PROVE StepsLeft(th[t]) \in 0 .. 60 * MaxTries + 72
        <3>1. StepsLeft(th[t]) \in {CallLeft(th[t]) + 2 * Round + 9, CallLeft(th[t]) + Round + 4,
                                    CallLeft(th[t]) + 1}
            <4>1. CallLeft(th[t]) \in Nat /\ Round \in Nat
                BY <2>1, <2>3, <2>4 DEF Round
            <4> HIDE DEF calls
            <4>2. th[t].pc \notin {"idle", "offClear", "offStop", "mfinally", "checked", "unlock",
                                   "rejoin", "test", "fetch", "resume", "fallen", "revive",
                                   "maintain"}
                BY <2>4 DEF calls, Connect
            <4>3. QED
                BY <4>1, <4>2 DEF StepsLeft
        <3>2. Round = 20 * MaxTries + 20 /\ CallLeft(th[t]) \in 0 .. 20 * MaxTries + 15
            BY <2>3, <2>4 DEF Round
        <3>3. QED
            BY <2>1, <3>1, <3>2
    <2>5. ASSUME th[t].pc \notin calls PROVE StepsLeft(th[t]) \in 0 .. 60 * MaxTries + 72
        <3>1. th[t].pc \in {"idle", "offClear", "offStop", "mfinally", "checked", "unlock",
                            "rejoin", "test", "fetch", "resume", "fallen", "revive", "maintain"}
            BY <2>1, <2>5 DEF Places, Connect
        <3>2. StepsLeft(th[t]) \in {0, 1, 2, Round + 2, Round + 3, 2 * Round + 5, 2 * Round + 6,
                                    2 * Round + 7, 2 * Round + 8, 3 * Round + 10, 3 * Round + 11,
                                    3 * Round + 12}
            BY <3>1 DEF StepsLeft
        <3>3. Round = 20 * MaxTries + 20
            BY DEF Round
        <3>4. QED
            BY <2>1, <3>2, <3>3
    <2>6. QED
        BY <2>4, <2>5
<1>2. ASSUME IInv, Next, ~Restart, NEW t \in Threads
      PROVE  \/ At(t, "idle") \/ th'[t] = th[t]
             \/ StepsLeft(th'[t]) < StepsLeft(th[t])
    <2>1. CASE \E p \in Procs : ChildDies(p)
        BY <2>1 DEF ChildDies
    <2>2. ASSUME NEW u \in Threads, Work(u) \/ Start(u)
          PROVE  \/ th[t].pc = "idle" \/ th'[t] = th[t]
                 \/ StepsLeft(th'[t]) < StepsLeft(th[t])
        <3>1. CASE u = t
            <4>1. Follows(t, th'[t])
                BY <1>2, <2>2, <3>1, LocalStep DEF Moved
            <4>2. QED
                BY <4>1 DEF Follows
        <3>2. CASE u # t
            BY <1>2, <2>2, <3>2, LocalStep DEF Moved, Wakes
        <3>3. QED
            BY <3>1, <3>2
    <2>3. QED
        BY <1>2, <2>1, <2>2 DEF Next, At
<1>3. IInv /\ [Next]_vars =>
         [~Restart => \A t \in Threads : \/ At(t, "idle") \/ th'[t] = th[t]
                                         \/ StepsLeft(th'[t]) < StepsLeft(th[t])]_vars
    BY <1>2
<1>4. QED
    BY Invariance, <1>1, <1>3, PTL DEF Spec, JobsAdvance

================================================================================
