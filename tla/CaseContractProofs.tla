--------------------------- MODULE CaseContractProofs --------------------------
(*****************************************************************************)
(* RequestPath keeps the contract with the owner of the task (CaseContract),    *)
(* for any number of sources, batches, processors, requests and deliveries.     *)
(*****************************************************************************)
EXTENDS RequestPathProofs

-------------------------------------------------------------------------------
(* Every change of the task is a new version, and none of a cancelled one.      *)

NewVersion == task.state # "cancelled" /\ task'.version = task.version + 1

LEMMA SaveVersion ==
    ASSUME NEW t, "version" \in DOMAIN t, Save(t)
    PROVE  task'.version = t.version + 1
BY DEF Save

LEMMA EditedVersion ==
    ASSUME task \in TaskRows
    PROVE  Edited \in TaskRows /\ Edited.version = task.version
BY DEF TaskRows, States, Edited

\* The operations a request may ask for.
LEMMA DispatchVersion ==
    ASSUME CaseTypeOK, \/ Editable /\ (Append \/ Finish \/ Refresh \/ Message \/ Reset)
                       \/ \E mode \in Modes : Confirmable(mode) /\ Confirm(mode)
                       \/ May("cancelled") /\ Cancel
    PROVE  NewVersion
<1> USE DEF NewVersion
<1>0. task \in TaskRows /\ "version" \in DOMAIN task
    BY DEF CaseTypeOK, TaskRows
<1>1. "version" \in DOMAIN Edited /\ Edited.version = task.version
    BY <1>0, EditedVersion DEF TaskRows
<1>2. Editable => task.state # "cancelled"
    BY DEF Editable
<1>3. CASE Editable /\ Append
    <2>1. PICK s \in Sources, k \in Kinds, b \in Batches :
             Save([Edited EXCEPT !.src[s] = [kind |-> k, batch |-> b, status |-> "pending"]])
        BY <1>3 DEF Append, OpenBatch, NewBatch
    <2> DEFINE src == [Edited.src EXCEPT ![s] = [kind |-> k, batch |-> b, status |-> "pending"]]
               t   == [Edited EXCEPT !.src = src]
    <2>2. Save(t)
        BY <2>1
    <2> HIDE DEF src
    <2>3. "version" \in DOMAIN t /\ t.version = Edited.version
        BY <1>1
    <2> HIDE DEF t
    <2>4. QED
        BY <1>1, <1>2, <1>3, <2>2, <2>3, SaveVersion
<1>4. CASE Editable /\ Finish
    <2>1. PICK st : Save([Edited EXCEPT !.state = st])
        BY <1>4 DEF Finish
    <2>2. QED
        BY <1>1, <1>2, <1>4, <2>1, SaveVersion
<1>5. CASE Editable /\ Refresh
    <2>1. PICK src : Save([Edited EXCEPT !.src = src, !.design = 0, !.p0 = FALSE])
        BY <1>5 DEF Refresh
    <2> DEFINE t == [Edited EXCEPT !.src = src, !.design = 0, !.p0 = FALSE]
    <2>2. "version" \in DOMAIN t /\ t.version = Edited.version
        BY <1>1
    <2> HIDE DEF t
    <2>3. Save(t)
        BY <2>1 DEF t
    <2>4. QED
        BY <1>1, <1>2, <1>5, <2>2, <2>3, SaveVersion
<1>6. CASE Editable /\ Message
    BY <1>1, <1>2, <1>6, SaveVersion DEF Message
<1>7. CASE Editable /\ Reset
    <2>1. PICK st : Save([Edited EXCEPT !.state = st, !.design = 0, !.p0 = FALSE])
        BY <1>7 DEF Reset
    <2> DEFINE t == [Edited EXCEPT !.state = st, !.design = 0, !.p0 = FALSE]
    <2>2. "version" \in DOMAIN t /\ t.version = Edited.version
        BY <1>1
    <2> HIDE DEF t
    <2>3. Save(t)
        BY <2>1 DEF t
    <2>4. QED
        BY <1>1, <1>2, <1>7, <2>2, <2>3, SaveVersion
<1>8. ASSUME NEW mode \in Modes, Confirmable(mode), Confirm(mode) PROVE NewVersion
    <2>1. "version" \in DOMAIN Confirmed(mode) /\ Confirmed(mode).version = task.version
        BY <1>0 DEF Confirmed
    <2>2. QED
        BY <1>8, <2>1, SaveVersion DEF Confirm, Confirmable
<1>9. CASE May("cancelled") /\ Cancel
    <2>1. task.state # "cancelled"
        BY <1>9 DEF May, Transitions
    <2> DEFINE t == [task EXCEPT !.state = "cancelled", !.conf = None]
    <2>2. Save(t) /\ "version" \in DOMAIN t /\ t.version = task.version
        BY <1>0, <1>9 DEF Cancel
    <2> HIDE DEF t
    <2>3. QED
        BY <2>1, <2>2, SaveVersion
<1>10. QED
    BY <1>3, <1>4, <1>5, <1>6, <1>7, <1>8, <1>9

\* A step of the store changes the task by a new version, or not at all.
LEMMA CaseVersion ==
    ASSUME CaseTypeOK, CaseStep
    PROVE  NewVersion \/ task' = task
<1>0. task \in TaskRows /\ "version" \in DOMAIN task
    BY DEF CaseTypeOK, TaskRows
<1>1. CASE Dispatched
    BY <1>1, Dispatches, DispatchVersion
<1>2. ASSUME NEW target \in States, May(target) PROVE task.state # "cancelled"
    BY <1>2 DEF May, Transitions
<1>3. CASE StartReview \/ Ready
    <2>1. CASE StartReview
        BY <1>0, <1>2, <2>1, SaveVersion DEF StartReview, NewVersion, States
    <2>2. CASE Ready
        <3> DEFINE t == [task EXCEPT !.state = "ready", !.conf = None]
        <3>1. Save(t) /\ "version" \in DOMAIN t /\ t.version = task.version
            BY <1>0, <2>2 DEF Ready
        <3> HIDE DEF t
        <3>2. QED
            BY <1>2, <2>2, <3>1, SaveVersion DEF Ready, NewVersion, States
    <2>3. QED
        BY <1>3, <2>1, <2>2
<1>4. ASSUME NEW d, Reviewing, Save([Edited EXCEPT !.design = d]) \/ Save([Edited EXCEPT !.p0 = d])
      PROVE  NewVersion
    <2>1. "version" \in DOMAIN Edited /\ Edited.version = task.version
        BY <1>0, EditedVersion DEF TaskRows
    <2>2. QED
        BY <1>4, <2>1, SaveVersion DEF Reviewing, Editable, NewVersion
<1>5. CASE Ask \/ Answer \/ \E d \in 1 .. 2 : Design(d)
    BY <1>4, <1>5 DEF Ask, Answer, Design
<1>6. ASSUME NEW mode \in Modes, BeginGenerate(mode) PROVE NewVersion
    BY <1>0, <1>2, <1>6, SaveVersion DEF BeginGenerate, NewVersion, States
<1>7. CASE FinishGenerate
    <2> DEFINE t == [task EXCEPT !.state = "generated", !.conf = None]
    <2>1. Save(t) /\ "version" \in DOMAIN t /\ t.version = task.version
        BY <1>0, <1>7 DEF FinishGenerate
    <2> HIDE DEF t
    <2>2. QED
        BY <1>2, <1>7, <2>1, SaveVersion DEF FinishGenerate, NewVersion, States
<1>8. CASE Recover
    <2>1. CASE task.state = "generating"
        <3> DEFINE t == [task EXCEPT !.state = "ready", !.conf = None]
        <3>1. Save(t) /\ "version" \in DOMAIN t /\ t.version = task.version
            BY <1>0, <1>8, <2>1 DEF Recover, Save
        <3> HIDE DEF t
        <3>2. QED
            BY <2>1, <3>1, SaveVersion DEF NewVersion
    <2>2. QED
        BY <1>8, <2>1 DEF Recover
<1>9. ASSUME NEW p \in Procs, Publish(p) PROVE NewVersion
    <2>1. Save(Published(procs[p].res)) /\ task.state # "cancelled"
        BY <1>9 DEF Publish, Holds
    <2>2. /\ "version" \in DOMAIN Published(procs[p].res)
          /\ Published(procs[p].res).version = task.version
        BY <1>0 DEF Published
    <2>3. QED
        BY <2>1, <2>2, SaveVersion DEF NewVersion
<1>10. CASE Processing /\ ~\E p \in Procs : Publish(p)
    BY <1>10 DEF Processing, LeaseEnds, CommitPackage, Claim, BeginParse, Stage, GiveUp, Die
<1>11. CASE GenerateFails \/ UNCHANGED caseVars
    BY <1>11 DEF GenerateFails, caseVars
<1>12. QED
    BY <1>1, <1>3, <1>5, <1>6, <1>7, <1>8, <1>9, <1>10, <1>11 DEF CaseStep, Engine

-------------------------------------------------------------------------------
(* What a step of the store does, in the words of the contract.                 *)

EditsTask == Content(task)' \in Contents /\ Standing' = {} /\ UNCHANGED outputs
               /\ task'.state # "cancelled"

Confirms ==
    /\ \E mode \in Modes :
          /\ Contract!Complete(mode, Content(task))
          /\ Standing' = {[mode |-> mode, contents |-> Content(task)]}
    /\ Content(task)' = Content(task) /\ UNCHANGED outputs /\ task'.state # "cancelled"

Cancels ==
    /\ Content(task)' = Content(task) /\ Standing' = {} /\ UNCHANGED outputs
    /\ task'.state = "cancelled"

Works ==
    /\ Content(task)' = Content(task) /\ Standing' = Standing /\ UNCHANGED outputs
    /\ task'.state # "cancelled"

Renders ==
    /\ \E c \in Standing : c.contents = Content(task) /\ Artifacts' = Artifacts \cup {c}
    /\ Content(task)' = Content(task) /\ Standing' = {} /\ task'.state # "cancelled"

LEMMA EditContract ==
    ASSUME Edits, task.state # "cancelled", UNCHANGED outputs
    PROVE  EditsTask
<1>1. Content(task') \in Contents
    BY ContentType DEF Edits
<1>2. QED
    BY <1>1 DEF Edits, Alive, EditsTask, Standing, Content

\* A state moved on, with the confirmation or without.
LEMMA MoveContract ==
    ASSUME CaseTypeOK, Moves, UNCHANGED outputs
    PROVE  /\ task'.state # "cancelled" =>
                 (task'.conf = None => EditsTask) /\ (task'.conf = task.conf => Works)
           /\ task'.state = "cancelled" /\ task'.conf = None => Cancels
<1>1. Content(task)' = Content(task)
    BY DEF Moves, SameContent, Content
<1>2. Content(task) \in Contents
    BY ContentType DEF CaseTypeOK
<1>3. QED
    BY <1>1, <1>2 DEF EditsTask, Works, Cancels, Standing

LEMMA ConfirmContract ==
    ASSUME CaseInv, NEW mode \in Modes, Confirmable(mode), Confirm(mode)
    PROVE  Confirms
<1> DEFINE c == [mode |-> mode, version |-> task.version + 1, asked |-> Content(task)]
           t == [Confirmed(mode) EXCEPT !.version = @ + 1]
<1>1. task \in TaskRows /\ c \in Confirmations
    BY ContentType DEF CaseInv, CaseTypeOK, TaskRows, Confirmations
<1>2. c # None /\ c.mode = mode /\ c.asked = Content(task)
    BY <1>1, CaseAssumption
<1>3. /\ task'.conf = c /\ SameContent(task', task) /\ task'.state = task.state
      /\ SameContent(t, task) /\ t.state = task.state /\ t.conf = c
    <2>1. Confirmed(mode) = [task EXCEPT !.conf = c]
        BY DEF Confirmed
    <2> HIDE DEF c
    <2>2. task' = [[task EXCEPT !.conf = c] EXCEPT !.version = @ + 1]
        BY <2>1 DEF Confirm, Save
    <2>3. QED
        BY <1>1, <2>1, <2>2 DEF TaskRows, SameContent
<1> HIDE DEF c
<1>4. /\ ~Pending /\ ~t.msgs /\ t.design # 0 /\ task.state = "ready"
      /\ mode = "formal" =>
            ~t.p0 /\ \A s \in Added(t) : t.src[s].status = "read"
    BY DEF Confirmable, Gate
<1> HIDE DEF t
<1>5. Contract!Complete(mode, Content(task))
    <2>1. \A s \in Sources : task.src[s].status # "pending"
        BY <1>4, NothingWaits DEF Read
    <2>2. mode = "formal" => ~task.p0 /\ \A s \in Sources : task.src[s].status # "unread"
        BY <1>3, <1>4, NothingWaits DEF SameContent, Added
    <2>3. /\ DOMAIN Content(task).srcs = Sources /\ Content(task).design = task.design
          /\ Content(task).p0 = task.p0 /\ Content(task).msgs = task.msgs
          /\ \A s \in Sources : Content(task).srcs[s] = task.src[s].status
        BY DEF Content
    <2>4. ~task.msgs /\ task.design # 0
        BY <1>3, <1>4 DEF SameContent
    <2>5. QED
        BY <2>1, <2>2, <2>3, <2>4 DEF Contract!Complete
<1>6. Content(task)' = Content(task) /\ task'.state # "cancelled" /\ outputs' = outputs
    BY <1>3, <1>4 DEF SameContent, Content, Confirm, OnlyTask
<1>7. Standing' = {[mode |-> mode, contents |-> Content(task)]}
    BY <1>2, <1>3 DEF Standing
<1>8. QED
    BY <1>5, <1>6, <1>7 DEF Confirms

\* An operation does what its name asks for.
LEMMA DispatchContract ==
    ASSUME CaseInv, NEW op \in Ops, Allowed(op), Dispatch(op)
    PROVE  /\ NewVersion
           /\ \/ Asks(op) = "edit" /\ EditsTask
              \/ Asks(op) = "confirm" /\ Confirms
              \/ Asks(op) = "cancel" /\ Cancels
<1>1. CaseTypeOK
    BY DEF CaseInv
<1>2. CASE op \in Modes
    <2>1. Asks(op) = "confirm" /\ op \notin {"append", "finish", "refresh", "message", "reset", "cancel"}
        BY <1>2 DEF Asks, Modes
    <2>2. Confirmable(op) /\ Confirm(op)
        BY <1>2, <2>1 DEF Allowed, Dispatch
    <2>3. QED
        BY <1>1, <1>2, <2>1, <2>2, ConfirmContract, DispatchVersion
<1>3. CASE op = "cancel"
    <2>1. Asks(op) = "cancel" /\ May("cancelled") /\ Cancel
        BY <1>3 DEF Asks, Allowed, Dispatch, Modes
    <2>2. NewVersion /\ outputs' = outputs
        BY <1>1, <2>1, DispatchVersion DEF Cancel
    <2>3. QED
        BY <1>1, <2>1, <2>2, CancelTask, MoveContract
<1>4. CASE op \in {"append", "finish", "refresh", "message", "reset"}
    <2>1. Asks(op) = "edit" /\ op \notin Modes /\ op # "cancel"
        BY <1>4 DEF Asks, Modes
    <2>2. Append \/ Finish \/ Refresh \/ Message \/ Reset
        BY <1>4, <2>1 DEF Dispatch
    <2>3. Editable
        BY <1>4 DEF Allowed, Modes
    <2>4. NewVersion /\ outputs' = outputs
        BY <1>1, <2>2, <2>3, DispatchVersion
           DEF Append, Finish, Refresh, Message, Reset, OnlyTask
    <2>5. Edits
        BY <1>1, <2>2, AppendTask, FinishTask, RefreshTask, MessageTask, ResetTask
    <2>6. QED
        BY <2>1, <2>4, <2>5, EditContract DEF NewVersion
<1>5. QED
    BY <1>2, <1>3, <1>4 DEF Ops, Modes

\* What nobody asked for: the engine's own work, processing, and the recovery at startup.
Unasked == Engine \/ Processing \/ Recover

LEMMA UnaskedContract ==
    ASSUME CaseInv, Unasked
    PROVE  \/ UNCHANGED <<task, outputs>>
           \/ NewVersion /\ (EditsTask \/ Works \/ Renders)
<1> DEFINE Kept == UNCHANGED <<task, outputs>>
           Changes == NewVersion /\ (EditsTask \/ Works \/ Renders)
<1>1. CaseTypeOK /\ (NewVersion \/ task' = task)
    BY CaseVersion DEF CaseInv, Unasked, CaseStep
<1>2. NewVersion => task.state # "cancelled"
    BY DEF NewVersion
<1>3. CASE Ask \/ Answer \/ \E d \in 1 .. 2 : Design(d)
    <2>1. Edits /\ outputs' = outputs
        BY <1>1, <1>3, ReviewTask DEF Ask, Answer, Design, OnlyTask
    <2>2. QED
        BY <1>1, <1>2, <2>1, EditContract
<1>4. CASE StartReview
    <2>1. Save([task EXCEPT !.state = "review", !.conf = task.conf]) /\ outputs' = outputs
        BY <1>1, <1>4 DEF CaseTypeOK, TaskRows, StartReview, OnlyTask
    <2>2. Moves /\ task'.state = "review"
        BY <1>1, <2>1, MoveTask DEF States
    <2>3. task'.conf \in {None, task.conf}
        BY <2>2 DEF Moves
    <2>4. EditsTask \/ Works
        BY <1>1, <2>1, <2>2, <2>3, MoveContract
    <2>5. QED
        BY <1>1, <2>1, <2>4
<1>5. CASE Ready
    <2>1. Save([task EXCEPT !.state = "ready", !.conf = None]) /\ outputs' = outputs
        BY <1>5 DEF Ready, OnlyTask
    <2>2. Moves /\ task'.state = "ready"
        BY <1>1, <2>1, MoveTask DEF States
    <2>3. task'.conf \in {None, task.conf}
        BY <2>2 DEF Moves
    <2>4. EditsTask \/ Works
        BY <1>1, <2>1, <2>2, <2>3, MoveContract
    <2>5. QED
        BY <1>1, <2>1, <2>4
<1>6. ASSUME NEW mode \in Modes, BeginGenerate(mode) PROVE Kept \/ Changes
    <2>1. Save([task EXCEPT !.state = "generating", !.conf = task.conf]) /\ outputs' = outputs
        BY <1>1, <1>6 DEF CaseTypeOK, TaskRows, BeginGenerate
    <2>2. Moves /\ task'.state = "generating"
        BY <1>1, <2>1, MoveTask DEF States
    <2>3. task'.conf \in {None, task.conf}
        BY <2>2 DEF Moves
    <2>4. EditsTask \/ Works
        BY <1>1, <2>1, <2>2, <2>3, MoveContract
    <2>5. QED
        BY <1>1, <2>1, <2>4
<1>7. CASE FinishGenerate
    <2>1. Save([task EXCEPT !.state = "generated", !.conf = None])
        BY <1>7 DEF FinishGenerate
    <2>2. Moves /\ task'.state = "generated"
        BY <1>1, <2>1, MoveTask DEF States
    <2>3. Content(task)' = Content(task)
        BY <2>2 DEF Moves, SameContent, Content
    <2> DEFINE o == [mode |-> gen.mode, made |-> Content(task), asked |-> task.conf.asked]
               c == [mode |-> gen.mode, contents |-> Content(task)]
    <2>4. task.conf # None /\ task.conf.mode = gen.mode /\ outputs' = outputs \cup {o}
        BY <1>7 DEF FinishGenerate, Gate
    <2>5. task.conf.asked = Content(task)
        BY <2>4 DEF CaseInv, ConfInv
    <2>6. Standing = {c}
        BY <2>4, <2>5 DEF Standing
    <2>7. Artifacts' = Artifacts \cup {c}
        <3>1. o.mode = c.mode /\ o.made = c.contents /\ c = [mode |-> o.mode, contents |-> o.made]
            OBVIOUS
        <3> HIDE DEF o, c
        <3>2. QED
            BY <2>4, <3>1 DEF Artifacts
    <2>8. task'.conf = None
        <3> DEFINE t == [task EXCEPT !.state = "generated", !.conf = None]
        <3>1. t.conf = None /\ "conf" \in DOMAIN t /\ Save(t)
            BY <1>1, <2>1 DEF CaseTypeOK, TaskRows
        <3> HIDE DEF t
        <3>2. QED
            BY <3>1 DEF Save
    <2>9. Renders
        <3>1. Standing' = {} /\ c \in Standing /\ c.contents = Content(task)
            BY <2>6, <2>8 DEF Standing
        <3> HIDE DEF c
        <3>2. QED
            BY <2>2, <2>3, <2>7, <3>1 DEF Renders
    <2>10. NewVersion
        BY <1>1, <1>7, <2>2 DEF FinishGenerate, May, Transitions
    <2>11. QED
        BY <2>9, <2>10
<1>8. CASE Recover
    <2>1. CASE task.state = "generating"
        <3> DEFINE t == [task EXCEPT !.state = "ready", !.conf = None]
        <3>1. t = [task EXCEPT !.state = "ready", !.conf = None] /\ Save(t) /\ outputs' = outputs
            BY <1>8, <2>1 DEF Recover, Save
        <3>2. Moves /\ task'.state = "ready"
            BY <1>1, <3>1, MoveTask DEF States
        <3>3. task'.conf \in {None, task.conf}
            BY <3>2 DEF Moves
        <3>4. EditsTask \/ Works
            BY <1>1, <3>1, <3>2, <3>3, MoveContract
        <3>5. QED
            BY <1>1, <3>1, <3>4
    <2>2. QED
        BY <1>8, <2>1 DEF Recover
<1>9. ASSUME NEW p \in Procs, Publish(p) PROVE Kept \/ Changes
    <2>1. /\ Save(Published(procs[p].res)) /\ outputs' = outputs
          /\ task.state # "cancelled" /\ CaseStep
        BY <1>9 DEF Publish, Holds, CaseStep, Processing
    <2>2. CaseInv'
        BY <2>1, CaseKept
    <2>3. Content(task') \in Contents
        BY <2>2, ContentType DEF CaseInv, CaseTypeOK
    <2>4. task'.conf = None /\ task'.state = "review"
        <3> DEFINE src == Published(procs[p].res).src
        <3>1. Published(procs[p].res).conf = None /\ Published(procs[p].res).state = "review"
            BY <1>1 DEF CaseTypeOK, TaskRows, Published
        <3>2. \A t : Save(t) => task'.conf = t.conf /\ task'.state = t.state
            BY DEF Save
        <3>3. QED
            BY <2>1, <3>1, <3>2
    <2>5. EditsTask
        BY <2>1, <2>3, <2>4 DEF EditsTask, Standing, Content
    <2>6. QED
        BY <1>1, <2>1, <2>5
<1>10. CASE Processing /\ ~\E p \in Procs : Publish(p)
    BY <1>10 DEF Processing, LeaseEnds, CommitPackage, Claim, BeginParse, Stage, GiveUp, Die
<1>11. CASE GenerateFails
    BY <1>11 DEF GenerateFails
<1>12. QED
    BY <1>3, <1>4, <1>5, <1>6, <1>7, <1>8, <1>9, <1>10, <1>11 DEF Unasked, Engine

-------------------------------------------------------------------------------
(* A change of the task outdates every view of it.                              *)

\* Nobody signs for a version that is still to come.
VersionInv == \A r \in Requests : envelopes[r] # None => envelopes[r].version <= task.version

\* What the contract says of the requests, with no envelope signed.
RequestsKept == UNCHANGED <<Asked, Told, stopped>>

LEMMA RequestsStay == UNCHANGED <<envelopes, replay, stopped>> => RequestsKept
BY DEF RequestsKept, Asked, Told

LEMMA FreshGone ==
    ASSUME CaseTypeOK, PathTypeOK, VersionInv, NewVersion, UNCHANGED envelopes
    PROVE  Fresh' = {}
<1>1. task.version \in Nat
    BY DEF CaseTypeOK, TaskRows
<1>2. ASSUME NEW r \in Requests, envelopes[r] # None
      PROVE  envelopes[r].version \in Nat /\ envelopes[r].version <= task.version
    BY <1>2 DEF PathTypeOK, VersionInv
<1>3. QED
    BY <1>1, <1>2 DEF NewVersion, Fresh

\* The contract's step, for a change that was asked for or was not.
LEMMA ChangeContract ==
    ASSUME NEW what, NewVersion, Fresh' = {}, RequestsKept,
           Outcome' = Outcome \/ Contract!Granted(what),
           \/ what = "edit" /\ EditsTask
           \/ what = "confirm" /\ Confirms
           \/ what = "cancel" /\ Cancels
           \/ what = "work" /\ (Works \/ Renders)
    PROVE  Contract!Next
<1>1. Contract!Changed(what)
    BY DEF NewVersion, RequestsKept, Contract!Changed
<1>2. outputs' = outputs => Artifacts' = Artifacts
    BY DEF Artifacts
<1>3. task.state # "cancelled"
    BY DEF NewVersion
<1>4. CASE what = "edit" /\ EditsTask
    <2>1. Contract!Edit
        BY <1>1, <1>2, <1>3, <1>4 DEF EditsTask, Contract!Edit
    <2>2. QED
        BY <2>1 DEF Contract!Next
<1>5. CASE what = "confirm" /\ Confirms
    <2>1. PICK mode \in Modes :
             /\ Contract!Complete(mode, Content(task))
             /\ Standing' = {[mode |-> mode, contents |-> Content(task)]}
        BY <1>5 DEF Confirms
    <2>2. Contract!Confirm(mode)
        BY <1>1, <1>2, <1>3, <1>5, <2>1 DEF Confirms, Contract!Confirm
    <2>3. QED
        BY <2>2 DEF Contract!Next, Modes
<1>6. CASE what = "cancel" /\ Cancels
    <2>1. Contract!Cancel
        BY <1>1, <1>2, <1>6 DEF Cancels, Contract!Cancel
    <2>2. QED
        BY <2>1 DEF Contract!Next
<1>7. CASE what = "work" /\ Works
    <2>1. Contract!Progress
        BY <1>1, <1>2, <1>3, <1>7 DEF Works, Contract!Progress, Contract!taskVars
    <2>2. QED
        BY <2>1 DEF Contract!Next
<1>8. CASE what = "work" /\ Renders
    <2>1. Contract!Render
        BY <1>1, <1>3, <1>8 DEF Renders, Contract!Render
    <2>2. QED
        BY <2>1 DEF Contract!Next
<1>9. QED
    BY <1>4, <1>5, <1>6, <1>7, <1>8

\* A step that leaves the task alone.
TaskKept == UNCHANGED <<Content(task), Standing, Artifacts, task.state = "cancelled">>

LEMMA TaskStays == UNCHANGED <<task, outputs>> => TaskKept
BY DEF TaskKept, Content, Standing, Artifacts

LEMMA UnaskedStep ==
    ASSUME IInv, VersionInv, Unasked, UNCHANGED <<envelopes, replay, answers, stopped>>
    PROVE  [Contract!Next]_Contract!vars
<1>1. RequestsKept /\ Outcome' = Outcome
    BY RequestsStay DEF Outcome
<1>2. CASE UNCHANGED <<task, outputs>>
    BY <1>1, <1>2, TaskStays
       DEF TaskKept, RequestsKept, Fresh, Contract!vars, Contract!taskVars, Contract!requestVars
<1>3. CASE NewVersion /\ (EditsTask \/ Works \/ Renders)
    <2>1. Fresh' = {}
        BY <1>3, FreshGone DEF IInv, CaseInv, PathInv
    <2>2. QED
        BY <1>1, <1>3, <2>1, ChangeContract
<1>4. QED
    BY <1>2, <1>3, UnaskedContract DEF IInv

LEMMA OtherStep ==
    ASSUME IInv, VersionInv, NEW op \in Ops, Other(op)
    PROVE  Contract!Next
<1>1. Allowed(op) /\ Dispatch(op) /\ UNCHANGED <<envelopes, replay, answers, stopped>>
    BY DEF Other, pathVars
<1>2. RequestsKept /\ Outcome' = Outcome
    BY <1>1, RequestsStay DEF Outcome
<1>3. /\ NewVersion
      /\ \/ Asks(op) = "edit" /\ EditsTask
         \/ Asks(op) = "confirm" /\ Confirms
         \/ Asks(op) = "cancel" /\ Cancels
    BY <1>1, DispatchContract DEF IInv
<1>4. Fresh' = {}
    BY <1>1, <1>3, FreshGone DEF IInv, CaseInv, PathInv
<1>5. QED
    BY <1>2, <1>3, <1>4, ChangeContract

-------------------------------------------------------------------------------
(* The steps of the path that leave the task alone.                             *)

\* A request is signed for the task as it is.
LEMMA SignStep ==
    ASSUME IInv, NEW r \in Requests, NEW op \in Ops, Sign(r, op)
    PROVE  Contract!Next
<1> DEFINE e == [op |-> op, version |-> task.version, at |-> now]
<1>1. /\ envelopes[r] = None /\ envelopes' = [envelopes EXCEPT ![r] = e]
      /\ UNCHANGED <<task, outputs, replay, answers, stopped>>
    BY DEF Sign, caseVars
<1>2. e \in [op : Ops, version : Nat, at : 0 .. MaxTime]
    BY DEF IInv, CaseInv, CaseTypeOK, TaskRows, PathInv, PathTypeOK
<1>3. e # None /\ e.op = op /\ e.version = task.version
    BY <1>2, RequestAssumption DEF Envelopes
<1> HIDE DEF e
<1>4. envelopes \in [Requests -> [op : Ops, version : Nat, at : 0 .. MaxTime] \cup {None}]
    BY DEF IInv, PathInv, PathTypeOK
<1>5. envelopes'[r] = e /\ \A q \in Requests \ {r} : envelopes'[q] = envelopes[q]
    BY <1>1, <1>4
<1>6. Asked' = [Asked EXCEPT ![r] = Asks(op)] /\ Asked[r] = "nothing"
    <2>1. Asked'[r] = Asks(op) /\ \A q \in Requests \ {r} : Asked'[q] = Asked[q]
        BY <1>3, <1>5 DEF Asked
    <2>2. QED
        BY <1>1, <2>1 DEF Asked
<1>7. Fresh' = Fresh \cup {r}
    BY <1>1, <1>3, <1>5 DEF Fresh
<1>8. TaskKept /\ Outcome' = Outcome /\ Told' = Told /\ stopped' = stopped
    BY <1>1, TaskStays DEF Outcome, Told
<1>9. Contract!Sign(r, Asks(op))
    BY <1>6, <1>7, <1>8 DEF TaskKept, Contract!Sign, Contract!taskVars
<1>10. Asks(op) \in {"edit", "confirm", "cancel"}
    BY DEF Asks
<1>11. QED
    BY <1>9, <1>10 DEF Contract!Next

\* A cancel of the task as it is is refused for one reason only, but it may fail.
LEMMA FailStep ==
    ASSUME IInv, NEW r \in Requests, envelopes[r] # None, Failed(r),
           UNCHANGED <<envelopes, replay, stopped>>
    PROVE  Contract!Refuse(r) \/ Contract!Fail(r)
<1>1. answers[r] = None /\ UNCHANGED <<task, outputs>>
    BY DEF Failed, caseVars
<1>2. TaskKept /\ RequestsKept /\ Fresh' = Fresh
    BY <1>1, TaskStays, RequestsStay DEF Fresh
<1>3. Asked[r] = Asks(envelopes[r].op) /\ Asked[r] # "nothing"
    BY DEF Asked, Asks
<1>4. ASSUME NEW e \in {"error", "storage_error"}, answers' = [answers EXCEPT ![r] = e]
      PROVE  Outcome[r] = "open" /\ Outcome' = [Outcome EXCEPT ![r] = Became[e]]
    <2>1. answers'[r] = e /\ \A q \in Requests \ {r} : answers'[q] = answers[q]
        BY <1>4 DEF IInv, PathInv, PathTypeOK
    <2>2. e # None
        BY RequestAssumption DEF Answers
    <2>3. QED
        BY <1>1, <2>1, <2>2 DEF Outcome
<1>5. CASE answers' = [answers EXCEPT ![r] = "storage_error"]
    <2>1. Outcome[r] = "open" /\ Outcome' = [Outcome EXCEPT ![r] = "failed"]
        BY <1>4, <1>5 DEF Became
    <2>2. QED
        BY <1>2, <1>3, <2>1 DEF TaskKept, RequestsKept, Contract!Fail, Contract!taskVars
<1>6. CASE /\ task.version # envelopes[r].version \/ ~Allowed(envelopes[r].op)
           /\ answers' = [answers EXCEPT ![r] = "error"]
    <2>1. Outcome[r] = "open" /\ Outcome' = [Outcome EXCEPT ![r] = "refused"]
        BY <1>4, <1>6 DEF Became
    <2>2. r \in Fresh /\ Asked[r] = "cancel" => task.state = "cancelled"
        <3>1. SUFFICES ASSUME r \in Fresh, Asks(envelopes[r].op) = "cancel"
                       PROVE  task.state = "cancelled"
            BY <1>3
        <3>2. envelopes[r].op = "cancel" /\ ~Allowed(envelopes[r].op)
            BY <1>6, <3>1 DEF Asks, Fresh
        <3>3. ~May("cancelled")
            BY <3>2 DEF Allowed, Modes
        <3>4. QED
            BY <3>3 DEF May, Transitions, IInv, CaseInv, CaseTypeOK, TaskRows, States
    <2>3. QED
        BY <1>2, <1>3, <2>1, <2>2 DEF TaskKept, RequestsKept, Contract!Refuse, Contract!taskVars
<1>7. QED
    BY <1>5, <1>6 DEF Failed

LEMMA HandleStep ==
    ASSUME IInv, VersionInv, NEW h \in Handlers, Handle(h)
    PROVE  [Contract!Next]_Contract!vars
<1> DEFINE r == handlers[h].req
<1>1. /\ Cached(r) \/ Executed(r) \/ Failed(r) \/ NotRun
      /\ UNCHANGED <<envelopes, replay, stopped>>
    BY DEF Handle
<1>2. r \in Requests /\ envelopes[r] # None
    BY DEF Handle, IInv, PathInv, PathTypeOK, HandlerRows, EnvelopeInv
<1>3. envelopes[r].op \in Ops
    BY <1>2 DEF IInv, PathInv, PathTypeOK
<1> HIDE DEF r
<1>4. RequestsKept
    BY <1>1, RequestsStay
<1>5. CASE Cached(r) \/ NotRun
    <2>1. UNCHANGED <<task, outputs, answers>>
        BY <1>5 DEF Cached, NotRun, caseVars
    <2>2. QED
        BY <1>1, <1>4, <2>1, TaskStays
           DEF TaskKept, RequestsKept, Fresh, Outcome, Contract!vars, Contract!taskVars,
               Contract!requestVars
<1>6. CASE Executed(r)
    <2> DEFINE what == Asks(envelopes[r].op)
    <2>1. /\ answers[r] = None /\ answers' = [answers EXCEPT ![r] = "ok"]
          /\ task.version = envelopes[r].version
          /\ Allowed(envelopes[r].op) /\ Dispatch(envelopes[r].op)
        BY <1>6 DEF Executed
    <2>2. /\ NewVersion
          /\ \/ what = "edit" /\ EditsTask
             \/ what = "confirm" /\ Confirms
             \/ what = "cancel" /\ Cancels
        BY <1>3, <2>1, DispatchContract DEF IInv
    <2>3. Fresh' = {}
        BY <1>1, <2>2, FreshGone DEF IInv, CaseInv, PathInv
    <2>4. Outcome[r] = "open" /\ Outcome' = [Outcome EXCEPT ![r] = "granted"]
        <3>1. answers'[r] = "ok" /\ \A q \in Requests \ {r} : answers'[q] = answers[q]
            BY <1>2, <2>1 DEF IInv, PathInv, PathTypeOK
        <3>2. Outcome[r] = "open" /\ Outcome'[r] = "granted"
            BY <1>2, <2>1, <3>1, RequestAssumption DEF Outcome, Became, Answers
        <3>3. \A q \in Requests \ {r} : Outcome'[q] = Outcome[q]
            BY <3>1 DEF Outcome
        <3>4. QED
            BY <3>2, <3>3 DEF Outcome
    <2>5. r \in Fresh /\ Asked[r] = what
        BY <1>2, <2>1 DEF Fresh, Asked
    <2>6. Contract!Granted(what)
        BY <2>4, <2>5 DEF Contract!Granted
    <2> HIDE DEF what
    <2>7. QED
        BY <1>4, <2>2, <2>3, <2>6, ChangeContract
<1>7. CASE Failed(r)
    BY <1>1, <1>2, <1>7, FailStep DEF Contract!Next
<1>8. QED
    BY <1>1, <1>5, <1>6, <1>7

LEMMA StopStep ==
    ASSUME IInv, NEW h \in Handlers, StopJobs(h)
    PROVE  Contract!Next
<1> DEFINE r == handlers[h].req
<1>1. /\ envelopes[r].op = "cancel" /\ handlers[h].ok /\ stopped' = TRUE
      /\ UNCHANGED <<task, outputs, envelopes, replay, answers>>
    BY DEF StopJobs, Stops, caseVars
<1>2. r \in Requests /\ envelopes[r] # None /\ answers[r] = "ok"
    BY <1>1 DEF StopJobs, IInv, PathInv, PathTypeOK, HandlerRows, HandlerInv, EnvelopeInv
<1> HIDE DEF r
<1>3. Contract!IsCancel(r)
    BY <1>1, <1>2, RequestAssumption
       DEF Contract!IsCancel, Asked, Asks, Outcome, Became, Modes, Answers
<1>4. /\ TaskKept /\ Asked' = Asked /\ Fresh' = Fresh /\ Outcome' = Outcome /\ Told' = Told
    BY <1>1, TaskStays DEF Asked, Fresh, Outcome, Told
<1>5. Contract!Stop
    BY <1>1, <1>2, <1>3, <1>4 DEF TaskKept, Contract!Stop, Contract!taskVars
<1>6. QED
    BY <1>5 DEF Contract!Next

\* A request is called granted if it was, and a cancel only after the stop; any other
\* completion calls it refused.
LEMMA CompleteStep ==
    ASSUME IInv, NEW h \in Handlers, Complete(h)
    PROVE  [Contract!Next]_Contract!vars
<1> DEFINE r  == handlers[h].req
           ok == handlers[h].ok
<1>1. /\ replay' = Ended(r, ok)
      /\ envelopes[r].op = "cancel" /\ ok => handlers[h].step = "stopped"
      /\ UNCHANGED <<task, outputs, envelopes, answers, stopped>>
    BY DEF Complete, Stops, caseVars
<1>2. /\ r \in Requests /\ envelopes[r] # None /\ ok \in BOOLEAN
      /\ ok => answers[r] = "ok" /\ (envelopes[r].op = "cancel" => stopped)
    BY <1>1 DEF Complete, IInv, PathInv, PathTypeOK, HandlerRows, HandlerInv, EnvelopeInv
<1> HIDE DEF r, ok
<1>3. TaskKept /\ Asked' = Asked /\ Fresh' = Fresh /\ Outcome' = Outcome
    BY <1>1, TaskStays DEF Asked, Fresh, Outcome
<1>4. CASE replay[r] # None /\ replay[r].state = "reserved"
    <2> DEFINE state == IF ok THEN "completed" ELSE "rejected"
               row   == [replay[r] EXCEPT !.state = state]
    <2>1. row \in Receipts /\ row.state = state /\ replay' = [replay EXCEPT ![r] = row]
        BY <1>1, <1>2, <1>4 DEF Ended, Receipts, IInv, PathInv, PathTypeOK
    <2>2. row # None
        BY <2>1, RequestAssumption
    <2> HIDE DEF row
    <2>3. replay'[r] = row /\ \A q \in Requests \ {r} : replay'[q] = replay[q]
        BY <1>2, <2>1 DEF IInv, PathInv, PathTypeOK
    <2>4. Told' = [Told EXCEPT ![r] = Word[state]] /\ Told[r] = "nothing"
        <3>1. Told'[r] = Word[state] /\ \A q \in Requests \ {r} : Told'[q] = Told[q]
            BY <1>2, <2>1, <2>2, <2>3 DEF Told
        <3>2. Told[r] = "nothing"
            BY <1>2, <1>4 DEF Told, Word
        <3>3. QED
            BY <3>1, <3>2 DEF Told
    <2>5. CASE ok
        <3>1. Outcome[r] = "granted" /\ Word[state] = "granted"
            BY <1>2, <2>5, RequestAssumption DEF Outcome, Became, Word, Answers
        <3>2. Contract!IsCancel(r) => stopped
            BY <1>2, <2>5 DEF Contract!IsCancel, Asked, Asks, Modes
        <3>3. Contract!Tell(r)
            BY <1>1, <1>3, <2>4, <3>1, <3>2 DEF TaskKept, Contract!Tell, Contract!taskVars
        <3>4. QED
            BY <1>2, <3>3 DEF Contract!Next
    <2>6. CASE ~ok
        <3>1. Word[state] = "refused" /\ Asked[r] # "nothing"
            BY <1>2, <2>6 DEF Word, Asked, Asks
        <3>2. Contract!Deny(r)
            BY <1>1, <1>3, <2>4, <3>1 DEF TaskKept, Contract!Deny, Contract!taskVars
        <3>3. QED
            BY <1>2, <3>2 DEF Contract!Next
    <2>7. QED
        BY <2>5, <2>6
<1>5. CASE ~(replay[r] # None /\ replay[r].state = "reserved")
    <2>1. Told' = Told /\ stopped' = stopped
        BY <1>1, <1>5 DEF Ended, Told
    <2>2. QED
        BY <1>3, <2>1 DEF TaskKept, Contract!vars, Contract!taskVars, Contract!requestVars
<1>6. QED
    BY <1>4, <1>5

\* A delivery enters, leaves, is refused or forgotten; the clock is set; a restart.
LEMMA LedgerStep ==
    ASSUME IInv, VersionInv,
           \/ \E r \in Requests : Refuse(r) \/ Collect(r)
           \/ \E h \in Handlers :
                 Leave(h) \/ \E r \in Requests : Reserve(h, r) \/ Redeliver(h, r)
           \/ Restart \/ \E t \in 0 .. MaxTime : SetClock(t)
    PROVE  [Contract!Next]_Contract!vars
<1>1. ASSUME UNCHANGED <<task, outputs, envelopes, answers, stopped>>, Told' = Told
      PROVE  UNCHANGED Contract!vars
    BY <1>1, TaskStays
       DEF TaskKept, Asked, Fresh, Outcome, Contract!vars, Contract!taskVars, Contract!requestVars
<1>2. ASSUME NEW r \in Requests, Collect(r) PROVE Contract!Next
    <2>1. /\ replay' = [replay EXCEPT ![r] = None]
          /\ UNCHANGED <<task, outputs, envelopes, answers, stopped>>
        BY <1>2 DEF Collect, caseVars
    <2>2. replay'[r] = None /\ \A q \in Requests \ {r} : replay'[q] = replay[q]
        BY <2>1 DEF IInv, PathInv, PathTypeOK
    <2>3. Told' = [Told EXCEPT ![r] = "nothing"]
        <3>1. Told'[r] = "nothing" /\ \A q \in Requests \ {r} : Told'[q] = Told[q]
            BY <2>2 DEF Told
        <3>2. QED
            BY <3>1 DEF Told
    <2>4. Contract!Forget(r)
        BY <2>1, <2>3, TaskStays
           DEF TaskKept, Asked, Fresh, Outcome, Contract!Forget, Contract!taskVars
    <2>5. QED
        BY <2>4 DEF Contract!Next
<1>3. ASSUME NEW h \in Handlers, NEW r \in Requests, Reserve(h, r) PROVE UNCHANGED Contract!vars
    <2> DEFINE row == [state |-> "reserved", until |-> now + Retain]
    <2>1. /\ replay[r] = None /\ replay' = [replay EXCEPT ![r] = row]
          /\ UNCHANGED <<task, outputs, envelopes, answers, stopped>>
        BY <1>3 DEF Reserve, caseVars
    <2>2. row.state = "reserved"
        OBVIOUS
    <2> HIDE DEF row
    <2>3. replay'[r].state = "reserved" /\ \A q \in Requests \ {r} : replay'[q] = replay[q]
        BY <2>1, <2>2 DEF IInv, PathInv, PathTypeOK
    <2>4. Told' = Told
        BY <2>1, <2>3 DEF Told, Word
    <2>5. QED
        BY <1>1, <2>1, <2>4
<1>4. ASSUME NEW h \in Handlers,
             Leave(h) \/ \E r \in Requests : Redeliver(h, r) \/ Refuse(r)
      PROVE  UNCHANGED Contract!vars
    <2>1. UNCHANGED <<task, outputs, envelopes, answers, stopped, replay>>
        BY <1>4 DEF Leave, Redeliver, Refuse, caseVars
    <2>2. QED
        BY <1>1, <2>1 DEF Told
<1>5. CASE (\E r \in Requests : Refuse(r)) \/ \E t \in 0 .. MaxTime : SetClock(t)
    <2>1. UNCHANGED <<task, outputs, envelopes, answers, stopped, replay>>
        BY <1>5 DEF SetClock, Refuse, caseVars
    <2>2. QED
        BY <1>1, <2>1 DEF Told
<1>6. CASE Restart
    <2>1. Unasked /\ UNCHANGED <<envelopes, replay, answers, stopped>>
        BY <1>6 DEF Restart, Unasked
    <2>2. QED
        BY <2>1, UnaskedStep
<1>7. QED
    BY <1>2, <1>3, <1>4, <1>5, <1>6

-------------------------------------------------------------------------------
(* The theorem.                                                                 *)

LEMMA ContractStep ==
    ASSUME IInv, VersionInv, [Next]_vars
    PROVE  [Contract!Next]_Contract!vars
<1>1. CASE UNCHANGED vars
    BY <1>1, TaskStays
       DEF vars, caseVars, pathVars, TaskKept, Asked, Fresh, Outcome, Told,
           Contract!vars, Contract!taskVars, Contract!requestVars
<1>2. CASE (Engine \/ Processing) /\ UNCHANGED pathVars
    BY <1>2, UnaskedStep DEF Unasked, pathVars
<1>3. ASSUME NEW op \in Ops, Other(op) \/ \E r \in Requests : Sign(r, op)
      PROVE  Contract!Next
    BY <1>3, OtherStep, SignStep
<1>4. ASSUME NEW h \in Handlers, Handle(h) \/ StopJobs(h) \/ Complete(h)
      PROVE  [Contract!Next]_Contract!vars
    BY <1>4, HandleStep, StopStep, CompleteStep
<1>5. QED
    BY <1>1, <1>2, <1>3, <1>4, LedgerStep DEF Next

\* The version of the task only grows, and a request is signed for the one it is at.
LEMMA VersionKept ==
    ASSUME IInv, VersionInv, [Next]_vars
    PROVE  VersionInv'
<1>1. CaseStep /\ PathSteps
    BY PathIsCase DEF IInv
<1>2. task.version \in Nat /\ task'.version \in Nat /\ task'.version >= task.version
    <2>1. NewVersion \/ task' = task
        BY <1>1, CaseVersion DEF IInv, CaseInv
    <2>2. task.version \in Nat
        BY DEF IInv, CaseInv, CaseTypeOK, TaskRows
    <2>3. QED
        BY <2>1, <2>2 DEF NewVersion
<1>3. ASSUME NEW r \in Requests, envelopes[r] # None
      PROVE  envelopes[r].version \in Nat /\ envelopes[r].version <= task.version
    BY <1>3 DEF IInv, PathInv, PathTypeOK, VersionInv
<1>4. CASE envelopes' = envelopes
    BY <1>2, <1>3, <1>4 DEF VersionInv
<1>5. ASSUME NEW r \in Requests, NEW op \in Ops, Sign(r, op) PROVE VersionInv'
    <2> DEFINE e == [op |-> op, version |-> task.version, at |-> now]
    <2>1. envelopes' = [envelopes EXCEPT ![r] = e] /\ task' = task /\ e.version = task.version
        BY <1>5 DEF Sign, caseVars
    <2> HIDE DEF e
    <2>2. \A q \in Requests : envelopes'[q] = IF q = r THEN e ELSE envelopes[q]
        BY <2>1 DEF IInv, PathInv, PathTypeOK
    <2>3. QED
        BY <1>2, <1>3, <2>1, <2>2 DEF VersionInv
<1>6. envelopes' = envelopes \/ \E r \in Requests, op \in Ops : Sign(r, op)
    BY <1>1 DEF PathSteps, pathVars, Refuse, Collect, Reserve, Redeliver, Handle, StopJobs,
                Complete, Leave, Restart, SetClock
<1>7. QED
    BY <1>4, <1>5, <1>6

LEMMA ContractStart ==
    ASSUME Init
    PROVE  Contract!Init /\ VersionInv
<1>1. /\ CaseInv /\ task.conf = None /\ outputs = {} /\ task.state = "collecting"
    BY CaseStart DEF Init, CaseInit
<1>2. /\ envelopes = [r \in Requests |-> None] /\ replay = [r \in Requests |-> None]
      /\ answers = [r \in Requests |-> None] /\ stopped = FALSE
    BY DEF Init
<1>3. Content(task) \in Contents /\ Standing = {} /\ Artifacts = {}
    BY <1>1, ContentType DEF CaseInv, CaseTypeOK, Standing, Artifacts
<1>4. /\ Asked = [r \in Requests |-> "nothing"] /\ Fresh = {} /\ VersionInv
      /\ Outcome = [r \in Requests |-> "open"] /\ Told = [r \in Requests |-> "nothing"]
    BY <1>2 DEF Asked, Fresh, Outcome, Told, VersionInv
<1>5. QED
    BY <1>1, <1>2, <1>3, <1>4 DEF Contract!Init

\* However deliveries, restarts, the clock, the engine and the processors interleave:
\* a request is carried out at most once, and only on the version its signer saw; the
\* ledger calls it completed only if it was, after the jobs of a cancel were stopped; an
\* artifact is what was confirmed; and a cancelled task stays (Application.handle,
\* ControllerBridge.handle, Engine.generate, IdentityLedger.complete).
THEOREM ContractKept == Spec => ContractSpec
<1>1. Init => IInv /\ VersionInv /\ Contract!Init
    BY CaseStart, PathStart, ContractStart DEF Init, IInv
<1>2. IInv /\ VersionInv /\ [Next]_vars => IInv' /\ VersionInv'
    BY IInvKept, VersionKept
<1>3. IInv /\ VersionInv /\ [Next]_vars => [Contract!Next]_Contract!vars
    BY ContractStep
<1>4. QED
    BY <1>1, <1>2, <1>3, PTL DEF Spec, ContractSpec, Contract!Spec
===============================================================================
