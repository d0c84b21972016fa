---------------------------- MODULE RequestPathProofs ---------------------------
(*****************************************************************************)
(* Proofs about RequestPath and the CaseTask it is composed with, for any       *)
(* number of sources, batches, processors, requests and deliveries.             *)
(*****************************************************************************)
EXTENDS RequestPath, TLAPS

-------------------------------------------------------------------------------
(* The task row.                                                               *)

\* The contents of a row, and what stays when only its state moves on.
SameContent(t, u) ==
    t.src = u.src /\ t.design = u.design /\ t.p0 = u.p0 /\ t.msgs = u.msgs

LEMMA ContentType == ASSUME NEW t \in TaskRows PROVE Content(t) \in Contents
BY DEF TaskRows, SourceRows, Content, Contents

LEMMA ContentSame ==
    ASSUME NEW t, NEW u, SameContent(t, u)
    PROVE  Content(t) = Content(u)
BY DEF SameContent, Content

LEMMA SaveType ==
    ASSUME NEW t \in TaskRows, Save(t)
    PROVE  /\ task' \in TaskRows /\ task'.state = t.state /\ task'.conf = t.conf
           /\ task'.version = t.version + 1 /\ SameContent(task', t)
BY DEF TaskRows, Save, SameContent

LEMMA EditedType ==
    ASSUME task \in TaskRows
    PROVE  /\ Edited \in TaskRows /\ Edited.conf = None /\ SameContent(Edited, task)
           /\ Edited.state = "cancelled" => task.state = "cancelled"
BY DEF TaskRows, States, Edited, SameContent

\* What a step makes of the task.
Moves ==
    /\ task' \in TaskRows /\ SameContent(task', task)
    /\ task'.conf \in {None, task.conf}

\* No step but a cancel cancels, and an edit withdraws the confirmation.
Alive == task'.state = "cancelled" => task.state = "cancelled"

Edits == task' \in TaskRows /\ task'.conf = None /\ Alive

LEMMA AppendTask ==
    ASSUME CaseTypeOK, Append
    PROVE  /\ Edits
           /\ \E s \in Sources, k \in Kinds, b \in Batches :
                 /\ batches[b].status \in {"none", "open"}
                 /\ task.src[s].batch = None
                 /\ task'.src = [task.src EXCEPT ![s] =
                                    [kind |-> k, batch |-> b, status |-> "pending"]]
                 /\ batches' = [batches EXCEPT ![b] =
                                   [status |-> "open", srcs |-> @.srcs \cup {s}]]
<1>1. PICK s \in Sources, k \in Kinds, b \in IF OpenBatch # {} THEN OpenBatch ELSE NewBatch :
          /\ task.src[s].batch = None
          /\ Save([Edited EXCEPT !.src[s] = [kind |-> k, batch |-> b, status |-> "pending"]])
          /\ batches' = [batches EXCEPT ![b] = [status |-> "open", srcs |-> @.srcs \cup {s}]]
    BY DEF Append
<1>2. b \in Batches /\ batches[b].status \in {"none", "open"}
    BY DEF OpenBatch, NewBatch
<1> DEFINE row == [kind |-> k, batch |-> b, status |-> "pending"]
           t   == [Edited EXCEPT !.src[s] = row]
<1>3. row \in SourceRows
    BY <1>2 DEF SourceRows
<1>4. /\ t \in TaskRows /\ t.conf = None /\ t.src = [Edited.src EXCEPT ![s] = row]
      /\ Edited.src = task.src /\ t.state = Edited.state
    BY <1>3, EditedType DEF CaseTypeOK, TaskRows, SameContent
<1>5. Edits /\ task'.src = [task.src EXCEPT ![s] = row]
    BY <1>1, <1>4, EditedType, SaveType DEF CaseTypeOK, Edits, Alive, SameContent
<1>6. QED
    BY <1>1, <1>2, <1>5

\* The conclusions are dropped; d and p are variables for the provers' sake.
LEMMA RowType ==
    ASSUME NEW t \in TaskRows, NEW st \in States, NEW src \in [Sources -> SourceRows],
           NEW d \in 0 .. 2, NEW p \in BOOLEAN
    PROVE  [t EXCEPT !.state = st, !.src = src, !.design = d, !.p0 = p] \in TaskRows
BY DEF TaskRows

LEMMA RefreshEqual ==
    ASSUME NEW t \in TaskRows, NEW src \in [Sources -> SourceRows],
           NEW d \in 0 .. 2, NEW p \in BOOLEAN
    PROVE  [t EXCEPT !.src = src, !.design = d, !.p0 = p]
              = [t EXCEPT !.state = t.state, !.src = src, !.design = d, !.p0 = p]
BY DEF TaskRows

LEMMA ResetEqual ==
    ASSUME NEW t \in TaskRows, NEW st \in States, NEW d \in 0 .. 2, NEW p \in BOOLEAN
    PROVE  [t EXCEPT !.state = st, !.design = d, !.p0 = p]
              = [t EXCEPT !.state = st, !.src = t.src, !.design = d, !.p0 = p]
BY DEF TaskRows

LEMMA DropType ==
    ASSUME NEW t \in TaskRows, NEW st \in States, NEW src \in [Sources -> SourceRows], NEW u,
           u = [t EXCEPT !.state = st, !.src = src, !.design = 0, !.p0 = FALSE]
    PROVE  u \in TaskRows
<1>1. 0 \in 0 .. 2 /\ FALSE \in BOOLEAN
    OBVIOUS
<1>2. [t EXCEPT !.state = st, !.src = src, !.design = 0, !.p0 = FALSE] \in TaskRows
    BY <1>1, RowType, Zenon
<1>3. QED
    BY <1>2

LEMMA FinishTask ==
    ASSUME CaseTypeOK, Finish
    PROVE  Moves /\ Edits
<1> DEFINE t == [Edited EXCEPT !.state = IF @ = "collecting" THEN "review" ELSE @]
<1>1. /\ t \in TaskRows /\ t.conf = None /\ SameContent(t, task)
      /\ t.state = "cancelled" => task.state = "cancelled"
    BY EditedType DEF CaseTypeOK, TaskRows, States, SameContent
<1>2. QED
    BY <1>1, SaveType DEF Finish, Moves, Edits, Alive, SameContent

LEMMA RefreshTask ==
    ASSUME CaseTypeOK, Refresh
    PROVE  /\ Edits
           /\ \E s \in Refreshable, b \in NewBatch :
                 /\ task'.src = [task.src EXCEPT ![s].batch = b, ![s].status = "pending"]
                 /\ batches' = [batches EXCEPT ![b] = [status |-> "open", srcs |-> {s}]]
<1>1. PICK s \in Refreshable, b \in NewBatch :
          /\ Save([Edited EXCEPT !.src = [Edited.src EXCEPT ![s].batch = b, ![s].status = "pending"],
                                 !.design = 0, !.p0 = FALSE])
          /\ batches' = [batches EXCEPT ![b] = [status |-> "open", srcs |-> {s}]]
    BY DEF Refresh
<1>2. b \in Batches /\ s \in Sources
    BY DEF NewBatch, Refreshable
<1> DEFINE src == [Edited.src EXCEPT ![s].batch = b, ![s].status = "pending"]
           t   == [Edited EXCEPT !.src = src, !.design = 0, !.p0 = FALSE]
<1>3. /\ Edited.src = task.src /\ Edited \in TaskRows /\ Edited.conf = None
      /\ Edited.state \in States /\ 0 \in 0 .. 2 /\ FALSE \in BOOLEAN
    BY EditedType DEF CaseTypeOK, TaskRows, SameContent
<1>4. src \in [Sources -> SourceRows]
    BY <1>2, <1>3 DEF TaskRows, SourceRows
<1>5. t \in TaskRows /\ t.conf = Edited.conf /\ t.src = src /\ t.state = Edited.state
    <2> HIDE DEF src
    <2>1. t = [Edited EXCEPT !.state = Edited.state, !.src = src, !.design = 0, !.p0 = FALSE]
        BY <1>3, <1>4, RefreshEqual, Zenon
    <2> HIDE DEF t
    <2>2. t \in TaskRows
        BY <1>3, <1>4, <2>1, DropType, Zenon
    <2>3. t.conf = Edited.conf
        BY <1>3, <2>1, Zenon DEF TaskRows
    <2>4. t.src = src
        BY <1>3, <2>1, Zenon DEF TaskRows
    <2>5. t.state = Edited.state
        BY <1>3, <2>1, Zenon DEF TaskRows
    <2>6. QED
        BY <2>2, <2>3, <2>4, <2>5
<1>6. src = [task.src EXCEPT ![s].batch = b, ![s].status = "pending"]
    BY <1>3
<1>7. QED
    BY <1>1, <1>3, <1>5, <1>6, EditedType, SaveType DEF CaseTypeOK, Edits, Alive, SameContent

LEMMA MessageTask ==
    ASSUME CaseTypeOK, Message
    PROVE  Edits /\ task'.src = task.src
<1> DEFINE t == [Edited EXCEPT !.msgs = TRUE]
<1>1. /\ t \in TaskRows /\ t.conf = None /\ t.src = task.src
      /\ t.state = "cancelled" => task.state = "cancelled"
    BY EditedType DEF CaseTypeOK, TaskRows, SameContent
<1>2. QED
    BY <1>1, SaveType DEF Message, Edits, Alive, SameContent

LEMMA ConfirmTask ==
    ASSUME CaseTypeOK, NEW mode \in Modes, Confirm(mode)
    PROVE  /\ task' \in TaskRows /\ SameContent(task', task) /\ task'.state = task.state
           /\ task'.conf.asked = Content(task)
<1> DEFINE c == [mode |-> mode, version |-> task.version + 1, asked |-> Content(task)]
<1>1. c \in Confirmations /\ c.asked = Content(task)
    BY ContentType DEF CaseTypeOK, TaskRows, Confirmations
<1>2. /\ Confirmed(mode) \in TaskRows /\ Confirmed(mode).conf = c
      /\ SameContent(Confirmed(mode), task) /\ Confirmed(mode).state = task.state
    BY <1>1 DEF CaseTypeOK, TaskRows, Confirmed, SameContent
<1>3. QED
    BY <1>1, <1>2, SaveType DEF Confirm, SameContent

LEMMA ResetTask ==
    ASSUME CaseTypeOK, Reset
    PROVE  Edits /\ task'.src = task.src
<1> DEFINE st == IF Edited.state = "collecting" THEN "review" ELSE Edited.state
           t  == [Edited EXCEPT !.state = st, !.design = 0, !.p0 = FALSE]
<1>1. /\ Edited \in TaskRows /\ Edited.conf = None /\ Edited.src = task.src
      /\ Edited.src \in [Sources -> SourceRows] /\ 0 \in 0 .. 2 /\ FALSE \in BOOLEAN
    BY EditedType DEF CaseTypeOK, TaskRows, SameContent
<1>2. st \in States
    BY <1>1 DEF States, TaskRows
<1> HIDE DEF st
<1>3. t = [Edited EXCEPT !.state = st, !.src = Edited.src, !.design = 0, !.p0 = FALSE]
    BY <1>1, <1>2, ResetEqual, Zenon
<1>4. t \in TaskRows /\ t.conf = Edited.conf /\ t.src = Edited.src /\ t.state = st
    <2> HIDE DEF t
    <2>1. t \in TaskRows
        BY <1>1, <1>2, <1>3, DropType, Zenon
    <2>2. t.conf = Edited.conf
        BY <1>1, <1>3, Zenon DEF TaskRows
    <2>3. t.src = Edited.src
        BY <1>1, <1>3, Zenon DEF TaskRows
    <2>4. t.state = st
        BY <1>1, <1>3, Zenon DEF TaskRows
    <2>5. QED
        BY <2>1, <2>2, <2>3, <2>4
<1>5. st = "cancelled" => task.state = "cancelled"
    BY EditedType DEF CaseTypeOK, st
<1>6. Save(t)
    BY DEF Reset, st
<1> HIDE DEF t
<1>7. QED
    BY <1>1, <1>4, <1>5, <1>6, SaveType DEF Edits, Alive, SameContent

LEMMA CancelTask ==
    ASSUME CaseTypeOK, Cancel
    PROVE  Moves /\ task'.conf = None /\ task'.state = "cancelled"
<1> DEFINE t == [task EXCEPT !.state = "cancelled", !.conf = None]
<1>1. t \in TaskRows /\ t.conf = None /\ SameContent(t, task) /\ t.state = "cancelled"
    BY DEF CaseTypeOK, TaskRows, States, SameContent
<1>2. QED
    BY <1>1, SaveType DEF Cancel, Moves, SameContent

\* StartReview, Ready, BeginGenerate and FinishGenerate move the state.
LEMMA MoveTask ==
    ASSUME CaseTypeOK, NEW target \in States, NEW c \in {None, task.conf},
           Save([task EXCEPT !.state = target, !.conf = c])
    PROVE  Moves /\ task'.state = target
<1> DEFINE t == [task EXCEPT !.state = target, !.conf = c]
<1>1. t \in TaskRows /\ t.conf = c /\ SameContent(t, task) /\ t.state = target
    BY DEF CaseTypeOK, TaskRows, SameContent
<1>2. QED
    BY <1>1, SaveType DEF Moves, SameContent

LEMMA ReviewTask ==
    ASSUME CaseTypeOK, (\E d \in 1 .. 2 : Design(d)) \/ Ask \/ Answer
    PROVE  Edits /\ task'.src = task.src
<1>1. ASSUME NEW d \in 1 .. 2, Design(d) PROVE Edits /\ task'.src = task.src
    <2> DEFINE t == [Edited EXCEPT !.design = d]
    <2>1. /\ t \in TaskRows /\ t.conf = None /\ t.src = task.src
          /\ t.state = "cancelled" => task.state = "cancelled"
        BY EditedType DEF CaseTypeOK, TaskRows, SameContent
    <2>2. QED
        BY <1>1, <2>1, SaveType DEF Design, Edits, Alive, SameContent
<1>2. ASSUME NEW v \in BOOLEAN, Save([Edited EXCEPT !.p0 = v])
      PROVE  Edits /\ task'.src = task.src
    <2> DEFINE t == [Edited EXCEPT !.p0 = v]
    <2>1. /\ t \in TaskRows /\ t.conf = None /\ t.src = task.src
          /\ t.state = "cancelled" => task.state = "cancelled"
        BY EditedType DEF CaseTypeOK, TaskRows, SameContent
    <2>2. QED
        BY <1>2, <2>1, SaveType DEF Edits, Alive, SameContent
<1>3. QED
    BY <1>1, <1>2 DEF Ask, Answer

-------------------------------------------------------------------------------
(* The steps of CaseTask.                                                      *)

Dispatched == \E op \in Ops : Allowed(op) /\ Dispatch(op)

CaseStep == Engine \/ Processing \/ Recover \/ Dispatched \/ UNCHANGED caseVars

\* What Application dispatches, with what it checked first.
LEMMA Dispatches ==
    ASSUME Dispatched
    PROVE  \/ Editable /\ (Append \/ Finish \/ Refresh \/ Message \/ Reset)
           \/ \E mode \in Modes : Confirmable(mode) /\ Confirm(mode)
           \/ May("cancelled") /\ Cancel
<1>1. PICK op \in Ops : Allowed(op) /\ Dispatch(op)
    BY DEF Dispatched
<1>2. CASE op = "append"
    BY <1>1, <1>2 DEF Allowed, Dispatch, Modes
<1>3. CASE op = "finish"
    BY <1>1, <1>3 DEF Allowed, Dispatch, Modes
<1>4. CASE op = "refresh"
    BY <1>1, <1>4 DEF Allowed, Dispatch, Modes
<1>5. CASE op \in Modes
    <2>1. op \notin {"append", "finish", "refresh", "message", "reset", "cancel"}
        BY <1>5 DEF Modes
    <2>2. Allowed(op) = Confirmable(op)
        BY <1>5, <2>1 DEF Allowed
    <2>3. QED
        BY <1>1, <1>5, <2>1, <2>2 DEF Dispatch
<1>6. CASE op = "cancel"
    BY <1>1, <1>6 DEF Allowed, Dispatch, Modes
<1>7. CASE op \in {"message", "reset"}
    <2>1. Allowed(op) = Editable
        BY <1>7 DEF Allowed, Modes
    <2>2. QED
        BY <1>1, <1>7, <2>1 DEF Dispatch, Modes
<1>8. QED
    BY <1>2, <1>3, <1>4, <1>5, <1>6, <1>7 DEF Ops, Modes

\* Steps of the task row alone.
TaskStep ==
    /\ OnlyTask
    /\ \/ \E mode \in Modes : Confirmable(mode) /\ Confirm(mode)
       \/ Editable /\ (Message \/ Reset)
       \/ StartReview \/ Ask \/ Answer \/ Ready \/ \E d \in 1 .. 2 : Design(d)

Generating == (\E mode \in Modes : BeginGenerate(mode)) \/ FinishGenerate \/ GenerateFails

LEMMA CaseSteps ==
    ASSUME CaseStep
    PROVE  \/ TaskStep \/ Generating \/ Recover \/ UNCHANGED caseVars
           \/ Editable /\ (Append \/ Finish \/ Refresh)
           \/ May("cancelled") /\ Cancel
           \/ \E b \in Batches : LeaseEnds(b) \/ \E s \in Sources : CommitPackage(b, s)
           \/ \E p \in Procs :
                 \/ \E b \in Batches : Claim(p, b)
                 \/ BeginParse(p) \/ Stage(p) \/ Publish(p) \/ GiveUp(p) \/ Die(p)
<1>1. CASE Engine
    BY <1>1 DEF Engine, Generating, TaskStep, StartReview, Ask, Answer, Ready, Design
<1>2. CASE Dispatched
    BY <1>2, Dispatches DEF TaskStep, Message, Confirm, Reset
<1>3. CASE Processing
    BY <1>3 DEF Processing
<1>4. QED
    BY <1>1, <1>2, <1>3 DEF CaseStep

-------------------------------------------------------------------------------
(* A cancelled task.                                                           *)

LEMMA CancelledStays ==
    ASSUME CaseTypeOK, CaseStep, task.state = "cancelled"
    PROVE  UNCHANGED <<task, batches, packages, staging, manifest, outputs>>
<1>1. ~May("review") /\ ~May("ready") /\ ~May("generating") /\ ~May("generated")
      /\ ~May("cancelled") /\ ~Editable
    BY DEF May, Transitions, Editable
<1>2. ~TaskStep
    BY <1>1 DEF TaskStep, Confirmable, StartReview, Ask, Answer, Ready, Design, Reviewing
<1>3. CASE Generating
    BY <1>1, <1>3 DEF Generating, BeginGenerate, FinishGenerate, GenerateFails
<1>4. CASE Recover
    BY <1>4 DEF Recover
<1>5. ASSUME NEW b \in Batches, LeaseEnds(b) \/ \E s \in Sources : CommitPackage(b, s)
      PROVE  UNCHANGED <<task, batches, packages, staging, manifest, outputs>>
    BY <1>5 DEF LeaseEnds, CommitPackage
<1>6. ASSUME NEW p \in Procs,
             \/ \E b \in Batches : Claim(p, b)
             \/ BeginParse(p) \/ Stage(p) \/ Publish(p) \/ GiveUp(p) \/ Die(p)
      PROVE  UNCHANGED <<task, batches, packages, staging, manifest, outputs>>
    BY <1>6 DEF Claim, BeginParse, Stage, Publish, Holds, GiveUp, Die
<1>7. QED
    BY <1>1, <1>2, <1>3, <1>4, <1>5, <1>6, CaseSteps DEF caseVars

-------------------------------------------------------------------------------
(* Types of a step.                                                            *)

\* The task: its row, and the confirmation of it.
ConfInv == task.conf # None => task.conf.asked = Content(task)

LEMMA MovesConf ==
    ASSUME ConfInv, Moves
    PROVE  ConfInv'
<1>1. Content(task)' = Content(task)
    BY ContentSame DEF Moves, SameContent, Content
<1>2. QED
    BY <1>1 DEF ConfInv, Moves

LEMMA EditsConf == Edits => ConfInv'
BY DEF ConfInv, Edits

LEMMA TaskStepType ==
    ASSUME CaseTypeOK, ConfInv, TaskStep
    PROVE  task' \in TaskRows /\ ConfInv' /\ task'.src = task.src /\ Alive
<1>1. ASSUME NEW mode \in Modes, Confirm(mode)
      PROVE  task' \in TaskRows /\ ConfInv' /\ task'.src = task.src /\ Alive
    <2>1. /\ task' \in TaskRows /\ SameContent(task', task)
          /\ task'.conf.asked = Content(task) /\ task'.state = task.state
        BY <1>1, ConfirmTask
    <2>2. Content(task)' = Content(task)
        BY <2>1 DEF SameContent, Content
    <2>3. QED
        BY <2>1, <2>2 DEF ConfInv, SameContent, Alive
<1>2. CASE Message \/ Reset
    BY <1>2, MessageTask, ResetTask, EditsConf DEF Edits
<1>3. CASE (\E d \in 1 .. 2 : Design(d)) \/ Ask \/ Answer
    BY <1>3, ReviewTask, EditsConf DEF Edits
<1>4. CASE StartReview
    <2>1. Save([task EXCEPT !.state = "review", !.conf = task.conf])
        BY <1>4 DEF CaseTypeOK, TaskRows, StartReview
    <2>2. QED
        BY <2>1, MoveTask, MovesConf DEF States, Moves, SameContent, Alive
<1>5. CASE Ready
    BY <1>5, MoveTask, MovesConf DEF Ready, States, Moves, SameContent, Alive
<1>6. QED
    BY <1>1, <1>2, <1>3, <1>4, <1>5 DEF TaskStep

GeneratedOK ==
    /\ task' \in TaskRows /\ ConfInv' /\ task'.src = task.src /\ Alive
    /\ gen' \in [version : Nat, mode : Modes] \cup {None}
    /\ outputs' \subseteq [mode : Modes, made : Contents, asked : Contents]

LEMMA GeneratingType ==
    ASSUME CaseTypeOK, ConfInv, Generating
    PROVE  GeneratedOK
<1>1. ASSUME NEW mode \in Modes, BeginGenerate(mode) PROVE GeneratedOK
    <2>1. Save([task EXCEPT !.state = "generating", !.conf = task.conf])
        BY <1>1 DEF CaseTypeOK, TaskRows, BeginGenerate
    <2>2. gen' \in [version : Nat, mode : Modes]
        BY <1>1 DEF CaseTypeOK, TaskRows, BeginGenerate
    <2>3. Moves /\ Alive /\ outputs' = outputs
        BY <1>1, <2>1, MoveTask DEF States, BeginGenerate, Alive
    <2>4. QED
        BY <2>2, <2>3, MovesConf DEF Moves, SameContent, CaseTypeOK, GeneratedOK
<1>2. CASE FinishGenerate
    <2>1. Moves /\ Alive
        BY <1>2, MoveTask DEF FinishGenerate, States, Alive
    <2>2. task.conf # None /\ gen # None
        BY <1>2 DEF FinishGenerate, Gate
    <2>3. [mode |-> gen.mode, made |-> Content(task), asked |-> task.conf.asked]
             \in [mode : Modes, made : Contents, asked : Contents]
        BY <2>2, ContentType DEF CaseTypeOK, TaskRows, Confirmations
    <2>4. gen' = None
        BY <1>2 DEF FinishGenerate
    <2>5. outputs' \subseteq [mode : Modes, made : Contents, asked : Contents]
        BY <1>2, <2>3 DEF CaseTypeOK, FinishGenerate
    <2>6. QED
        BY <2>1, <2>4, <2>5, MovesConf DEF Moves, SameContent, GeneratedOK
<1>3. CASE GenerateFails
    <2>1. task' = task /\ gen' = None /\ outputs' = outputs
        BY <1>3 DEF GenerateFails
    <2>2. QED
        BY <2>1 DEF CaseTypeOK, ConfInv, Content, GeneratedOK, Alive
<1>4. QED
    BY <1>1, <1>2, <1>3 DEF Generating

LEMMA RecoverType ==
    ASSUME CaseTypeOK, ConfInv, Recover
    PROVE  CaseTypeOK' /\ ConfInv' /\ task'.src = task.src /\ Alive
<1>1. task' \in TaskRows /\ task'.src = task.src /\ (task' = task \/ task'.conf = None) /\ Alive
    <2>1. CASE task.state = "generating"
        <3>1. task.version \in Nat \ {0} /\ task.version + 1 \in Nat \ {0}
            BY DEF CaseTypeOK, TaskRows
        <3>2. \A st \in States, v \in Nat \ {0} :
                 LET t == [task EXCEPT !.state = st, !.conf = None, !.version = v]
                 IN  t \in TaskRows /\ t.src = task.src /\ t.conf = None /\ t.state = st
            BY DEF CaseTypeOK, TaskRows
        <3>3. task' = [task EXCEPT !.state = "ready", !.conf = None, !.version = task.version + 1]
            BY <2>1 DEF Recover
        <3>4. "ready" \in States
            BY DEF States
        <3>5. QED
            BY <3>1, <3>2, <3>3, <3>4 DEF Alive
    <2>2. CASE task.state # "generating"
        BY <2>2 DEF CaseTypeOK, Recover, Alive
    <2>3. QED
        BY <2>1, <2>2
<1>2. ConfInv'
    BY <1>1 DEF ConfInv, Content
<1>3. QED
    BY <1>1, <1>2 DEF CaseTypeOK, Recover

-------------------------------------------------------------------------------
(* The invariant of CaseTask.                                                  *)

\* An added source is in its batch; a batch that is not processed yet is the
\* current one of all its sources.
SourceInv ==
    \A s \in Sources :
        IF task.src[s].batch = None THEN task.src[s].status = "none"
        ELSE s \in batches[task.src[s].batch].srcs

ListedInv ==
    \A b \in Batches : \A s \in batches[b].srcs :
        /\ task.src[s].batch # None
        /\ runs[b].status # "done" => task.src[s].batch = b

\* Nothing is claimed before its batch is finalized.
BatchInv ==
    \A b \in Batches :
        /\ batches[b].status = "none" => batches[b].srcs = {}
        /\ batches[b].status \in {"none", "open"} => runs[b].status = "pending"
        /\ batches[b].status = "abandoned" => task.state = "cancelled"

ProcInv ==
    \A p \in Procs :
        procs[p] # None => batches[procs[p].batch].status \notin {"none", "open"}

\* Results cover the sources of their batch.
StageInv ==
    \A b \in Batches : staging[b] # None =>
        /\ task.state # "cancelled" /\ batches[b].status \notin {"none", "open"}
        /\ staging[b].res \in [batches[b].srcs -> Read]

DoneInv ==
    \A b \in Batches :
        IF runs[b].status = "done"
        THEN /\ manifest[b] \in Parsing /\ manifest[b].fence = runs[b].fence
             /\ manifest[b].res \in [batches[b].srcs -> Read]
        ELSE manifest[b] = None

CaseInv ==
    /\ CaseTypeOK /\ ConfInv
    /\ SourceInv /\ ListedInv /\ BatchInv /\ ProcInv /\ StageInv /\ DoneInv
    /\ PublishedTruth /\ OutputIsConfirmed

\* A step that leaves sources, batches and their processing alone.
LEMMA QuietStep ==
    ASSUME CaseInv, CaseTypeOK', ConfInv', task'.src = task.src, Alive,
           task.state = "cancelled" => task'.state = "cancelled",
           UNCHANGED <<batches, runs, staging, manifest, procs>>, OutputIsConfirmed'
    PROVE  CaseInv'
<1>1. SourceInv' /\ ListedInv'
    BY DEF CaseInv, SourceInv, ListedInv
<1>2. BatchInv' /\ ProcInv' /\ StageInv' /\ DoneInv'
    BY DEF CaseInv, BatchInv, ProcInv, StageInv, DoneInv, Alive
<1>3. PublishedTruth'
    BY DEF CaseInv, PublishedTruth, Added
<1>4. QED
    BY <1>1, <1>2, <1>3 DEF CaseInv

\* With every batch processed, each source that was added was read or was not.
LEMMA NothingWaits ==
    ASSUME CaseInv, ~Pending, task.state # "cancelled", NEW s \in Sources
    PROVE  IF task.src[s].batch = None THEN task.src[s].status = "none"
           ELSE task.src[s].status \in Read
<1>1. CASE task.src[s].batch = None
    BY <1>1 DEF CaseInv, SourceInv
<1>2. CASE task.src[s].batch # None
    <2> DEFINE b == task.src[s].batch
    <2>1. b \in Batches /\ s \in batches[b].srcs
        BY <1>2 DEF CaseInv, CaseTypeOK, TaskRows, SourceRows, SourceInv
    <2>2. batches[b].status = "finalized"
        BY <2>1 DEF CaseInv, CaseTypeOK, BatchRows, BatchInv, Pending
    <2>3. runs[b].status = "done"
        BY <2>1, <2>2 DEF Pending
    <2>4. manifest[b] # None /\ manifest[b].res \in [batches[b].srcs -> Read]
        BY <2>1, <2>3, CaseAssumption DEF CaseInv, DoneInv
    <2>5. task.src[s].status = manifest[b].res[s]
        BY <1>2, <2>4 DEF CaseInv, PublishedTruth, Added
    <2>6. QED
        BY <1>2, <2>1, <2>4, <2>5
<1>3. QED
    BY <1>1, <1>2

\* An artifact is made of what was confirmed, when nothing waits.
LEMMA OutputStep ==
    ASSUME CaseInv, FinishGenerate
    PROVE  OutputIsConfirmed'
<1> DEFINE o == [mode |-> gen.mode, made |-> Content(task), asked |-> task.conf.asked]
<1>1. /\ ~Pending /\ ~task.msgs /\ task.design # 0 /\ task.state \in {"ready", "generating"}
      /\ task.conf # None
      /\ gen.mode = "formal" => ~task.p0 /\ \A s \in Added(task) : task.src[s].status = "read"
    BY DEF FinishGenerate, Gate
<1>2. task.conf.asked = Content(task)
    BY <1>1 DEF CaseInv, ConfInv
<1>3. \A s \in Sources : IF task.src[s].batch = None THEN task.src[s].status = "none"
                         ELSE task.src[s].status \in Read
    BY <1>1, NothingWaits
<1>4. \A s \in Sources : Content(task).srcs[s] = task.src[s].status
    BY DEF Content
<1>5. /\ Content(task).design = task.design /\ Content(task).p0 = task.p0
      /\ Content(task).msgs = task.msgs
    BY DEF Content
<1>6. /\ o.made = o.asked /\ o.made.design # 0 /\ ~o.made.msgs
      /\ \A s \in Sources : o.made.srcs[s] # "pending"
      /\ o.mode = "formal" =>
            ~o.made.p0 /\ \A s \in Sources : o.made.srcs[s] \in {"none", "read"}
    BY <1>1, <1>2, <1>3, <1>4, <1>5 DEF Added, Read
<1>7. outputs' = outputs \cup {o}
    BY DEF FinishGenerate
<1> HIDE DEF o
<1>8. QED
    BY <1>6, <1>7 DEF CaseInv, OutputIsConfirmed

LEMMA TaskCase ==
    ASSUME CaseInv, CaseStep, TaskStep \/ Generating \/ Recover
    PROVE  CaseInv'
<1>1. CaseTypeOK /\ ConfInv /\ OutputIsConfirmed
    BY DEF CaseInv
<1>2. task.state = "cancelled" => task'.state = "cancelled"
    BY <1>1, CancelledStays
<1>3. CASE TaskStep
    <2>1. task' \in TaskRows /\ ConfInv' /\ task'.src = task.src /\ Alive
        BY <1>1, <1>3, TaskStepType
    <2>2. UNCHANGED <<batches, packages, runs, staging, manifest, procs, gen, outputs>>
        BY <1>3 DEF TaskStep, OnlyTask
    <2>3. CaseTypeOK' /\ OutputIsConfirmed'
        BY <1>1, <2>1, <2>2 DEF CaseTypeOK, OutputIsConfirmed
    <2>4. QED
        BY <1>2, <2>1, <2>2, <2>3, QuietStep
<1>4. CASE Generating
    <2>1. GeneratedOK
        BY <1>1, <1>4, GeneratingType
    <2>2. UNCHANGED <<batches, packages, runs, staging, manifest, procs>>
        BY <1>4 DEF Generating, BeginGenerate, FinishGenerate, GenerateFails
    <2>3. CaseTypeOK'
        BY <1>1, <2>1, <2>2 DEF CaseTypeOK, GeneratedOK
    <2>4. OutputIsConfirmed'
        <3>1. CASE outputs' = outputs
            BY <1>1, <3>1 DEF OutputIsConfirmed
        <3>2. QED
            BY <1>4, <3>1, OutputStep DEF Generating, BeginGenerate, GenerateFails
    <2>5. QED
        BY <1>2, <2>1, <2>2, <2>3, <2>4, QuietStep DEF GeneratedOK
<1>5. CASE Recover
    <2>1. OutputIsConfirmed'
        BY <1>1, <1>5 DEF Recover, OutputIsConfirmed
    <2>2. UNCHANGED <<batches, runs, staging, manifest, procs>>
        BY <1>5 DEF Recover
    <2>3. QED
        BY <1>1, <1>2, <1>5, <2>1, <2>2, RecoverType, QuietStep
<1>6. QED
    BY <1>3, <1>4, <1>5

LEMMA AppendCase ==
    ASSUME CaseInv, Editable, Append
    PROVE  CaseInv'
<1>1. Edits
    BY AppendTask DEF CaseInv
<1>2. PICK s \in Sources, k \in Kinds, b \in Batches :
          /\ batches[b].status \in {"none", "open"} /\ task.src[s].batch = None
          /\ task'.src = [task.src EXCEPT ![s] = [kind |-> k, batch |-> b, status |-> "pending"]]
          /\ batches' = [batches EXCEPT ![b] = [status |-> "open", srcs |-> @.srcs \cup {s}]]
    BY AppendTask DEF CaseInv
<1>3. UNCHANGED <<packages, runs, staging, manifest, procs, gen, outputs>>
    BY DEF Append
<1>4. batches' \in [Batches -> BatchRows]
    BY <1>2 DEF CaseInv, CaseTypeOK, BatchRows
<1>5. CaseTypeOK' /\ ConfInv' /\ OutputIsConfirmed'
    BY <1>1, <1>3, <1>4, EditsConf DEF CaseInv, CaseTypeOK, OutputIsConfirmed, Edits
<1>6. /\ b # None /\ runs[b].status = "pending" /\ manifest[b] = None /\ staging[b] = None
      /\ task.state # "cancelled" /\ task'.state # "cancelled"
    BY <1>1, <1>2, CaseAssumption
       DEF CaseInv, BatchInv, DoneInv, StageInv, Editable, Edits, Alive
<1>7. /\ batches'[b].status = "open" /\ batches'[b].srcs = batches[b].srcs \cup {s}
      /\ \A c \in Batches \ {b} : batches'[c] = batches[c]
    BY <1>2 DEF CaseInv, CaseTypeOK, BatchRows
<1>8. /\ task'.src[s].batch = b /\ task'.src[s].status = "pending"
      /\ \A r \in Sources \ {s} : task'.src[r] = task.src[r]
    BY <1>2 DEF CaseInv, CaseTypeOK, TaskRows
<1>9. \A c \in Batches : s \notin batches[c].srcs
    BY <1>2 DEF CaseInv, ListedInv
<1>10. \A c \in Batches : batches[c].srcs \subseteq Sources
    BY DEF CaseInv, CaseTypeOK, BatchRows
<1>11. SourceInv'
    BY <1>6, <1>7, <1>8 DEF CaseInv, CaseTypeOK, TaskRows, SourceRows, SourceInv
<1>12. ListedInv'
    BY <1>3, <1>6, <1>7, <1>8, <1>9, <1>10 DEF CaseInv, ListedInv
<1>13. BatchInv' /\ ProcInv' /\ StageInv' /\ DoneInv'
    <2>1. BatchInv'
        BY <1>3, <1>6, <1>7 DEF CaseInv, BatchInv
    <2>2. ProcInv'
        BY <1>2, <1>3, <1>7 DEF CaseInv, CaseTypeOK, ProcRows, ProcInv
    <2>3. StageInv'
        BY <1>3, <1>6, <1>7 DEF CaseInv, StageInv
    <2>4. DoneInv'
        BY <1>3, <1>6, <1>7 DEF CaseInv, DoneInv
    <2>5. QED
        BY <2>1, <2>2, <2>3, <2>4
<1>14. PublishedTruth'
    BY <1>3, <1>6, <1>8 DEF CaseInv, PublishedTruth, Added
<1>15. QED
    BY <1>5, <1>11, <1>12, <1>13, <1>14 DEF CaseInv

LEMMA FinishCase ==
    ASSUME CaseInv, Editable, Finish
    PROVE  CaseInv'
<1>1. Moves /\ Edits
    BY FinishTask DEF CaseInv
<1>2. PICK b \in OpenBatch : batches' = [batches EXCEPT ![b].status = "finalized"]
    BY DEF Finish
<1>3. UNCHANGED <<packages, runs, staging, manifest, procs, gen, outputs>>
    BY DEF Finish
<1>4. b \in Batches /\ batches[b].status = "open"
    BY DEF OpenBatch
<1>5. /\ batches' \in [Batches -> BatchRows]
      /\ batches'[b].status = "finalized" /\ \A c \in Batches : batches'[c].srcs = batches[c].srcs
      /\ \A c \in Batches \ {b} : batches'[c] = batches[c]
    BY <1>2, <1>4 DEF CaseInv, CaseTypeOK, BatchRows
<1>6. CaseTypeOK' /\ ConfInv' /\ OutputIsConfirmed' /\ task'.src = task.src
    BY <1>1, <1>3, <1>5, EditsConf
       DEF CaseInv, CaseTypeOK, OutputIsConfirmed, Moves, Edits, SameContent
<1>7. task.state # "cancelled" /\ task'.state # "cancelled"
    BY <1>1 DEF Editable, Edits, Alive
<1>8. SourceInv' /\ ListedInv'
    <2>1. \A s \in Sources : task.src[s].batch \in Batches \cup {None}
        BY DEF CaseInv, CaseTypeOK, TaskRows, SourceRows
    <2>2. SourceInv'
        BY <1>5, <1>6, <2>1 DEF CaseInv, SourceInv
    <2>3. ListedInv'
        BY <1>3, <1>5, <1>6 DEF CaseInv, ListedInv
    <2>4. QED
        BY <2>2, <2>3
<1>9. BatchInv' /\ DoneInv'
    BY <1>3, <1>4, <1>5, <1>7 DEF CaseInv, BatchInv, DoneInv
<1>10. ProcInv' /\ StageInv'
    BY <1>3, <1>5, <1>7 DEF CaseInv, CaseTypeOK, ProcRows, ProcInv, StageInv
<1>11. PublishedTruth'
    BY <1>3, <1>6 DEF CaseInv, PublishedTruth, Added
<1>12. QED
    BY <1>6, <1>8, <1>9, <1>10, <1>11 DEF CaseInv

LEMMA RefreshCase ==
    ASSUME CaseInv, Editable, Refresh
    PROVE  CaseInv'
<1>1. Edits
    BY RefreshTask DEF CaseInv
<1>2. PICK s \in Refreshable, b \in NewBatch :
          /\ task'.src = [task.src EXCEPT ![s].batch = b, ![s].status = "pending"]
          /\ batches' = [batches EXCEPT ![b] = [status |-> "open", srcs |-> {s}]]
    BY RefreshTask DEF CaseInv
<1>3. UNCHANGED <<packages, runs, staging, manifest, procs, gen, outputs>>
    BY DEF Refresh
<1>4. /\ s \in Sources /\ task.src[s].batch # None /\ ~Pending
      /\ b \in Batches /\ batches[b].status = "none"
    BY DEF Refreshable, NewBatch
<1>5. /\ batches' \in [Batches -> BatchRows]
      /\ batches'[b].status = "open" /\ batches'[b].srcs = {s} /\ batches[b].srcs = {}
      /\ \A c \in Batches \ {b} : batches'[c] = batches[c]
    BY <1>2, <1>4 DEF CaseInv, CaseTypeOK, BatchRows, BatchInv
<1>6. CaseTypeOK' /\ ConfInv' /\ OutputIsConfirmed'
    BY <1>1, <1>3, <1>5, EditsConf DEF CaseInv, CaseTypeOK, OutputIsConfirmed, Edits
<1>7. /\ b # None /\ runs[b].status = "pending" /\ manifest[b] = None /\ staging[b] = None
      /\ task.state # "cancelled" /\ task'.state # "cancelled"
    BY <1>1, <1>4, CaseAssumption
       DEF CaseInv, BatchInv, DoneInv, StageInv, Editable, Edits, Alive
<1>8. /\ task'.src[s].batch = b /\ task'.src[s].status = "pending"
      /\ \A r \in Sources \ {s} : task'.src[r] = task.src[r]
    BY <1>2, <1>4 DEF CaseInv, CaseTypeOK, TaskRows, SourceRows
<1>9. \A c \in Batches \ {b} : s \in batches[c].srcs => runs[c].status = "done"
    BY <1>4, <1>7 DEF CaseInv, CaseTypeOK, BatchRows, BatchInv, Pending
<1>10. \A c \in Batches : batches[c].srcs \subseteq Sources
    BY DEF CaseInv, CaseTypeOK, BatchRows
<1>11. SourceInv'
    BY <1>4, <1>5, <1>7, <1>8 DEF CaseInv, CaseTypeOK, TaskRows, SourceRows, SourceInv
<1>12. ListedInv'
    BY <1>3, <1>5, <1>7, <1>8, <1>9, <1>10 DEF CaseInv, ListedInv
<1>13. BatchInv' /\ DoneInv'
    BY <1>3, <1>5, <1>7 DEF CaseInv, BatchInv, DoneInv
<1>14. ProcInv' /\ StageInv'
    BY <1>3, <1>4, <1>5, <1>7 DEF CaseInv, CaseTypeOK, ProcRows, ProcInv, StageInv
<1>15. PublishedTruth'
    BY <1>3, <1>7, <1>8 DEF CaseInv, PublishedTruth, Added
<1>16. QED
    BY <1>6, <1>11, <1>12, <1>13, <1>14, <1>15 DEF CaseInv

LEMMA CancelCase ==
    ASSUME CaseInv, Cancel
    PROVE  CaseInv'
<1>1. Moves /\ task'.conf = None /\ task'.state = "cancelled" /\ task'.src = task.src
    BY CancelTask DEF CaseInv, Moves, SameContent
<1>2. UNCHANGED <<packages, runs, manifest, procs, gen, outputs>>
    BY DEF Cancel
<1>3. /\ staging' \in [Batches -> Parsed] /\ \A b \in Batches : staging'[b] = None
    BY DEF Cancel, Parsed
<1>4. /\ batches' \in [Batches -> BatchRows]
      /\ \A b \in Batches :
            /\ batches'[b].srcs = batches[b].srcs
            /\ batches'[b].status \in {batches[b].status, "abandoned"}
            /\ batches'[b].status # "open"
    BY DEF CaseInv, CaseTypeOK, BatchRows, Cancel
<1>5. CaseTypeOK' /\ ConfInv' /\ OutputIsConfirmed'
    BY <1>1, <1>2, <1>3, <1>4
       DEF CaseInv, CaseTypeOK, ConfInv, OutputIsConfirmed, Moves
<1>6. SourceInv' /\ ListedInv'
    BY <1>1, <1>2, <1>4 DEF CaseInv, CaseTypeOK, TaskRows, SourceRows, SourceInv, ListedInv
<1>7. BatchInv' /\ DoneInv' /\ StageInv'
    BY <1>1, <1>2, <1>3, <1>4 DEF CaseInv, BatchInv, DoneInv, StageInv
<1>8. ProcInv'
    BY <1>2, <1>4 DEF CaseInv, CaseTypeOK, ProcRows, ProcInv
<1>9. PublishedTruth'
    BY <1>1, <1>2 DEF CaseInv, PublishedTruth, Added
<1>10. QED
    BY <1>5, <1>6, <1>7, <1>8, <1>9 DEF CaseInv

-------------------------------------------------------------------------------
(* Processing keeps the invariant.                                             *)

\* A step of a processor or a lease that leaves task, batches and results alone.
LEMMA LeaseStep ==
    ASSUME CaseInv, UNCHANGED <<task, batches, staging, manifest, gen, outputs>>,
           CaseTypeOK', ProcInv',
           \A b \in Batches :
              /\ runs'[b].status = "done" <=> runs[b].status = "done"
              /\ batches[b].status \in {"none", "open"} => runs'[b].status = "pending"
              /\ runs[b].status = "done" => runs'[b].fence = runs[b].fence
    PROVE  CaseInv'
<1>1. ConfInv' /\ SourceInv' /\ ListedInv' /\ BatchInv' /\ StageInv'
    BY DEF CaseInv, ConfInv, Content, SourceInv, ListedInv, BatchInv, StageInv
<1>2. DoneInv' /\ OutputIsConfirmed'
    BY DEF CaseInv, DoneInv, OutputIsConfirmed
<1>3. PublishedTruth'
    <2>1. \A s \in Added(task) :
             LET b == task.src[s].batch IN b \in Batches /\ (manifest[b] # None => runs[b].status = "done")
        BY DEF CaseInv, CaseTypeOK, TaskRows, SourceRows, DoneInv, Added
    <2>2. QED
        BY <2>1 DEF CaseInv, PublishedTruth, Added
<1>4. QED
    BY <1>1, <1>2, <1>3 DEF CaseInv

LEMMA LeaseCase ==
    ASSUME CaseInv, NEW b \in Batches, LeaseEnds(b) \/ \E s \in Sources : CommitPackage(b, s)
    PROVE  CaseInv'
<1>1. CASE LeaseEnds(b)
    <2>1. runs' = [runs EXCEPT ![b].live = FALSE]
        BY <1>1 DEF LeaseEnds
    <2>2. /\ runs' \in [Batches -> RunRows]
          /\ \A c \in Batches : runs'[c].status = runs[c].status /\ runs'[c].fence = runs[c].fence
        BY <2>1 DEF CaseInv, CaseTypeOK, RunRows
    <2>3. CaseTypeOK' /\ ProcInv'
        BY <1>1, <2>2 DEF CaseInv, CaseTypeOK, ProcInv, LeaseEnds
    <2>4. QED
        BY <1>1, <2>2, <2>3, LeaseStep DEF LeaseEnds, CaseInv, BatchInv
<1>2. ASSUME NEW s \in Sources, CommitPackage(b, s) PROVE CaseInv'
    <2>1. CaseTypeOK' /\ ProcInv'
        BY <1>2 DEF CaseInv, CaseTypeOK, ProcInv, CommitPackage
    <2>2. QED
        BY <1>2, <2>1, LeaseStep DEF CommitPackage, CaseInv, BatchInv
<1>3. QED
    BY <1>1, <1>2

LEMMA ClaimCase ==
    ASSUME CaseInv, NEW p \in Procs, NEW b \in Batches, Claim(p, b)
    PROVE  CaseInv'
<1> DEFINE run  == [status |-> "claimed", fence |-> runs[b].fence + 1, live |-> TRUE]
           proc == [batch |-> b, fence |-> runs[b].fence + 1, res |-> [s \in {} |-> "read"],
                    step |-> "claimed"]
<1>1. /\ runs' = [runs EXCEPT ![b] = run] /\ procs' = [procs EXCEPT ![p] = proc]
      /\ staging' = [staging EXCEPT ![b] = None]
      /\ UNCHANGED <<task, batches, packages, manifest, gen, outputs>>
      /\ batches[b].status = "finalized" /\ runs[b].status # "done" /\ runs[b].fence < MaxFence
    BY DEF Claim, Sealed
<1>2. runs[b].fence + 1 \in 1 .. MaxFence
    BY <1>1, CaseAssumption DEF CaseInv, CaseTypeOK, RunRows
<1>3. run \in RunRows
    BY <1>2 DEF RunRows
<1>4. [s \in {} |-> "read"] \in Results
    BY DEF Results
<1>5. proc \in ProcRows
    BY <1>2, <1>4 DEF ProcRows
<1>6. /\ runs' \in [Batches -> RunRows] /\ procs' \in [Procs -> ProcRows \cup {None}]
      /\ staging' \in [Batches -> Parsed]
    BY <1>1, <1>3, <1>5 DEF CaseInv, CaseTypeOK, Parsed
<1>7. /\ runs'[b].status = "claimed" /\ \A c \in Batches \ {b} : runs'[c] = runs[c]
      /\ staging'[b] = None /\ \A c \in Batches \ {b} : staging'[c] = staging[c]
      /\ procs'[p].batch = b /\ \A q \in Procs \ {p} : procs'[q] = procs[q]
    BY <1>1 DEF CaseInv, CaseTypeOK
<1>8. CaseTypeOK' /\ ConfInv' /\ OutputIsConfirmed'
    BY <1>1, <1>6 DEF CaseInv, CaseTypeOK, ConfInv, Content, OutputIsConfirmed
<1>9. SourceInv' /\ ListedInv'
    BY <1>1, <1>7 DEF CaseInv, SourceInv, ListedInv
<1>10. BatchInv' /\ ProcInv'
    BY <1>1, <1>7 DEF CaseInv, BatchInv, ProcInv
<1>11. StageInv' /\ DoneInv'
    BY <1>1, <1>7 DEF CaseInv, StageInv, DoneInv
<1>12. PublishedTruth'
    <2>1. manifest[b] = None
        BY <1>1 DEF CaseInv, DoneInv
    <2>2. \A s \in Added(task) : task.src[s].batch \in Batches
        BY DEF CaseInv, CaseTypeOK, TaskRows, SourceRows, Added
    <2>3. QED
        BY <1>1, <1>7, <2>1, <2>2 DEF CaseInv, PublishedTruth, Added
<1>13. QED
    BY <1>8, <1>9, <1>10, <1>11, <1>12 DEF CaseInv

LEMMA EndCase ==
    ASSUME CaseInv, NEW p \in Procs, BeginParse(p) \/ GiveUp(p) \/ Die(p)
    PROVE  CaseInv'
<1>1. CASE BeginParse(p)
    <2> DEFINE b == procs[p].batch
    <2>1. /\ procs[p] \in ProcRows /\ procs[p] # None /\ runs[b].status # "done"
          /\ b \in Batches /\ batches[b].status \notin {"none", "open"}
        BY <1>1 DEF CaseInv, CaseTypeOK, ProcInv, BeginParse, Holds, ProcRows
    <2>2. /\ runs' = [runs EXCEPT ![b].status = "processing"]
          /\ procs' = [procs EXCEPT ![p].step = "parsing"]
          /\ UNCHANGED <<task, batches, packages, staging, manifest, gen, outputs>>
        BY <1>1 DEF BeginParse
    <2>3. runs' \in [Batches -> RunRows] /\ procs' \in [Procs -> ProcRows \cup {None}]
        BY <2>1, <2>2 DEF CaseInv, CaseTypeOK, RunRows, ProcRows
    <2>4. /\ runs'[b].status = "processing" /\ \A c \in Batches \ {b} : runs'[c] = runs[c]
          /\ procs'[p].batch = b /\ \A q \in Procs \ {p} : procs'[q] = procs[q]
        BY <2>1, <2>2 DEF CaseInv, CaseTypeOK, RunRows, ProcRows
    <2>5. CaseTypeOK' /\ ProcInv'
        BY <2>1, <2>2, <2>3, <2>4 DEF CaseInv, CaseTypeOK, ProcInv
    <2>6. QED
        BY <2>1, <2>2, <2>4, <2>5, LeaseStep DEF CaseInv, BatchInv
<1>2. CASE GiveUp(p) \/ Die(p)
    <2>1. /\ procs' = [procs EXCEPT ![p] = None]
          /\ UNCHANGED <<task, batches, packages, runs, staging, manifest, gen, outputs>>
        BY <1>2 DEF GiveUp, Die
    <2>2. CaseTypeOK' /\ ProcInv'
        BY <2>1 DEF CaseInv, CaseTypeOK, ProcInv
    <2>3. QED
        BY <2>1, <2>2, LeaseStep DEF CaseInv, BatchInv
<1>3. QED
    BY <1>1, <1>2

LEMMA StageCase ==
    ASSUME CaseInv, NEW p \in Procs, Stage(p)
    PROVE  CaseInv'
<1> DEFINE b == procs[p].batch
<1>1. /\ procs[p] \in ProcRows /\ b \in Batches /\ task.state # "cancelled"
      /\ batches[b].status \notin {"none", "open"}
    BY DEF CaseInv, CaseTypeOK, ProcInv, Stage, Holds, ProcRows
<1>2. PICK res \in [batches[b].srcs -> Read] :
          /\ staging' = [staging EXCEPT ![b] = [fence |-> procs[p].fence, res |-> res]]
          /\ procs' = [procs EXCEPT ![p].step = "staged", ![p].res = res]
    BY DEF Stage
<1>3. UNCHANGED <<task, batches, packages, runs, manifest, gen, outputs>>
    BY DEF Stage
<1>4. res \in Results
    BY <1>1 DEF CaseInv, CaseTypeOK, BatchRows, Results
<1>5. [fence |-> procs[p].fence, res |-> res] \in Parsing
    BY <1>1, <1>4 DEF ProcRows, Parsing
<1>6. /\ staging' \in [Batches -> Parsed]
      /\ staging'[b].res = res /\ \A c \in Batches \ {b} : staging'[c] = staging[c]
    BY <1>1, <1>2, <1>5 DEF CaseInv, CaseTypeOK, Parsed
<1>7. /\ procs' \in [Procs -> ProcRows \cup {None}]
      /\ procs'[p].batch = b /\ \A q \in Procs \ {p} : procs'[q] = procs[q]
    BY <1>1, <1>2, <1>4 DEF CaseInv, CaseTypeOK, ProcRows
<1>8. CaseTypeOK' /\ ConfInv' /\ OutputIsConfirmed'
    BY <1>3, <1>6, <1>7 DEF CaseInv, CaseTypeOK, ConfInv, Content, OutputIsConfirmed
<1>9. SourceInv' /\ ListedInv' /\ BatchInv' /\ DoneInv'
    BY <1>3 DEF CaseInv, SourceInv, ListedInv, BatchInv, DoneInv
<1>10. ProcInv' /\ StageInv'
    BY <1>1, <1>3, <1>6, <1>7 DEF CaseInv, ProcInv, StageInv
<1>11. PublishedTruth'
    BY <1>3 DEF CaseInv, PublishedTruth, Added
<1>12. QED
    BY <1>8, <1>9, <1>10, <1>11 DEF CaseInv

LEMMA PublishedType ==
    ASSUME task \in TaskRows, NEW S \in SUBSET Sources, NEW res \in [S -> Read]
    PROVE  /\ Published(res) \in TaskRows /\ Published(res).conf = None
           /\ Published(res).state = "review"
           /\ \A s \in Sources :
                 /\ Published(res).src[s].batch = task.src[s].batch
                 /\ Published(res).src[s].status = IF s \in S THEN res[s] ELSE task.src[s].status
<1> DEFINE src == [s \in Sources |-> IF s \in DOMAIN res
                                    THEN [task.src[s] EXCEPT !.status = res[s]]
                                    ELSE task.src[s]]
<1>1. \A s \in Sources :
          /\ src[s] \in SourceRows /\ src[s].batch = task.src[s].batch
          /\ src[s].status = IF s \in S THEN res[s] ELSE task.src[s].status
    BY DEF TaskRows, SourceRows, Read
<1>2. src \in [Sources -> SourceRows]
    BY <1>1
<1>3. Published(res) = [task EXCEPT !.state = "review", !.conf = None, !.src = src]
    BY DEF Published
<1> HIDE DEF src
<1>4. /\ Published(res) \in TaskRows /\ Published(res).conf = None
      /\ Published(res).state = "review" /\ Published(res).src = src
    BY <1>2, <1>3 DEF TaskRows, States
<1>5. QED
    BY <1>1, <1>4

LEMMA PublishCase ==
    ASSUME CaseInv, NEW p \in Procs, Publish(p)
    PROVE  CaseInv'
<1> DEFINE b   == procs[p].batch
           res == procs[p].res
           own == [fence |-> procs[p].fence, res |-> res]
<1>1. /\ procs[p] \in ProcRows /\ b \in Batches /\ task.state # "cancelled"
      /\ batches[b].status \notin {"none", "open"}
    BY DEF CaseInv, CaseTypeOK, ProcInv, Publish, Holds, ProcRows
<1>2. /\ runs[b].fence = procs[p].fence /\ runs[b].status = "processing" /\ staging[b] = own
      /\ manifest' = [manifest EXCEPT ![b] = own] /\ staging' = [staging EXCEPT ![b] = None]
      /\ runs' = [runs EXCEPT ![b].status = "done"] /\ Save(Published(res))
      /\ procs' = [procs EXCEPT ![p] = None]
      /\ UNCHANGED <<batches, packages, gen, outputs>>
    BY DEF Publish, Holds
<1>3. own \in Parsing /\ own # None /\ own.res = res
    BY <1>1, CaseAssumption DEF ProcRows, Parsing
<1>4. res \in [batches[b].srcs -> Read] /\ batches[b].srcs \subseteq Sources
    BY <1>1, <1>2, <1>3 DEF CaseInv, CaseTypeOK, BatchRows, StageInv
<1>5. \A s \in batches[b].srcs : task.src[s].batch = b
    BY <1>1, <1>2 DEF CaseInv, ListedInv
<1>6. /\ task' \in TaskRows /\ task'.conf = None /\ task'.state = "review"
      /\ \A s \in Sources :
            /\ task'.src[s].batch = task.src[s].batch
            /\ task'.src[s].status = IF s \in batches[b].srcs THEN res[s] ELSE task.src[s].status
    <2> DEFINE t == Published(res)
    <2> HIDE DEF b, res
    <2>0. task \in TaskRows /\ batches[b].srcs \in SUBSET Sources
        BY <1>4 DEF CaseInv, CaseTypeOK
    <2>1. /\ t \in TaskRows /\ t.conf = None /\ t.state = "review"
          /\ \A s \in Sources :
                /\ t.src[s].batch = task.src[s].batch
                /\ t.src[s].status = IF s \in batches[b].srcs THEN res[s] ELSE task.src[s].status
        <3>1. \A S \in SUBSET Sources : \A f \in [S -> Read] :
                 /\ Published(f) \in TaskRows /\ Published(f).conf = None
                 /\ Published(f).state = "review"
                 /\ \A s \in Sources :
                       /\ Published(f).src[s].batch = task.src[s].batch
                       /\ Published(f).src[s].status = IF s \in S THEN f[s] ELSE task.src[s].status
            BY <2>0, PublishedType
        <3>2. QED
            BY <1>4, <2>0, <3>1
    <2> HIDE DEF t
    <2>2. Save(t)
        BY <1>2 DEF t
    <2>3. task' \in TaskRows /\ task'.conf = t.conf /\ task'.state = t.state /\ task'.src = t.src
        BY <2>1, <2>2, SaveType DEF SameContent
    <2>4. QED
        BY <2>1, <2>3
<1>7. /\ runs' \in [Batches -> RunRows] /\ runs'[b].status = "done"
      /\ runs'[b].fence = runs[b].fence /\ \A c \in Batches \ {b} : runs'[c] = runs[c]
    <2>1. runs \in [Batches -> RunRows] /\ "done" \in {"pending", "claimed", "processing", "done"}
        BY DEF CaseInv, CaseTypeOK
    <2> DEFINE run == [runs[b] EXCEPT !.status = "done"]
    <2>2. run \in RunRows /\ run.status = "done" /\ run.fence = runs[b].fence
        BY <1>1, <2>1 DEF RunRows
    <2>3. runs' = [runs EXCEPT ![b] = run]
        BY <1>2
    <2> HIDE DEF run
    <2>4. QED
        BY <1>1, <2>1, <2>2, <2>3
<1>8. /\ manifest' \in [Batches -> Parsed] /\ staging' \in [Batches -> Parsed]
      /\ manifest'[b] = own /\ staging'[b] = None
      /\ \A c \in Batches \ {b} : manifest'[c] = manifest[c] /\ staging'[c] = staging[c]
    BY <1>1, <1>2, <1>3 DEF CaseInv, CaseTypeOK, Parsed
<1>9. procs' \in [Procs -> ProcRows \cup {None}] /\ \A q \in Procs : procs'[q] \in {procs[q], None}
    BY <1>2 DEF CaseInv, CaseTypeOK
<1>10. CaseTypeOK' /\ ConfInv' /\ OutputIsConfirmed'
    BY <1>2, <1>6, <1>7, <1>8, <1>9 DEF CaseInv, CaseTypeOK, ConfInv, OutputIsConfirmed
<1>11. SourceInv'
    <2>1. \A s \in Sources : task.src[s].batch = None => s \notin batches[b].srcs
        BY <1>1, <1>5, CaseAssumption
    <2>2. \A s \in Sources :
             IF task'.src[s].batch = None THEN task'.src[s].status = "none"
             ELSE s \in batches[task'.src[s].batch].srcs
        BY <1>6, <2>1 DEF CaseInv, SourceInv
    <2>3. QED
        BY <1>2, <2>2 DEF SourceInv
<1>12. ListedInv'
    BY <1>2, <1>6, <1>7 DEF CaseInv, CaseTypeOK, BatchRows, ListedInv
<1>13. BatchInv' /\ ProcInv'
    BY <1>1, <1>2, <1>6, <1>7, <1>9 DEF CaseInv, BatchInv, ProcInv
<1>14. StageInv'
    BY <1>2, <1>6, <1>8 DEF CaseInv, StageInv
<1>15. DoneInv'
    BY <1>2, <1>3, <1>4, <1>7, <1>8 DEF CaseInv, DoneInv
<1>16. PublishedTruth'
    <2> SUFFICES ASSUME NEW s \in Sources, task.src[s].batch # None
                 PROVE  LET c == task.src[s].batch
                        IN  IF manifest'[c] = None THEN task'.src[s].status = "pending"
                            ELSE /\ task'.src[s].status = manifest'[c].res[s]
                                 /\ manifest'[c].fence = runs'[c].fence /\ runs'[c].status = "done"
        BY <1>6 DEF PublishedTruth, Added
    <2> DEFINE c == task.src[s].batch
    <2>1. c \in Batches /\ s \in batches[c].srcs
        BY DEF CaseInv, CaseTypeOK, TaskRows, SourceRows, SourceInv
    <2>2. CASE c = b
        BY <1>2, <1>3, <1>6, <1>7, <1>8, <2>1, <2>2
    <2>3. CASE c # b
        <3>1. s \notin batches[b].srcs
            BY <1>5, <2>3
        <3>2. QED
            BY <1>6, <1>7, <1>8, <2>1, <2>3, <3>1 DEF CaseInv, PublishedTruth, Added
    <2>4. QED
        BY <2>2, <2>3
<1>17. QED
    BY <1>10, <1>11, <1>12, <1>13, <1>14, <1>15, <1>16 DEF CaseInv

-------------------------------------------------------------------------------
(* Every step keeps the invariant.                                             *)

LEMMA CaseStart ==
    ASSUME CaseInit
    PROVE  CaseInv
<1> DEFINE row == [kind |-> "local", batch |-> None, status |-> "none"]
<1>1. /\ task.state = "collecting" /\ task.conf = None
      /\ task.src = [s \in Sources |-> row]
    BY DEF CaseInit
<1>2. task \in TaskRows
    <2>1. row \in SourceRows
        BY DEF SourceRows, Kinds
    <2>2. [s \in Sources |-> row] \in [Sources -> SourceRows]
        BY <2>1
    <2>3. 0 \in 0 .. 2 /\ 1 \in Nat \ {0} /\ "collecting" \in States
        BY DEF States
    <2>4. QED
        BY <2>2, <2>3 DEF CaseInit, TaskRows
<1>3. CaseTypeOK
    BY <1>2, CaseAssumption DEF CaseInit, CaseTypeOK, BatchRows, RunRows, Parsed
<1>4. ConfInv /\ SourceInv /\ ListedInv
    BY <1>1 DEF CaseInit, ConfInv, SourceInv, ListedInv
<1>5. BatchInv /\ ProcInv /\ StageInv /\ DoneInv
    BY DEF CaseInit, BatchInv, ProcInv, StageInv, DoneInv
<1>6. PublishedTruth /\ OutputIsConfirmed
    BY <1>1 DEF CaseInit, PublishedTruth, Added, OutputIsConfirmed
<1>7. QED
    BY <1>3, <1>4, <1>5, <1>6 DEF CaseInv

LEMMA CaseKept ==
    ASSUME CaseInv, CaseStep
    PROVE  CaseInv'
<1>1. CASE UNCHANGED caseVars
    <2>1. UNCHANGED <<task, batches, packages, runs, staging, manifest, procs, gen, outputs>>
        BY <1>1 DEF caseVars
    <2>2. CaseTypeOK' /\ ConfInv'
        BY <2>1 DEF CaseInv, CaseTypeOK, ConfInv, Content
    <2>3. OutputIsConfirmed'
        BY <2>1 DEF CaseInv, OutputIsConfirmed
    <2>4. QED
        BY <2>1, <2>2, <2>3, QuietStep DEF Alive
<1>2. QED
    BY <1>1, CaseSteps, TaskCase, AppendCase, FinishCase, RefreshCase, CancelCase, LeaseCase,
       ClaimCase, EndCase, StageCase, PublishCase

-------------------------------------------------------------------------------
(* The ledgers and the deliveries.                                             *)

HandlerRows ==
    [req : Requests, seen : {"reserved", "completed", "rejected"},
     step : {"reserved", "answered", "stopped"}, ok : BOOLEAN]

PathTypeOK ==
    /\ now \in 0 .. MaxTime /\ highWater \in 0 .. MaxTime
    /\ envelopes \in [Requests -> [op : Ops, version : Nat, at : 0 .. MaxTime] \cup {None}]
    /\ replay \in [Requests -> [state : {"reserved", "completed", "rejected"},
                                until : Nat] \cup {None}]
    /\ answers \in [Requests -> Answers \cup {None}]
    /\ handlers \in [Handlers -> HandlerRows \cup {None}]
    /\ stopped \in BOOLEAN
    /\ applied \in [Requests -> 0 .. 2]

\* A delivery whose result is ok has it from the cached answer, and it stopped the jobs
\* if it says so. Of one whose result is not, nothing follows.
HandlerInv ==
    \A h \in Handlers : handlers[h] # None =>
        /\ handlers[h].ok => answers[handlers[h].req] = "ok"
        /\ handlers[h].step = "stopped" => stopped

\* Only what was signed is delivered.
EnvelopeInv ==
    /\ \A r \in Requests : replay[r] # None => envelopes[r] # None
    /\ \A h \in Handlers : handlers[h] # None => envelopes[handlers[h].req] # None

PathInv == PathTypeOK /\ HandlerInv /\ EnvelopeInv /\ AnswersHold

\* The operation of an action that changes the ledgers.
PathSteps ==
    \/ UNCHANGED pathVars
    \/ \E r \in Requests : (\E op \in Ops : Sign(r, op)) \/ Refuse(r) \/ Collect(r)
    \/ \E h \in Handlers :
          \/ \E r \in Requests : Reserve(h, r) \/ Redeliver(h, r)
          \/ Handle(h) \/ StopJobs(h) \/ Complete(h) \/ Leave(h)
    \/ Restart
    \/ \E t \in 0 .. MaxTime : SetClock(t)

\* A step of the path is one of the task, or leaves it alone.
LEMMA PathIsCase ==
    ASSUME PathInv, [Next]_vars
    PROVE  CaseStep /\ PathSteps
<1>1. CASE UNCHANGED vars
    BY <1>1 DEF vars, CaseStep, PathSteps
<1>2. CASE (Quiet /\ Engine) /\ UNCHANGED pathVars
    BY <1>2 DEF CaseStep, PathSteps
<1>3. CASE Processing /\ UNCHANGED pathVars
    BY <1>3 DEF CaseStep, PathSteps
<1>4. ASSUME NEW op \in Ops, Other(op) PROVE CaseStep /\ PathSteps
    BY <1>4 DEF Other, CaseStep, Dispatched, PathSteps
<1>5. ASSUME NEW h \in Handlers, Handle(h) PROVE CaseStep /\ PathSteps
    <2> DEFINE r == handlers[h].req
    <2>1. r \in Requests /\ envelopes[r] # None
        BY <1>5 DEF PathInv, PathTypeOK, HandlerRows, EnvelopeInv, Handle
    <2>2. envelopes[r].op \in Ops
        BY <2>1 DEF PathInv, PathTypeOK
    <2>3. Cached(r) \/ Executed(r) \/ Failed(r) \/ NotRun
        BY <1>5 DEF Handle
    <2>4. CaseStep
        BY <2>2, <2>3 DEF Cached, Executed, Failed, NotRun, CaseStep, Dispatched
    <2>5. QED
        BY <1>5, <2>4 DEF PathSteps
<1>6. ASSUME NEW r \in Requests,
             (\E op \in Ops : Sign(r, op)) \/ Refuse(r) \/ Collect(r)
      PROVE  CaseStep /\ PathSteps
    <2>1. UNCHANGED caseVars
        BY <1>6 DEF Sign, Refuse, Collect
    <2>2. QED
        BY <1>6, <2>1 DEF CaseStep, PathSteps
<1>7. ASSUME NEW h \in Handlers,
             \/ \E r \in Requests : Reserve(h, r) \/ Redeliver(h, r)
             \/ StopJobs(h) \/ Complete(h) \/ Leave(h)
      PROVE  CaseStep /\ PathSteps
    <2>1. UNCHANGED caseVars
        BY <1>7 DEF Reserve, Redeliver, StopJobs, Complete, Leave
    <2>2. QED
        BY <1>7, <2>1 DEF CaseStep, PathSteps
<1>8. ASSUME NEW t \in 0 .. MaxTime, SetClock(t) PROVE CaseStep /\ PathSteps
    BY <1>8 DEF SetClock, CaseStep, PathSteps
<1>9. CASE Restart
    BY <1>9 DEF Restart, CaseStep, PathSteps
<1>10. QED
    BY <1>1, <1>2, <1>3, <1>4, <1>5, <1>6, <1>7, <1>8, <1>9 DEF Next

LEMMA PathStart == ASSUME Init PROVE PathInv
<1>1. 0 \in 0 .. MaxTime /\ now = 0 /\ highWater = 0 /\ stopped = FALSE
    BY RequestAssumption DEF Init
<1>2. /\ envelopes = [r \in Requests |-> None] /\ replay = [r \in Requests |-> None]
      /\ answers = [r \in Requests |-> None] /\ handlers = [h \in Handlers |-> None]
      /\ applied = [r \in Requests |-> 0]
    BY DEF Init
<1>3. PathTypeOK
    <2>1. /\ envelopes \in [Requests -> [op : Ops, version : Nat, at : 0 .. MaxTime] \cup {None}]
          /\ replay \in [Requests -> [state : {"reserved", "completed", "rejected"},
                                      until : Nat] \cup {None}]
        BY <1>2
    <2>2. /\ answers \in [Requests -> Answers \cup {None}]
          /\ handlers \in [Handlers -> HandlerRows \cup {None}]
          /\ applied \in [Requests -> 0 .. 2]
        BY <1>2
    <2>3. QED
        BY <1>1, <2>1, <2>2 DEF PathTypeOK
<1>4. HandlerInv /\ EnvelopeInv
    BY <1>2 DEF HandlerInv, EnvelopeInv
<1>5. AnswersHold
    BY <1>2, RequestAssumption DEF AnswersHold, Answers
<1>6. QED
    BY <1>3, <1>4, <1>5 DEF PathInv

\* Signing, refusing, collecting: no delivery moves.
LEMMA LedgerKept ==
    ASSUME PathInv, task.version \in Nat, NEW r \in Requests,
           (\E op \in Ops : Sign(r, op)) \/ Refuse(r) \/ Collect(r)
    PROVE  PathInv'
<1>1. ASSUME NEW op \in Ops, Sign(r, op) PROVE PathInv'
    <2> DEFINE e == [op |-> op, version |-> task.version, at |-> now]
    <2>1. /\ envelopes' = [envelopes EXCEPT ![r] = e] /\ envelopes[r] = None
          /\ UNCHANGED <<now, highWater, replay, answers, handlers, stopped, applied>>
        BY <1>1 DEF Sign
    <2>2. e \in [op : Ops, version : Nat, at : 0 .. MaxTime]
        BY DEF PathInv, PathTypeOK
    <2> HIDE DEF e
    <2>3. envelopes' \in [Requests -> [op : Ops, version : Nat, at : 0 .. MaxTime] \cup {None}]
        BY <2>1, <2>2 DEF PathInv, PathTypeOK
    <2>4. /\ PathTypeOK' /\ HandlerInv'
          /\ \A q \in Requests \ {r} : envelopes'[q] = envelopes[q]
        BY <2>1, <2>3 DEF PathInv, PathTypeOK, HandlerInv
    <2>5. replay[r] = None /\ \A h \in Handlers : handlers[h] # None => handlers[h].req # r
        BY <2>1 DEF PathInv, EnvelopeInv
    <2>6. EnvelopeInv' /\ AnswersHold'
        BY <2>1, <2>4, <2>5
           DEF PathInv, PathTypeOK, HandlerRows, EnvelopeInv, AnswersHold
    <2>7. QED
        BY <2>4, <2>6 DEF PathInv
<1>2. CASE Refuse(r)
    <2>1. /\ highWater' \in 0 .. MaxTime
          /\ UNCHANGED <<now, envelopes, replay, answers, handlers, stopped, applied>>
        BY <1>2 DEF PathInv, PathTypeOK, Refuse, NoteClock
    <2>2. QED
        BY <2>1 DEF PathInv, PathTypeOK, HandlerInv, EnvelopeInv, AnswersHold
<1>3. CASE Collect(r)
    <2>1. /\ replay' = [replay EXCEPT ![r] = None]
          /\ UNCHANGED <<now, highWater, envelopes, answers, handlers, stopped, applied>>
        BY <1>3 DEF Collect
    <2>2. \A q \in Requests : replay'[q] \in {replay[q], None}
        BY <2>1 DEF PathInv, PathTypeOK
    <2>3. PathTypeOK' /\ HandlerInv'
        BY <2>1, <2>2 DEF PathInv, PathTypeOK, HandlerInv
    <2>4. EnvelopeInv' /\ AnswersHold'
        BY <2>1, <2>2 DEF PathInv, EnvelopeInv, AnswersHold
    <2>5. QED
        BY <2>3, <2>4 DEF PathInv
<1>4. QED
    BY <1>1, <1>2, <1>3

\* A delivery enters with what the ledger says of its request.
LEMMA EnterKept ==
    ASSUME PathInv, NEW h \in Handlers, NEW r \in Requests, Reserve(h, r) \/ Redeliver(h, r)
    PROVE  PathInv'
<1>1. /\ highWater' \in 0 .. MaxTime /\ envelopes[r] # None
      /\ UNCHANGED <<now, envelopes, answers, stopped, applied>>
    BY DEF PathInv, PathTypeOK, EnvelopeInv, Reserve, Redeliver, NoteClock
<1>2. PICK state \in {"reserved", "completed", "rejected"} : Enter(h, r, state)
    BY DEF PathInv, PathTypeOK, Reserve, Redeliver
<1> DEFINE row == [req |-> r, seen |-> state, step |-> "reserved", ok |-> FALSE]
<1>3. row \in HandlerRows /\ row.req = r /\ row.step = "reserved" /\ row.ok = FALSE
    BY DEF HandlerRows
<1>4. handlers' = [handlers EXCEPT ![h] = row]
    BY <1>2 DEF Enter
<1> HIDE DEF row
<1>5. /\ handlers' \in [Handlers -> HandlerRows \cup {None}]
      /\ handlers'[h] = row /\ \A g \in Handlers \ {h} : handlers'[g] = handlers[g]
    BY <1>3, <1>4 DEF PathInv, PathTypeOK
<1>6. /\ replay' \in [Requests -> [state : {"reserved", "completed", "rejected"},
                                   until : Nat] \cup {None}]
      /\ \A q \in Requests \ {r} : replay'[q] = replay[q]
      /\ replay'[r] = replay[r] \/ replay'[r].state = "reserved"
    <2>1. CASE Reserve(h, r)
        <3> DEFINE fresh == [state |-> "reserved", until |-> now + Retain]
        <3>1. fresh \in [state : {"reserved", "completed", "rejected"}, until : Nat]
            BY RequestAssumption DEF PathInv, PathTypeOK
        <3>2. replay' = [replay EXCEPT ![r] = fresh] /\ fresh.state = "reserved"
            BY <2>1 DEF Reserve
        <3> HIDE DEF fresh
        <3>3. QED
            BY <3>1, <3>2 DEF PathInv, PathTypeOK
    <2>2. CASE Redeliver(h, r)
        BY <2>2 DEF PathInv, PathTypeOK, Redeliver
    <2>3. QED
        BY <2>1, <2>2
<1>7. PathTypeOK'
    BY <1>1, <1>5, <1>6 DEF PathInv, PathTypeOK
<1>8. HandlerInv' /\ EnvelopeInv'
    BY <1>1, <1>3, <1>5, <1>6 DEF PathInv, HandlerInv, EnvelopeInv
<1>9. AnswersHold'
    BY <1>1, <1>6 DEF PathInv, AnswersHold
<1>10. QED
    BY <1>7, <1>8, <1>9 DEF PathInv

\* A delivery has its result, with its row and what it leaves alone.
LEMMA AnsweredRow ==
    ASSUME PathInv, NEW h \in Handlers, handlers[h] # None, NEW ok \in BOOLEAN, Answered(h, ok)
    PROVE  /\ handlers[h].req \in Requests
           /\ handlers' \in [Handlers -> HandlerRows \cup {None}]
           /\ handlers'[h].req = handlers[h].req /\ handlers'[h].step = "answered"
           /\ handlers'[h].ok = ok
           /\ \A g \in Handlers \ {h} : handlers'[g] = handlers[g]
<1> DEFINE row == [handlers[h] EXCEPT !.step = "answered", !.ok = ok]
<1>1. /\ handlers[h] \in HandlerRows /\ row \in HandlerRows
      /\ row.req = handlers[h].req /\ row.step = "answered" /\ row.ok = ok
    BY DEF PathInv, PathTypeOK, HandlerRows
<1>2. handlers' = [handlers EXCEPT ![h] = row]
    BY DEF Answered
<1> HIDE DEF row
<1>3. QED
    BY <1>1, <1>2 DEF PathInv, PathTypeOK, HandlerRows

\* What Application.handle leaves in its table: an answer for good, and one change of
\* the task with the answer ok.
LEMMA AnswerKept ==
    ASSUME PathInv, NEW r \in Requests,
           Cached(r) \/ Executed(r) \/ Failed(r) \/ NotRun
    PROVE  /\ answers' \in [Requests -> Answers \cup {None}]
           /\ applied' \in [Requests -> 0 .. 2]
           /\ applied'[r] = IF answers'[r] = "ok" THEN 1 ELSE 0
           /\ answers[r] # None => answers'[r] = answers[r]
           /\ Executed(r) => answers'[r] = "ok"
           /\ \A q \in Requests \ {r} : answers'[q] = answers[q] /\ applied'[q] = applied[q]
<1> USE DEF Answers
<1>1. answers[r] = None => applied[r] = 0
    BY RequestAssumption DEF PathInv, AnswersHold
<1>2. CASE Executed(r)
    <2>1. /\ answers' = [answers EXCEPT ![r] = "ok"] /\ answers[r] = None
          /\ applied' = [applied EXCEPT ![r] = @ + 1]
        BY <1>2 DEF Executed
    <2>2. applied' = [applied EXCEPT ![r] = 1]
        <3>1. applied[r] = 0
            BY <1>1, <2>1
        <3>2. QED
            BY <2>1, <3>1
    <2>3. /\ answers'[r] = "ok" /\ answers' \in [Requests -> Answers \cup {None}]
          /\ \A q \in Requests \ {r} : answers'[q] = answers[q]
        BY <2>1 DEF PathInv, PathTypeOK
    <2>4. /\ applied'[r] = 1 /\ applied' \in [Requests -> 0 .. 2]
          /\ \A q \in Requests \ {r} : applied'[q] = applied[q]
        BY <2>2 DEF PathInv, PathTypeOK
    <2>5. QED
        BY <2>1, <2>3, <2>4
<1>3. CASE (Cached(r) \/ NotRun) /\ ~Executed(r)
    BY <1>3 DEF PathInv, PathTypeOK, AnswersHold, Cached, NotRun
<1>4. CASE Failed(r) /\ ~Executed(r)
    <2>1. PICK e \in {"error", "storage_error"} : answers' = [answers EXCEPT ![r] = e]
        BY <1>4 DEF Failed
    <2>2. answers[r] = None /\ applied' = applied
        BY <1>4 DEF Failed
    <2>3. QED
        BY <1>1, <1>4, <2>1, <2>2, RequestAssumption DEF PathInv, PathTypeOK
<1>5. QED
    BY <1>2, <1>3, <1>4

LEMMA HandleKept ==
    ASSUME PathInv, NEW h \in Handlers, Handle(h)
    PROVE  PathInv'
<1> DEFINE r == handlers[h].req
<1>1. /\ handlers[h] # None
      /\ Cached(r) \/ Executed(r) \/ Failed(r) \/ NotRun
      /\ UNCHANGED <<now, highWater, envelopes, replay, stopped>>
    BY DEF Handle
<1>2. PICK ok \in BOOLEAN :
          Answered(h, ok) /\ (ok => Executed(r) \/ (Cached(r) /\ answers[r] = "ok"))
    BY DEF Handle
<1>3. /\ r \in Requests /\ handlers' \in [Handlers -> HandlerRows \cup {None}]
      /\ handlers'[h].req = r /\ handlers'[h].step = "answered" /\ handlers'[h].ok = ok
      /\ \A g \in Handlers \ {h} : handlers'[g] = handlers[g]
    BY <1>1, <1>2, AnsweredRow
<1>4. envelopes[r] # None
    BY <1>1 DEF PathInv, EnvelopeInv
<1> HIDE DEF r
<1>5. /\ answers' \in [Requests -> Answers \cup {None}]
      /\ applied' \in [Requests -> 0 .. 2]
      /\ applied'[r] = IF answers'[r] = "ok" THEN 1 ELSE 0
      /\ answers[r] # None => answers'[r] = answers[r]
      /\ Executed(r) => answers'[r] = "ok"
      /\ \A q \in Requests \ {r} : answers'[q] = answers[q] /\ applied'[q] = applied[q]
    BY <1>1, <1>3, AnswerKept
<1>6. PathTypeOK'
    BY <1>1, <1>3, <1>5 DEF PathInv, PathTypeOK
<1>7. \A q \in Requests : answers[q] = "ok" => answers'[q] = "ok"
    BY <1>5, RequestAssumption DEF Answers
<1>8. HandlerInv'
    <2>1. ok => answers'[r] = "ok"
        BY <1>2, <1>3, <1>5, <1>7
    <2>2. \A g \in Handlers : handlers[g] # None => handlers[g].req \in Requests
        BY DEF PathInv, PathTypeOK, HandlerRows
    <2>3. QED
        BY <1>1, <1>3, <1>7, <2>1, <2>2 DEF PathInv, HandlerInv
<1>9. EnvelopeInv'
    BY <1>1, <1>3, <1>4 DEF PathInv, EnvelopeInv
<1>10. AnswersHold'
    BY <1>1, <1>5, <1>7 DEF PathInv, AnswersHold
<1>11. QED
    BY <1>6, <1>8, <1>9, <1>10 DEF PathInv

LEMMA StopKept ==
    ASSUME PathInv, NEW h \in Handlers, StopJobs(h)
    PROVE  PathInv'
<1> DEFINE row == [handlers[h] EXCEPT !.step = "stopped"]
<1>1. /\ handlers[h] # None /\ handlers' = [handlers EXCEPT ![h] = row] /\ stopped' = TRUE
      /\ UNCHANGED <<now, highWater, envelopes, replay, answers, applied>>
    BY DEF StopJobs
<1>2. /\ row \in HandlerRows /\ row.req = handlers[h].req /\ row.ok = handlers[h].ok
      /\ row.step = "stopped"
    BY <1>1 DEF PathInv, PathTypeOK, HandlerRows
<1> HIDE DEF row
<1>3. /\ handlers' \in [Handlers -> HandlerRows \cup {None}]
      /\ handlers'[h] = row
      /\ \A g \in Handlers \ {h} : handlers'[g] = handlers[g]
    BY <1>1, <1>2 DEF PathInv, PathTypeOK
<1>4. PathTypeOK' /\ HandlerInv'
    BY <1>1, <1>2, <1>3 DEF PathInv, PathTypeOK, HandlerInv
<1>5. EnvelopeInv' /\ AnswersHold'
    BY <1>1, <1>2, <1>3 DEF PathInv, EnvelopeInv, AnswersHold
<1>6. QED
    BY <1>4, <1>5 DEF PathInv

\* A delivery completes its request only with the answer ok, and that of a cancel after
\* its jobs; any other completion rejects it.
LEMMA CompleteKept ==
    ASSUME PathInv, NEW h \in Handlers, Complete(h)
    PROVE  PathInv'
<1> DEFINE r  == handlers[h].req
           ok == handlers[h].ok
<1>1. /\ handlers[h] # None /\ handlers[h].step # "reserved" /\ replay' = Ended(r, ok)
      /\ envelopes[r].op = "cancel" /\ ok => handlers[h].step = "stopped"
      /\ handlers' = [handlers EXCEPT ![h] = None]
      /\ UNCHANGED <<now, highWater, envelopes, answers, stopped, applied>>
    BY DEF Complete, End, Stops
<1>2. r \in Requests /\ ok \in BOOLEAN
    BY <1>1 DEF PathInv, PathTypeOK, HandlerRows
<1>3. ok => answers[r] = "ok" /\ (envelopes[r].op = "cancel" => stopped)
    BY <1>1, <1>2 DEF PathInv, HandlerInv
<1>4. /\ handlers' \in [Handlers -> HandlerRows \cup {None}]
      /\ \A g \in Handlers : handlers'[g] \in {handlers[g], None}
    BY <1>1 DEF PathInv, PathTypeOK
<1> HIDE DEF r, ok
<1>5. /\ replay' \in [Requests -> [state : {"reserved", "completed", "rejected"},
                                   until : Nat] \cup {None}]
      /\ \A q \in Requests \ {r} : replay'[q] = replay[q]
      /\ \/ replay'[r] = replay[r]
         \/ replay[r] # None /\ replay'[r].state = IF ok THEN "completed" ELSE "rejected"
    <2>1. CASE replay[r] # None /\ replay[r].state = "reserved"
        <3> DEFINE row == [replay[r] EXCEPT !.state = IF ok THEN "completed" ELSE "rejected"]
        <3>1. /\ row \in [state : {"reserved", "completed", "rejected"}, until : Nat]
              /\ row.state = IF ok THEN "completed" ELSE "rejected"
            BY <1>2, <2>1 DEF PathInv, PathTypeOK
        <3>2. replay' = [replay EXCEPT ![r] = row]
            BY <1>1, <2>1 DEF Ended
        <3> HIDE DEF row
        <3>3. QED
            BY <1>2, <2>1, <3>1, <3>2 DEF PathInv, PathTypeOK
    <2>2. CASE ~(replay[r] # None /\ replay[r].state = "reserved")
        BY <1>1, <2>2 DEF Ended, PathInv, PathTypeOK
    <2>3. QED
        BY <2>1, <2>2
<1>6. PathTypeOK' /\ HandlerInv'
    BY <1>1, <1>4, <1>5 DEF PathInv, PathTypeOK, HandlerInv
<1>7. EnvelopeInv'
    BY <1>1, <1>4, <1>5 DEF PathInv, EnvelopeInv
<1>8. AnswersHold'
    BY <1>1, <1>2, <1>3, <1>5 DEF PathInv, AnswersHold
<1>9. QED
    BY <1>6, <1>7, <1>8 DEF PathInv

LEMMA PathKept ==
    ASSUME PathInv, task.version \in Nat, PathSteps
    PROVE  PathInv'
<1>1. CASE UNCHANGED pathVars
    BY <1>1 DEF pathVars, PathInv, PathTypeOK, HandlerInv, EnvelopeInv, AnswersHold
<1>2. ASSUME NEW h \in Handlers, Leave(h) PROVE PathInv'
    <2>1. /\ UNCHANGED <<now, highWater, envelopes, replay, answers, stopped, applied>>
          /\ handlers' \in [Handlers -> HandlerRows \cup {None}]
          /\ \A g \in Handlers : handlers'[g] \in {handlers[g], None}
        BY <1>2 DEF Leave, End, PathInv, PathTypeOK
    <2>2. QED
        BY <2>1 DEF PathInv, PathTypeOK, HandlerInv, EnvelopeInv, AnswersHold
<1>3. CASE Restart
    <2>1. /\ UNCHANGED <<now, highWater, envelopes, replay, answers, stopped, applied>>
          /\ handlers' \in [Handlers -> HandlerRows \cup {None}]
          /\ \A g \in Handlers : handlers'[g] = None
        BY <1>3 DEF Restart
    <2>2. QED
        BY <2>1 DEF PathInv, PathTypeOK, HandlerInv, EnvelopeInv, AnswersHold
<1>4. ASSUME NEW t \in 0 .. MaxTime, SetClock(t) PROVE PathInv'
    <2>1. /\ UNCHANGED <<highWater, envelopes, replay, answers, handlers, stopped, applied>>
          /\ now' \in 0 .. MaxTime
        BY <1>4 DEF SetClock
    <2>2. QED
        BY <2>1 DEF PathInv, PathTypeOK, HandlerInv, EnvelopeInv, AnswersHold
<1>5. QED
    BY <1>1, <1>2, <1>3, <1>4, LedgerKept, EnterKept, HandleKept, StopKept, CompleteKept
       DEF PathSteps

-------------------------------------------------------------------------------
(* The theorems.                                                               *)

\* The inductive invariant: of the task, and of the ledgers; they share only its version.
IInv == CaseInv /\ PathInv

LEMMA TypeSplit == TypeOK <=> CaseTypeOK /\ PathTypeOK
BY DEF TypeOK, PathTypeOK, HandlerRows, Envelopes, Receipts

LEMMA IInvKept ==
    ASSUME IInv, [Next]_vars
    PROVE  IInv' /\ CaseStep
<1>1. CaseStep /\ PathSteps
    BY PathIsCase DEF IInv
<1>2. task.version \in Nat
    BY DEF IInv, CaseInv, CaseTypeOK, TaskRows
<1>3. QED
    BY <1>1, <1>2, CaseKept, PathKept DEF IInv

LEMMA Inductive == Spec => []IInv
<1>1. Init => IInv
    BY CaseStart, PathStart DEF Init, IInv
<1>2. IInv /\ [Next]_vars => IInv'
    BY IInvKept
<1>3. QED
    BY <1>1, <1>2, PTL DEF Spec

\* The task row, its batches and the rows of the ledgers stay well formed, whatever is
\* edited, processed, delivered again or interrupted (Store, IdentityLedger).
THEOREM TypeCorrect == Spec => []TypeOK
<1>1. IInv => TypeOK
    BY TypeSplit DEF IInv, CaseInv, PathInv
<1>2. QED
    BY <1>1, Inductive, PTL

\* For any number of requests, deliveries and restarts, and whatever the clock does: a
\* request changes the task at most once, its cached answer says whether it did, and
\* the identity ledger calls it completed only after it did, and after the jobs of a
\* cancel were stopped (ControllerBridge.handle, Application.handle).
THEOREM AnswersCorrect == Spec => []AnswersHold
<1>1. IInv => AnswersHold
    BY DEF IInv, PathInv
<1>2. QED
    BY <1>1, Inductive, PTL

\* For any number of sources, batches and processors: the task says of a source what
\* the last claim of its current batch published (Processor.publish).
THEOREM TruthPublished == Spec => []PublishedTruth
<1>1. IInv => PublishedTruth
    BY DEF IInv, CaseInv
<1>2. QED
    BY <1>1, Inductive, PTL

\* An artifact contains exactly what its owner confirmed, with nothing still waiting
\* to be processed (gate, Engine.generate).
THEOREM OutputConfirmed == Spec => []OutputIsConfirmed
<1>1. IInv => OutputIsConfirmed
    BY DEF IInv, CaseInv
<1>2. QED
    BY <1>1, Inductive, PTL

\* No step after a cancel changes the task, or stages, publishes or renders anything of
\* it (Processor._check, _discard_cancelled_staging).
THEOREM CancelFinal == Spec => CancelledIsFinal
<1>1. ASSUME IInv, [Next]_vars, task.state = "cancelled"
      PROVE  /\ UNCHANGED <<task, packages, manifest, outputs>>
             /\ \A b \in Batches : staging'[b] = None
    <2>1. UNCHANGED <<task, batches, packages, staging, manifest, outputs>>
        BY <1>1, IInvKept, CancelledStays DEF IInv, CaseInv
    <2>2. \A b \in Batches : staging[b] = None
        BY <1>1 DEF IInv, CaseInv, StageInv
    <2>3. QED
        BY <2>1, <2>2
<1>2. IInv /\ [Next]_vars =>
         [task.state = "cancelled" =>
             /\ UNCHANGED <<task, packages, manifest, outputs>>
             /\ \A b \in Batches : staging'[b] = None]_vars
    BY <1>1
<1>3. QED
    BY <1>2, Inductive, PTL DEF Spec, CancelledIsFinal

-------------------------------------------------------------------------------
(* The claims of processors.                                                   *)

\* A token is of the past or of the present, and no two processors have the same.
FenceInv ==
    /\ \A p \in Procs : procs[p] # None => procs[p].fence <= runs[procs[p].batch].fence
    /\ \A b \in Batches, p, q \in Procs :
          p # q /\ On(p, b) /\ On(q, b) => procs[p].fence # procs[q].fence

\* What a holder finds of its earlier transactions.
HolderInv ==
    \A p \in Procs : Holds(p) =>
        LET b == procs[p].batch
        IN  /\ procs[p].step # "claimed" => runs[b].status = "processing"
            /\ procs[p].step = "staged" =>
                  staging[b] = [fence |-> procs[p].fence, res |-> procs[p].res]

ClaimInv == FenceInv /\ HolderInv

\* Each claim goes on or is dropped; tokens only grow; what was published stays.
ProcLeft == [claimed |-> 3, parsing |-> 2, staged |-> 1]
ClaimGoesOn ==
    /\ \A p \in Procs :
          \/ procs'[p] = procs[p] \/ procs'[p] = None
          \/ /\ procs[p] # None /\ procs'[p].batch = procs[p].batch
             /\ procs'[p].fence = procs[p].fence
             /\ ProcLeft[procs'[p].step] < ProcLeft[procs[p].step]
          \/ /\ procs[p] = None /\ procs'[p].step = "claimed"
             /\ procs'[p].fence = runs[procs'[p].batch].fence + 1
    /\ \A b \in Batches :
          /\ runs'[b].fence >= runs[b].fence
          /\ runs[b].status = "done" =>
                 /\ runs'[b].status = "done" /\ runs'[b].fence = runs[b].fence
                 /\ manifest'[b] = manifest[b]
ClaimsGoOn == [][ClaimGoesOn]_vars

\* A step that leaves every claim alone, and the staged results too unless it cancels.
LEMMA ClaimsStay ==
    ASSUME CaseInv, ClaimInv, UNCHANGED <<runs, procs, manifest>>,
           task.state = "cancelled" => task'.state = "cancelled",
           staging' = staging \/ task'.state = "cancelled"
    PROVE  ClaimInv' /\ ClaimGoesOn
<1>1. FenceInv'
    BY DEF ClaimInv, FenceInv, On
<1>2. HolderInv'
    BY DEF ClaimInv, HolderInv, Holds
<1>4. ClaimGoesOn
    BY DEF ClaimGoesOn, CaseInv, CaseTypeOK, RunRows
<1>5. QED
    BY <1>1, <1>2, <1>4 DEF ClaimInv

\* A lease that ends takes the batch from its holder.
LEMMA LeaseClaims ==
    ASSUME CaseInv, ClaimInv, NEW b \in Batches, LeaseEnds(b)
    PROVE  ClaimInv' /\ ClaimGoesOn
<1> DEFINE run == [runs[b] EXCEPT !.live = FALSE]
<1>1. /\ runs' = [runs EXCEPT ![b] = run] 
      /\ UNCHANGED <<task, staging, manifest, procs>>
    BY CaseAssumption DEF LeaseEnds, CaseInv, CaseTypeOK, RunRows
<1>2. /\ run.status = runs[b].status /\ run.fence = runs[b].fence /\ run.live = FALSE
      /\ run.fence \in Nat
    BY DEF CaseInv, CaseTypeOK, RunRows
<1> HIDE DEF run
<1>3. /\ \A c \in Batches : /\ runs'[c].status = runs[c].status
                            /\ runs'[c].fence = runs[c].fence /\ runs[c].fence \in Nat
      /\ \A c \in Batches \ {b} : runs'[c] = runs[c]
      /\ ~runs'[b].live
    BY <1>1, <1>2 DEF CaseInv, CaseTypeOK, RunRows
<1>4. \A p \in Procs : procs[p] # None => procs[p].batch \in Batches
    BY DEF CaseInv, CaseTypeOK, ProcRows
<1>5. FenceInv'
    BY <1>1, <1>3, <1>4 DEF ClaimInv, FenceInv, On
<1>6. HolderInv'
    BY <1>1, <1>3, <1>4 DEF ClaimInv, HolderInv, Holds
<1>8. ClaimGoesOn
    BY <1>1, <1>3 DEF ClaimGoesOn
<1>9. QED
    BY <1>5, <1>6, <1>8 DEF ClaimInv

\* A claim is made under a token of its own, later than every other.
LEMMA ClaimClaims ==
    ASSUME CaseInv, ClaimInv, NEW p \in Procs, NEW b \in Batches, Claim(p, b)
    PROVE  ClaimInv' /\ ClaimGoesOn
<1> DEFINE run  == [status |-> "claimed", fence |-> runs[b].fence + 1, live |-> TRUE]
           proc == [batch |-> b, fence |-> runs[b].fence + 1, res |-> [s \in {} |-> "read"],
                    step |-> "claimed"]
<1>1. /\ runs' = [runs EXCEPT ![b] = run] /\ procs' = [procs EXCEPT ![p] = proc]
      /\ staging' = [staging EXCEPT ![b] = None] /\ UNCHANGED <<task, manifest>>
      /\ procs[p] = None /\ runs[b].status # "done"
    BY DEF Claim
<1>2. /\ run.status = "claimed" /\ run.fence = runs[b].fence + 1 /\ run.live
      /\ proc.batch = b /\ proc.fence = runs[b].fence + 1 /\ proc.step = "claimed"
    OBVIOUS
<1>3. proc # None
    <2>1. runs[b].fence + 1 \in 1 .. MaxFence
        BY CaseAssumption DEF Claim, CaseInv, CaseTypeOK, RunRows
    <2>2. [s \in {} |-> "read"] \in Results
        BY DEF Results
    <2>3. QED
        BY <2>1, <2>2, CaseAssumption DEF ProcRows
<1> HIDE DEF run, proc
<1>4. /\ runs'[b] = run /\ \A c \in Batches \ {b} : runs'[c] = runs[c]
      /\ procs'[p] = proc /\ \A q \in Procs \ {p} : procs'[q] = procs[q]
      /\ \A c \in Batches \ {b} : staging'[c] = staging[c]
    BY <1>1 DEF CaseInv, CaseTypeOK
<1>5. /\ \A c \in Batches : runs[c].fence \in Nat
      /\ \A q \in Procs : procs[q] # None => procs[q].batch \in Batches /\ procs[q].fence \in Nat
    BY DEF CaseInv, CaseTypeOK, RunRows, ProcRows
<1>6. \A q \in Procs \ {p} : On(q, b) => procs[q].fence <= runs[b].fence
    BY DEF ClaimInv, FenceInv, On
<1>7. FenceInv'
    BY <1>2, <1>3, <1>4, <1>5, <1>6 DEF ClaimInv, FenceInv, On
<1>8. HolderInv'
    <2> SUFFICES ASSUME NEW q \in Procs, Holds(q)'
                 PROVE  LET c == procs'[q].batch
                        IN  /\ procs'[q].step # "claimed" => runs'[c].status = "processing"
                            /\ procs'[q].step = "staged" =>
                                  staging'[c] = [fence |-> procs'[q].fence, res |-> procs'[q].res]
        BY DEF HolderInv
    <2>1. CASE q = p
        BY <1>2, <1>4, <2>1
    <2>2. CASE q # p
        <3>1. procs'[q] = procs[q] /\ procs[q] # None /\ procs[q].batch \in Batches
            BY <1>4, <1>5, <2>2 DEF Holds
        <3>2. procs[q].batch # b
            BY <1>2, <1>4, <1>5, <1>6, <2>2, <3>1 DEF Holds, On
        <3>3. Holds(q)
            BY <1>1, <1>4, <3>1, <3>2 DEF Holds
        <3>4. QED
            BY <1>4, <3>1, <3>2, <3>3 DEF ClaimInv, HolderInv
    <2>3. QED
        BY <2>1, <2>2
<1>10. ClaimGoesOn
    BY <1>1, <1>2, <1>4, <1>5 DEF ClaimGoesOn
<1>11. QED
    BY <1>7, <1>8, <1>10 DEF ClaimInv

\* A processor that gives up or dies holds nothing any more.
LEMMA DropClaims ==
    ASSUME CaseInv, ClaimInv, NEW p \in Procs, GiveUp(p) \/ Die(p)
    PROVE  ClaimInv' /\ ClaimGoesOn
<1>1. /\ procs' = [procs EXCEPT ![p] = None] /\ UNCHANGED <<task, runs, staging, manifest>>
    BY DEF GiveUp, Die
<1>2. procs'[p] = None /\ \A q \in Procs \ {p} : procs'[q] = procs[q]
    BY <1>1 DEF CaseInv, CaseTypeOK
<1>3. FenceInv'
    BY <1>1, <1>2 DEF ClaimInv, FenceInv, On
<1>4. HolderInv'
    BY <1>1, <1>2 DEF ClaimInv, HolderInv, Holds
<1>6. ClaimGoesOn
    BY <1>1, <1>2 DEF ClaimGoesOn, CaseInv, CaseTypeOK, RunRows
<1>7. QED
    BY <1>3, <1>4, <1>6 DEF ClaimInv

\* A holder goes on: nobody else holds its batch, so what the others hold is untouched.
LEMMA HolderClaims ==
    ASSUME CaseInv, ClaimInv, NEW p \in Procs, Holds(p),
           procs'[p] # None, procs'[p].batch = procs[p].batch,
           procs'[p].fence = procs[p].fence,
           procs'[p].step \in {"parsing", "staged"},
           ProcLeft[procs'[p].step] < ProcLeft[procs[p].step],
           \A q \in Procs \ {p} : procs'[q] = procs[q],
           runs'[procs[p].batch].status = "processing",
           runs'[procs[p].batch].fence = runs[procs[p].batch].fence,
           runs'[procs[p].batch].live,
           \A c \in Batches \ {procs[p].batch} : runs'[c] = runs[c] /\ staging'[c] = staging[c],
           procs'[p].step = "staged" =>
              staging'[procs[p].batch] = [fence |-> procs'[p].fence, res |-> procs'[p].res],
           UNCHANGED <<task, manifest>>
    PROVE  ClaimInv' /\ ClaimGoesOn
<1> DEFINE b == procs[p].batch
<1>1. /\ On(p, b) /\ runs[b].fence = procs[p].fence /\ runs[b].live
      /\ runs[b].status # "done" /\ task.state # "cancelled"
    BY DEF On, Holds
<1>2. /\ b \in Batches /\ \A c \in Batches : runs[c].fence \in Nat
      /\ \A q \in Procs : procs[q] # None => procs[q].batch \in Batches
    BY <1>1 DEF CaseInv, CaseTypeOK, RunRows, ProcRows, On
<1>3. FenceInv'
    BY <1>1, <1>2 DEF ClaimInv, FenceInv, On
<1>4. HolderInv'
    <2> SUFFICES ASSUME NEW q \in Procs, Holds(q)'
                 PROVE  LET c == procs'[q].batch
                        IN  /\ procs'[q].step # "claimed" => runs'[c].status = "processing"
                            /\ procs'[q].step = "staged" =>
                                  staging'[c] = [fence |-> procs'[q].fence, res |-> procs'[q].res]
        BY DEF HolderInv
    <2>1. CASE q = p
        BY <2>1
    <2>2. CASE q # p
        <3>1. procs'[q] = procs[q] /\ procs[q] # None /\ procs[q].batch \in Batches
            BY <1>2, <2>2 DEF Holds
        <3>2. procs[q].batch # b
            BY <1>1, <1>2, <2>2, <3>1 DEF Holds, ClaimInv, FenceInv, On
        <3>3. Holds(q)
            BY <3>1, <3>2 DEF Holds
        <3>4. QED
            BY <3>1, <3>2, <3>3 DEF ClaimInv, HolderInv
    <2>3. QED
        BY <2>1, <2>2
<1>6. ClaimGoesOn
    BY <1>1, <1>2 DEF ClaimGoesOn, On
<1>7. QED
    BY <1>3, <1>4, <1>6 DEF ClaimInv

LEMMA ParseClaims ==
    ASSUME CaseInv, ClaimInv, NEW p \in Procs, BeginParse(p) \/ Stage(p)
    PROVE  ClaimInv' /\ ClaimGoesOn
<1> DEFINE b == procs[p].batch
<1>1. Holds(p) /\ procs[p] # None /\ UNCHANGED <<task, manifest>>
    BY DEF BeginParse, Stage, Holds
<1>2. /\ procs[p] \in ProcRows /\ b \in Batches /\ runs \in [Batches -> RunRows]
      /\ runs[b] \in RunRows /\ runs[b].live
    BY <1>1 DEF CaseInv, CaseTypeOK, ProcRows, Holds
<1>3. CaseTypeOK'
    BY EndCase, StageCase DEF CaseInv
<1>4. CASE BeginParse(p)
    <2> DEFINE run  == [runs[b] EXCEPT !.status = "processing"]
               proc == [procs[p] EXCEPT !.step = "parsing"]
    <2>1. /\ runs' = [runs EXCEPT ![b] = run] /\ procs' = [procs EXCEPT ![p] = proc]
          /\ staging' = staging /\ procs[p].step = "claimed"
        BY <1>4 DEF BeginParse
    <2>2. run.status = "processing" /\ run.fence = runs[b].fence /\ run.live
        BY <1>2 DEF RunRows
    <2>3. /\ proc.batch = b /\ proc.fence = procs[p].fence /\ proc.step = "parsing"
          /\ proc \in ProcRows
        BY <1>2 DEF ProcRows
    <2> HIDE DEF run, proc, b
    <2>4. proc # None
        BY <2>3, CaseAssumption
    <2>5. /\ procs'[p] = proc /\ \A q \in Procs \ {p} : procs'[q] = procs[q]
          /\ runs'[b] = run /\ \A c \in Batches \ {b} : runs'[c] = runs[c]
        BY <1>2, <2>1 DEF CaseInv, CaseTypeOK
    <2>6. ProcLeft["parsing"] < ProcLeft["claimed"]
        BY DEF ProcLeft
    <2>7. QED
        BY <1>1, <2>1, <2>2, <2>3, <2>4, <2>5, <2>6, HolderClaims DEF b
<1>5. CASE Stage(p)
    <2>1. PICK res \in [batches[b].srcs -> Read] :
              /\ staging' = [staging EXCEPT ![b] = [fence |-> procs[p].fence, res |-> res]]
              /\ procs' = [procs EXCEPT ![p].step = "staged", ![p].res = res]
        BY <1>5 DEF Stage
    <2>2. runs' = runs /\ procs[p].step = "parsing"
        BY <1>5 DEF Stage
    <2> DEFINE proc == [procs[p] EXCEPT !.step = "staged", !.res = res]
               own  == [fence |-> procs[p].fence, res |-> res]
    <2>3. /\ proc.batch = b /\ proc.fence = procs[p].fence /\ proc.step = "staged"
          /\ proc.res = res
        BY <1>2 DEF ProcRows
    <2>4. res \in Results
        BY <1>2 DEF CaseInv, CaseTypeOK, BatchRows, Results
    <2>5. proc \in ProcRows
        BY <1>2, <2>4 DEF ProcRows
    <2>6. procs' = [procs EXCEPT ![p] = proc]
        BY <1>2, <2>1
    <2>7. own = [fence |-> proc.fence, res |-> proc.res]
        BY <2>3
    <2>8. staging' = [staging EXCEPT ![b] = own]
        BY <2>1
    <2> HIDE DEF proc, own, b
    <2>9. proc # None
        BY <2>5, CaseAssumption
    <2>10. /\ procs'[p] = proc /\ \A q \in Procs \ {p} : procs'[q] = procs[q]
           /\ staging'[b] = own /\ \A c \in Batches \ {b} : staging'[c] = staging[c]
        BY <1>2, <2>6, <2>8 DEF CaseInv, CaseTypeOK
    <2>11. ProcLeft["staged"] < ProcLeft["parsing"]
        BY DEF ProcLeft
    <2>12. runs[b].status = "processing"
        BY <1>1, <2>2 DEF b, ClaimInv, HolderInv
    <2>13. QED
        BY <1>1, <1>2, <2>2, <2>3, <2>7, <2>9, <2>10, <2>11, <2>12, HolderClaims DEF b
<1>6. QED
    BY <1>4, <1>5

\* A batch that is published is done, and its holder with it.
LEMMA PublishClaims ==
    ASSUME CaseInv, ClaimInv, NEW p \in Procs, Publish(p)
    PROVE  ClaimInv' /\ ClaimGoesOn
<1> DEFINE b   == procs[p].batch
           run == [runs[b] EXCEPT !.status = "done"]
           own == [fence |-> procs[p].fence, res |-> procs[p].res]
<1>1. /\ Holds(p) /\ procs[p] # None /\ runs[b].status # "done"
      /\ runs' = [runs EXCEPT ![b] = run] /\ procs' = [procs EXCEPT ![p] = None]
      /\ staging' = [staging EXCEPT ![b] = None] /\ manifest' = [manifest EXCEPT ![b] = own]
    BY DEF Publish, Holds
<1>2. /\ b \in Batches /\ \A c \in Batches : runs[c].fence \in Nat
      /\ \A q \in Procs : procs[q] # None => procs[q].batch \in Batches
      /\ runs[b] \in RunRows
    BY <1>1 DEF CaseInv, CaseTypeOK, RunRows, ProcRows
<1>3. run.status = "done" /\ run.fence = runs[b].fence
    BY <1>2 DEF RunRows
<1>4. task.state # "cancelled"
    BY <1>1 DEF Holds
<1>5. procs[p].batch = b
    OBVIOUS
<1> HIDE DEF b, run, own
<1>6. /\ runs'[b] = run /\ \A c \in Batches \ {b} : runs'[c] = runs[c]
      /\ procs'[p] = None /\ \A q \in Procs \ {p} : procs'[q] = procs[q]
      /\ \A c \in Batches \ {b} : staging'[c] = staging[c] /\ manifest'[c] = manifest[c]
    BY <1>1, <1>2 DEF CaseInv, CaseTypeOK
<1>7. FenceInv'
    BY <1>2, <1>3, <1>6 DEF ClaimInv, FenceInv, On
<1>8. HolderInv'
    <2> SUFFICES ASSUME NEW q \in Procs, Holds(q)'
                 PROVE  LET c == procs'[q].batch
                        IN  /\ procs'[q].step # "claimed" => runs'[c].status = "processing"
                            /\ procs'[q].step = "staged" =>
                                  staging'[c] = [fence |-> procs'[q].fence, res |-> procs'[q].res]
        BY DEF HolderInv
    <2>1. q # p /\ procs'[q] = procs[q] /\ procs[q] # None /\ procs[q].batch \in Batches
        BY <1>2, <1>6 DEF Holds
    <2>2. procs[q].batch # b
        BY <1>3, <1>6, <2>1 DEF Holds
    <2>3. Holds(q)
        BY <1>4, <1>6, <2>1, <2>2 DEF Holds
    <2>4. QED
        BY <1>6, <2>1, <2>2, <2>3 DEF ClaimInv, HolderInv
<1>10. ClaimGoesOn
    BY <1>1, <1>2, <1>3, <1>6 DEF ClaimGoesOn
<1>11. QED
    BY <1>7, <1>8, <1>10 DEF ClaimInv

\* Every step of the task and of its batches.
LEMMA ClaimKept ==
    ASSUME CaseInv, ClaimInv, CaseStep
    PROVE  ClaimInv' /\ ClaimGoesOn
<1>1. task.state = "cancelled" => task'.state = "cancelled"
    BY CancelledStays DEF CaseInv
<1>2. \/ /\ UNCHANGED <<runs, procs, manifest>>
         /\ staging' = staging \/ task'.state = "cancelled"
      \/ \E b \in Batches : LeaseEnds(b)
      \/ \E p \in Procs :
            \/ \E b \in Batches : Claim(p, b)
            \/ BeginParse(p) \/ Stage(p) \/ Publish(p) \/ GiveUp(p) \/ Die(p)
    <2>1. CASE TaskStep
        BY <2>1 DEF TaskStep, OnlyTask
    <2>2. CASE Generating
        BY <2>2 DEF Generating, BeginGenerate, FinishGenerate, GenerateFails
    <2>3. CASE Recover \/ UNCHANGED caseVars
        BY <2>3 DEF Recover, caseVars
    <2>4. CASE Append \/ Finish \/ Refresh
        BY <2>4 DEF Append, Finish, Refresh
    <2>5. CASE May("cancelled") /\ Cancel
        BY <2>5, CancelTask DEF Cancel, CaseInv, CaseTypeOK
    <2>6. ASSUME NEW b \in Batches, NEW s \in Sources, CommitPackage(b, s)
          PROVE  UNCHANGED <<runs, procs, manifest, staging>>
        BY <2>6 DEF CommitPackage
    <2>7. QED
        BY <2>1, <2>2, <2>3, <2>4, <2>5, <2>6, CaseSteps
<1>3. QED
    BY <1>1, <1>2, ClaimsStay, LeaseClaims, ClaimClaims, ParseClaims, PublishClaims, DropClaims

LEMMA ClaimStart == ASSUME CaseInit PROVE ClaimInv
BY CaseAssumption DEF CaseInit, ClaimInv, FenceInv, HolderInv, On, Holds

LEMMA ClaimInductive == Spec => [](IInv /\ ClaimInv)
<1>1. Init => IInv /\ ClaimInv
    BY CaseStart, PathStart, ClaimStart DEF Init, IInv
<1>2. IInv /\ ClaimInv /\ [Next]_vars => (IInv /\ ClaimInv)'
    BY IInvKept, ClaimKept DEF IInv
<1>3. QED
    BY <1>1, <1>2, PTL DEF Spec

\* For any number of processors, however many leases ended with their holders still at
\* work: one at most passes the check of a transaction for a batch, and a batch that is
\* sealed and not published is never stuck: its holder's next transaction passes, its
\* last one finding what it staged, or the batch can be claimed anew (Processor.claim,
\* _check, publish).
THEOREM ProcessingFenced == Spec => [](OneHolder /\ SealedGoesOn)
<1>1. ASSUME IInv, ClaimInv PROVE OneHolder
    <2> SUFFICES ASSUME NEW p \in Procs, NEW q \in Procs, Holds(p), Holds(q),
                        procs[p].batch = procs[q].batch, p # q
                 PROVE  FALSE
        BY DEF OneHolder
    <2>1. procs[p].batch \in Batches /\ On(p, procs[p].batch) /\ On(q, procs[p].batch)
        BY <1>1 DEF IInv, CaseInv, CaseTypeOK, ProcRows, Holds, On
    <2>2. QED
        BY <1>1, <2>1 DEF ClaimInv, FenceInv, Holds
<1>2. ASSUME IInv, ClaimInv PROVE SealedGoesOn
    <2> SUFFICES ASSUME NEW b \in Batches, runs[b].status # "done", task.state # "cancelled",
                        ~Untaken(b)
                 PROVE  \E p \in Procs :
                           /\ On(p, b) /\ Holds(p)
                           /\ procs[p].step = "staged" =>
                                 /\ runs[b].status = "processing"
                                 /\ staging[b] = [fence |-> procs[p].fence, res |-> procs[p].res]
        BY DEF SealedGoesOn
    <2>1. PICK p \in Procs : On(p, b) /\ procs[p].fence = runs[b].fence
        BY DEF Untaken
    <2>2. On(p, b) /\ Holds(p) /\ procs[p].batch = b
        BY <2>1 DEF On, Holds, Untaken
    <2>3. QED
        BY <1>2, <2>2 DEF ClaimInv, HolderInv
<1>3. QED
    BY <1>1, <1>2, ClaimInductive, PTL

\* No claim is worked on for ever: a processor makes three transactions at most for one,
\* tokens only grow, and what was published stays (Processor.process, claim, publish).
THEOREM ProcessingAdvances == Spec => ClaimsGoOn
<1>1. IInv /\ ClaimInv /\ [Next]_vars => [ClaimGoesOn]_vars
    BY IInvKept, ClaimKept DEF IInv
<1>2. QED
    BY <1>1, ClaimInductive, PTL DEF Spec, ClaimsGoOn
===============================================================================
