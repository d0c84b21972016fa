--------------------------- MODULE TaskPublishProofs ---------------------------
(*****************************************************************************)
(* Proofs about TaskPublish for every set of tasks, projects, files and       *)
(* contents and for all bounds: type correctness, the safety of approval, and *)
(* that the agent implements TaskReview.                                      *)
(*****************************************************************************)
EXTENDS TaskPublish, TLAPS

Critical == HandlerSteps \ {"idle", "asked"}

\* The steps after the handler has checked the task again under TASK_LOCK.
Decided == Critical \ {"publish", "reject"}

\* Who holds TASK_LOCK: the handler, the one execution under way, or nobody.
LockInv ==
    /\ lock = Handler <=> pc \in Critical
    /\ \A t \in Tasks : exec[t] \in {"running", "notify"} <=> lock = t

\* The status on disk agrees with the coroutine.
ExecInv ==
    \A t \in Tasks :
        /\ exec[t] = "queued" => status[t] = "pending"
        /\ exec[t] = "running" => status[t] = "running"
        /\ exec[t] = "notify" => status[t] = "success"

TargetInv ==
    /\ pc # "idle" => target \in Tasks
    /\ pc \in Decided => Decidable(target)

ControlInv == LockInv /\ ExecInv /\ TargetInv

\* A new commit is told from every earlier one by its number, which commits
\* bounds; a branch that contains another's tip contains its history; and main
\* equals origin/main's past until the publication commits.
HistoryInv ==
    /\ head.tip \in head.anc /\ remote.tip \in remote.anc
    /\ \A c \in head.anc \cup remote.anc : c.n <= commits
    /\ FastForward => remote.anc \subseteq head.anc
    /\ OneUnpushedCommit
    /\ pc \in {"stage", "copy", "commit"} => head.tip \in remote.anc

\* A task that was committed ended in success and its execution is over, so
\* that nothing can turn it into a failure any more.
AuthorInv ==
    \A c \in head.anc \cup remote.anc :
        c.by \in Tasks => status[c.by] = "success" /\ exec[c.by] = "none"

\* The commit that a publication records, pushes and verifies is the target's.
RecordInv ==
    /\ pc = "record" => head.tip.by = target
    /\ pc \in {"push", "fetch"} => gitCommit[target] = head.tip /\ head.tip.by = target
    /\ pc \in {"pushed", "approve"} =>
          gitCommit[target] \in remote.anc /\ gitCommit[target].by = target

IInv ==
    TypeOK /\ ControlInv /\ HistoryInv /\ AuthorInv /\ RecordInv /\ ApprovedIsPublished

-------------------------------------------------------------------------------
(* Trees.                                                                     *)

LEMMA TreeLemma ==
    ASSUME NEW a \in Trees, NEW b \in Trees, NEW p
    PROVE  /\ Snapshot(a, p) \in Trees
           /\ Overlay(a, p, b) \in Trees
           /\ EmptyTree \in Trees
           /\ Differs(a, b) \in SUBSET Files
           /\ Present(a) \in SUBSET Files
           /\ Tracked(a, b) \in Trees
           /\ \A f \in Files, c \in Entries : [a EXCEPT ![f] = c] \in Trees
BY DEF Snapshot, Overlay, EmptyTree, Differs, Present, Tracked, Trees, Entries

LEMMA PlanLemma ==
    ASSUME NEW t \in Tasks, TypeOK
    PROVE  /\ StagePlan(t) \in SUBSET Files
           /\ TaskManifest(t) \in SUBSET Files
           /\ FullPlan(Tracked(index, head.tree), project[t], after[t]) \in SUBSET Files
BY DEF StagePlan, TaskManifest, FullPlan, ApprovalPlan, Manifest, Differs, Present,
       FilesOf, TypeOK

LEMMA ExtendLemma ==
    ASSUME NEW r \in Refs, NEW w \in Tasks \cup {Foreign}, NEW tree \in Trees,
           commits \in Nat
    PROVE  /\ Extend(r, w, tree) \in Refs
           /\ Extend(r, w, tree).tip = [by |-> w, n |-> commits + 1]
           /\ Extend(r, w, tree).anc = r.anc \cup {[by |-> w, n |-> commits + 1]}
           /\ Extend(r, w, tree).tree = tree
BY DEF Extend, Refs, Commits

-------------------------------------------------------------------------------
(* Type correctness.                                                          *)

LEMMA TypeInit == Init => TypeOK
<1> SUFFICES ASSUME Init PROVE TypeOK
    OBVIOUS
<1>1. live \in Trees /\ EmptyTree \in Trees
    BY TaskAssumption DEF Init, EmptyTree, Trees, Entries
<1>2. RootCommit \in Commits
    BY DEF RootCommit, Commits
<1>3. head \in Refs /\ remote \in Refs
    BY <1>1, <1>2 DEF Init, Refs
<1>4. QED
    BY <1>1, <1>2, <1>3 DEF Init, TypeOK, HandlerSteps

LEMMA TypeStep == TypeOK /\ TargetInv /\ [Next]_vars => TypeOK'
<1> SUFFICES ASSUME TypeOK, TargetInv, [Next]_vars PROVE TypeOK'
    OBVIOUS
<1> USE DEF taskVars, handlerVars, repoVars, boundVars, Release, SetPublish, HandlerSteps
<1>t. pc # "idle" => target \in Tasks
    BY DEF TargetInv
<1>r. head.tree \in Trees /\ remote.tree \in Trees /\ head.tip \in Commits
    BY DEF TypeOK, Refs
<1>1. CASE \E t \in Tasks : CreateTask(t)
    BY <1>1 DEF TypeOK, CreateTask
<1>2. CASE \E t \in Tasks : \E c \in {"approve", "approve_full", "reject"} : Ask(c, t)
    BY <1>2 DEF TypeOK, Ask
<1>3. ASSUME NEW t \in Tasks, TaskStep(t) PROVE TypeOK'
    <2>1. CASE StartTask(t)
        BY <2>1, TreeLemma DEF TypeOK, StartTask
    <2>2. CASE CodexEdit(t)
        <3>1. PICK f \in FilesOf(project[t]), c \in Entries :
                 live' = [live EXCEPT ![f] = c]
            BY <2>2 DEF CodexEdit
        <3>2. f \in Files
            BY <3>1 DEF FilesOf
        <3>3. live' \in Trees
            BY <3>1, <3>2 DEF TypeOK, Trees
        <3>4. QED
            BY <2>2, <3>3 DEF TypeOK, CodexEdit
    <2>3. CASE TaskSucceeds(t)
        BY <2>3, TreeLemma DEF TypeOK, TaskSucceeds
    <2>4. CASE TaskNotified(t)
        BY <2>4 DEF TypeOK, TaskNotified
    <2>5. CASE TaskFails(t)
        BY <2>5 DEF TypeOK, TaskFails
    <2>6. QED
        BY <1>3, <2>1, <2>2, <2>3, <2>4, <2>5 DEF TaskStep
<1>4. CASE Environment
    <2>1. CASE Crash
        BY <2>1, TreeLemma DEF TypeOK, Crash
    <2>2. CASE AskFails
        BY <2>2 DEF TypeOK, AskFails
    <2>3. CASE ForeignPush
        <3>1. PICK f \in Files \ Ignored, c \in Entries :
                 remote' = Extend(remote, Foreign, [remote.tree EXCEPT ![f] = c])
            BY <2>3 DEF ForeignPush
        <3>2. remote' \in Refs
            BY <3>1, <1>r, TreeLemma, ExtendLemma DEF TypeOK
        <3>3. QED
            BY <2>3, <3>2 DEF TypeOK, ForeignPush
    <2>4. CASE OperatorPull
        <3>1. work' \in Trees
            BY <2>4, <1>r DEF TypeOK, OperatorPull, Trees
        <3>2. QED
            BY <2>4, <3>1, <1>r DEF TypeOK, OperatorPull
    <2>5. CASE OperatorEdit
        <3>1. live' \in Trees
            BY <2>5 DEF TypeOK, OperatorEdit, Trees
        <3>2. QED
            BY <2>5, <3>1 DEF TypeOK, OperatorEdit
    <2>6. QED
        BY <1>4, <2>1, <2>2, <2>3, <2>4, <2>5 DEF Environment
<1>5. CASE HandlerStep
    <2>1. CASE Lock
        BY <2>1 DEF TypeOK, Lock
    <2>2. CASE RetryPush
        BY <2>2 DEF TypeOK, RetryPush
    <2>3. CASE BeginPublish
        BY <2>3, <1>t, TreeLemma, PlanLemma DEF TypeOK, BeginPublish
    <2>4. CASE RefusePublish
        BY <2>4, TreeLemma DEF TypeOK, RefusePublish
    <2>5. CASE CheckStage
        BY <2>5, <1>t, PlanLemma DEF TypeOK, CheckStage
    <2>6. CASE \E f \in Files : CopyFile(f)
        <3>1. work' \in Trees
            BY <2>6, <1>t, TreeLemma DEF TypeOK, CopyFile, Trees
        <3>2. QED
            BY <2>6, <3>1 DEF TypeOK, CopyFile
    <2>7. CASE AddProject
        <3>1. index' \in Trees
            BY <2>7 DEF TypeOK, AddProject, Trees
        <3>2. QED
            BY <2>7, <3>1 DEF TypeOK, AddProject
    <2>8. CASE Commit
        <3>1. head' \in Refs
            BY <2>8, <1>t, ExtendLemma DEF TypeOK, Commit
        <3>2. QED
            BY <2>8, <3>1 DEF TypeOK, Commit
    <2>9. CASE StageFails
        BY <2>9 DEF TypeOK, StageFails
    <2>10. CASE ResetHard
        <3>1. work' \in Trees
            BY <2>10, <1>r DEF TypeOK, ResetHard, Trees
        <3>2. QED
            BY <2>10, <3>1, <1>r DEF TypeOK, ResetHard
    <2>11. CASE RestoreBackup
        BY <2>11, <1>r, TreeLemma DEF TypeOK, RestoreBackup
    <2>12. CASE RollbackFails
        <3>1. EmptyTree \in Trees
            BY TreeLemma DEF TypeOK
        <3>2. Overlay(work, project[target], EmptyTree) \in Trees
            BY <3>1, TreeLemma DEF TypeOK
        <3>3. work' \in Trees
            BY <2>12, <3>2 DEF TypeOK, RollbackFails
        <3>4. publishState' \in
                 [Tasks -> {"none", "staging", "committed", "push_failed", "pushed"}]
            BY <2>12 DEF TypeOK, RollbackFails
        <3>5. faults' \in Nat
            BY <2>12 DEF TypeOK, RollbackFails
        <3>6. QED
            BY <2>12, <3>1, <3>3, <3>4, <3>5 DEF TypeOK, RollbackFails
    <2>13. CASE RecordCommit
        BY <2>13, <1>r DEF TypeOK, RecordCommit
    <2>14. CASE Push
        BY <2>14 DEF TypeOK, Push
    <2>15. CASE PushFails
        BY <2>15, TreeLemma DEF TypeOK, PushFails
    <2>16. CASE Verify
        BY <2>16 DEF TypeOK, Verify
    <2>17. CASE VerifyFails
        BY <2>17, TreeLemma DEF TypeOK, VerifyFails
    <2>18. CASE FetchFails
        BY <2>18, TreeLemma DEF TypeOK, FetchFails
    <2>19. CASE MarkPushed
        BY <2>19 DEF TypeOK, MarkPushed
    <2>20. CASE MarkApproved
        BY <2>20, TreeLemma DEF TypeOK, MarkApproved
    <2>21. CASE BeginReject
        BY <2>21, <1>t, PlanLemma DEF TypeOK, BeginReject
    <2>22. CASE RefuseReject
        BY <2>22, TreeLemma DEF TypeOK, RefuseReject
    <2>23. CASE \E f \in Files : UndoFile(f)
        <3>1. live' \in Trees
            BY <2>23, <1>t, TreeLemma DEF TypeOK, UndoFile, Trees
        <3>2. QED
            BY <2>23, <3>1 DEF TypeOK, UndoFile
    <2>24. CASE UndoFails
        BY <2>24, TreeLemma DEF TypeOK, UndoFails
    <2>25. CASE MarkRejected
        BY <2>25, TreeLemma DEF TypeOK, MarkRejected
    <2>26. QED
        BY <1>5, <2>1, <2>2, <2>3, <2>4, <2>5, <2>6, <2>7, <2>8, <2>9, <2>10, <2>11,
           <2>12, <2>13, <2>14, <2>15, <2>16, <2>17, <2>18, <2>19, <2>20, <2>21,
           <2>22, <2>23, <2>24, <2>25 DEF HandlerStep
<1>6. CASE UNCHANGED vars
    BY <1>6 DEF TypeOK, vars
<1>7. QED
    BY <1>1, <1>2, <1>3, <1>4, <1>5, <1>6 DEF Next, UserStep

-------------------------------------------------------------------------------
(* TASK_LOCK, coroutines and the handler's target.                            *)

LEMMA ControlInit == Init => ControlInv
BY TaskAssumption DEF Init, ControlInv, LockInv, ExecInv, TargetInv, Critical, Decided,
                      HandlerSteps

LEMMA ControlStep == TypeOK /\ ControlInv /\ [Next]_vars => ControlInv'
<1> SUFFICES ASSUME TypeOK, ControlInv, [Next]_vars PROVE ControlInv'
    OBVIOUS
<1> USE TaskAssumption
    DEF ControlInv, LockInv, ExecInv, TargetInv, Critical, Decided, Decidable,
        HandlerSteps, Release, SetPublish, taskVars, handlerVars, repoVars, boundVars
<1>1. CASE \E t \in Tasks : CreateTask(t)
    BY <1>1 DEF TypeOK, CreateTask
<1>2. CASE \E t \in Tasks : \E c \in {"approve", "approve_full", "reject"} : Ask(c, t)
    BY <1>2 DEF TypeOK, Ask
<1>3. ASSUME NEW t \in Tasks, TaskStep(t) PROVE ControlInv'
    <2>1. CASE StartTask(t)
        BY <2>1 DEF TypeOK, StartTask
    <2>2. CASE CodexEdit(t)
        BY <2>2 DEF CodexEdit
    <2>3. CASE TaskSucceeds(t)
        BY <2>3 DEF TypeOK, TaskSucceeds
    <2>4. CASE TaskNotified(t)
        BY <2>4 DEF TypeOK, TaskNotified
    <2>5. CASE TaskFails(t)
        BY <2>5 DEF TypeOK, TaskFails
    <2>6. QED
        BY <1>3, <2>1, <2>2, <2>3, <2>4, <2>5 DEF TaskStep
<1>4. CASE Environment
    <2>1. CASE Crash
        BY <2>1 DEF Crash
    <2>2. CASE AskFails
        BY <2>2 DEF AskFails
    <2>3. CASE ForeignPush
        BY <2>3 DEF ForeignPush
    <2>4. CASE OperatorPull
        BY <2>4 DEF OperatorPull
    <2>5. CASE OperatorEdit
        BY <2>5 DEF OperatorEdit
    <2>6. QED
        BY <1>4, <2>1, <2>2, <2>3, <2>4, <2>5 DEF Environment
<1>5. CASE HandlerStep
    <2>1. CASE Lock
        BY <2>1 DEF Lock
    <2>2. CASE RetryPush
        BY <2>2 DEF RetryPush, MayPublish
    <2>3. CASE BeginPublish
        BY <2>3 DEF BeginPublish, MayPublish
    <2>4. CASE RefusePublish
        BY <2>4 DEF RefusePublish
    <2>5. CASE CheckStage
        BY <2>5 DEF CheckStage
    <2>6. CASE \E f \in Files : CopyFile(f)
        BY <2>6 DEF CopyFile
    <2>7. CASE AddProject
        BY <2>7 DEF AddProject
    <2>8. CASE Commit
        BY <2>8 DEF Commit
    <2>9. CASE StageFails
        BY <2>9 DEF StageFails
    <2>10. CASE ResetHard
        BY <2>10 DEF ResetHard
    <2>11. CASE RestoreBackup
        BY <2>11 DEF RestoreBackup
    <2>12. CASE RollbackFails
        BY <2>12 DEF RollbackFails
    <2>13. CASE RecordCommit
        BY <2>13 DEF RecordCommit
    <2>14. CASE Push
        BY <2>14 DEF Push
    <2>15. CASE PushFails
        BY <2>15 DEF PushFails
    <2>16. CASE Verify
        BY <2>16 DEF Verify
    <2>17. CASE VerifyFails
        BY <2>17 DEF VerifyFails
    <2>18. CASE FetchFails
        BY <2>18 DEF FetchFails
    <2>19. CASE MarkPushed
        BY <2>19 DEF MarkPushed
    <2>20. CASE MarkApproved
        BY <2>20 DEF TypeOK, MarkApproved
    <2>21. CASE BeginReject
        BY <2>21 DEF BeginReject, MayReject
    <2>22. CASE RefuseReject
        BY <2>22 DEF RefuseReject
    <2>23. CASE \E f \in Files : UndoFile(f)
        BY <2>23 DEF UndoFile
    <2>24. CASE UndoFails
        BY <2>24 DEF UndoFails
    <2>25. CASE MarkRejected
        BY <2>25 DEF TypeOK, MarkRejected
    <2>26. QED
        BY <1>5, <2>1, <2>2, <2>3, <2>4, <2>5, <2>6, <2>7, <2>8, <2>9, <2>10, <2>11,
           <2>12, <2>13, <2>14, <2>15, <2>16, <2>17, <2>18, <2>19, <2>20, <2>21,
           <2>22, <2>23, <2>24, <2>25 DEF HandlerStep
<1>6. CASE UNCHANGED vars
    BY <1>6 DEF vars
<1>7. QED
    BY <1>1, <1>2, <1>3, <1>4, <1>5, <1>6 DEF Next, UserStep

-------------------------------------------------------------------------------
(* Which actions write a variable, and which lead to a step of the handler.   *)

LEMMA WhoWrites ==
    ASSUME [Next]_vars
    PROVE  /\ head' = head \/ Commit \/ OperatorPull
           /\ remote' = remote \/ Push \/ PushFails \/ ForeignPush
           /\ commits' = commits \/ Commit \/ ForeignPush
           /\ approval' = approval \/ MarkApproved \/ MarkRejected
           /\ gitCommit' = gitCommit \/ RecordCommit
           /\ \/ live' = live \/ OperatorEdit \/ (\E f \in Files : UndoFile(f))
              \/ \E t \in Tasks : CodexEdit(t)
           /\ before' = before \/ \E t \in Tasks : StartTask(t)
           /\ after' = after \/ \E t \in Tasks : TaskSucceeds(t)
           /\ \/ (status' = status /\ exec' = exec) \/ Crash
              \/ \E t \in Tasks : \/ CreateTask(t) \/ StartTask(t) \/ TaskSucceeds(t)
                                  \/ TaskNotified(t) \/ TaskFails(t)
<1> USE DEF Next, HandlerStep, UserStep, TaskStep, Environment, vars, taskVars,
        handlerVars, repoVars, boundVars, SetPublish, Release, CreateTask, StartTask,
        CodexEdit, TaskSucceeds, TaskNotified, TaskFails, Ask, Lock, RetryPush,
        BeginPublish, RefusePublish, CheckStage, CopyFile, AddProject, Commit,
        StageFails, ResetHard, RestoreBackup, RollbackFails, RecordCommit, Push,
        PushFails, Verify, VerifyFails, FetchFails, MarkPushed, MarkApproved,
        BeginReject, RefuseReject, UndoFile, UndoFails, MarkRejected, Crash, AskFails,
        ForeignPush, OperatorPull, OperatorEdit
<1>1. head' = head \/ Commit \/ OperatorPull
    OBVIOUS
<1>2. remote' = remote \/ Push \/ PushFails \/ ForeignPush
    OBVIOUS
<1>3. commits' = commits \/ Commit \/ ForeignPush
    OBVIOUS
<1>4. approval' = approval \/ MarkApproved \/ MarkRejected
    OBVIOUS
<1>5. gitCommit' = gitCommit \/ RecordCommit
    OBVIOUS
<1>6. \/ live' = live \/ OperatorEdit \/ (\E f \in Files : UndoFile(f))
      \/ \E t \in Tasks : CodexEdit(t)
    OBVIOUS
<1>7. before' = before \/ \E t \in Tasks : StartTask(t)
    OBVIOUS
<1>8. after' = after \/ \E t \in Tasks : TaskSucceeds(t)
    OBVIOUS
<1>9. \/ (status' = status /\ exec' = exec) \/ Crash
      \/ \E t \in Tasks : \/ CreateTask(t) \/ StartTask(t) \/ TaskSucceeds(t)
                          \/ TaskNotified(t) \/ TaskFails(t)
    OBVIOUS
<1>10. QED
    BY <1>1, <1>2, <1>3, <1>4, <1>5, <1>6, <1>7, <1>8, <1>9

LEMMA WhoLeadsTo ==
    ASSUME [Next]_vars
    PROVE  /\ pc' \in {"stage", "copy", "commit"} =>
                 BeginPublish \/ pc \in {"stage", "copy", "commit"}
           /\ pc' = "record" => Commit \/ (pc = "record" /\ target' = target)
           /\ pc' \in {"push", "fetch"} =>
                 RetryPush \/ RecordCommit \/ (pc \in {"push", "fetch"} /\ target' = target)
           /\ pc' \in {"pushed", "approve"} =>
                 Verify \/ (pc \in {"pushed", "approve"} /\ target' = target)
           /\ pc' = "undo" =>
                 \/ BeginReject \/ \E f \in Files : UndoFile(f)
                 \/ pc = "undo" /\ target' = target /\ todo' = todo
<1> USE DEF Next, HandlerStep, UserStep, TaskStep, Environment, vars, taskVars,
        handlerVars, repoVars, boundVars, SetPublish, Release, CreateTask, StartTask,
        CodexEdit, TaskSucceeds, TaskNotified, TaskFails, Ask, Lock, RetryPush,
        BeginPublish, RefusePublish, CheckStage, CopyFile, AddProject, Commit,
        StageFails, ResetHard, RestoreBackup, RollbackFails, RecordCommit, Push,
        PushFails, Verify, VerifyFails, FetchFails, MarkPushed, MarkApproved,
        BeginReject, RefuseReject, UndoFile, UndoFails, MarkRejected, Crash, AskFails,
        ForeignPush, OperatorPull, OperatorEdit
<1>1. pc' \in {"stage", "copy", "commit"} =>
         BeginPublish \/ pc \in {"stage", "copy", "commit"}
    OBVIOUS
<1>2. pc' = "record" => Commit \/ (pc = "record" /\ target' = target)
    OBVIOUS
<1>3. pc' \in {"push", "fetch"} =>
         RetryPush \/ RecordCommit \/ (pc \in {"push", "fetch"} /\ target' = target)
    OBVIOUS
<1>4. pc' \in {"pushed", "approve"} =>
         Verify \/ (pc \in {"pushed", "approve"} /\ target' = target)
    OBVIOUS
<1>5. pc' = "undo" =>
         \/ BeginReject \/ \E f \in Files : UndoFile(f)
         \/ pc = "undo" /\ target' = target /\ todo' = todo
    OBVIOUS
<1>6. QED
    BY <1>1, <1>2, <1>3, <1>4, <1>5

\* Under way, the handler's task is a decided one and nobody else holds the lock.
LEMMA Exclusive ==
    ASSUME ControlInv, TypeOK
    PROVE  /\ pc \in Critical => lock = Handler /\ \A t \in Tasks :
                 exec[t] \notin {"running", "notify"}
           /\ pc \in Decided => /\ target \in Tasks
                                /\ status[target] = "success"
                                /\ approval[target] = "pending"
                                /\ exec[target] = "none"
BY TaskAssumption DEF ControlInv, LockInv, ExecInv, TargetInv, Critical, Decided,
                      Decidable, HandlerSteps, TypeOK

-------------------------------------------------------------------------------
(* The history of main and of origin/main.                                    *)

LEMMA HistoryInit == Init => HistoryInv
BY DEF Init, HistoryInv, FastForward, OneUnpushedCommit, RootCommit

LEMMA HistoryStep == TypeOK /\ ControlInv /\ HistoryInv /\ [Next]_vars => HistoryInv'
<1> SUFFICES ASSUME TypeOK, ControlInv, HistoryInv, [Next]_vars PROVE HistoryInv'
    OBVIOUS
<1> USE DEF HistoryInv, FastForward, OneUnpushedCommit
<1>n. commits \in Nat /\ \A c \in head.anc \cup remote.anc : c.n \in Nat
    BY DEF TypeOK, Refs, Commits
<1>1. CASE Commit
    <2>1. head'.tip = [by |-> target, n |-> commits + 1]
        BY <1>1 DEF Commit, Extend
    <2>2. head'.anc = head.anc \cup {head'.tip}
        BY <1>1 DEF Commit, Extend
    <2>3. commits' = commits + 1 /\ pc' = "record" /\ UNCHANGED remote
        BY <1>1 DEF Commit
    <2>4. head'.tip \notin head.anc \cup remote.anc
        BY <1>n, <2>1
    <2>5. head.anc \subseteq remote.anc
        BY <1>1 DEF Commit
    <2>6. \A c \in head'.anc \cup remote'.anc : c.n <= commits'
        BY <1>n, <2>1, <2>2, <2>3
    <2>7. QED
        BY <2>2, <2>3, <2>4, <2>5, <2>6
<1>2. CASE ForeignPush
    <2>1. PICK tree : remote' = Extend(remote, Foreign, tree)
        BY <1>2 DEF ForeignPush
    <2>2. remote'.tip = [by |-> Foreign, n |-> commits + 1]
        BY <2>1 DEF Extend
    <2>3. remote'.anc = remote.anc \cup {remote'.tip}
        BY <2>1 DEF Extend
    <2>4. commits' = commits + 1 /\ UNCHANGED <<pc, head>>
        BY <1>2 DEF ForeignPush, handlerVars, repoVars
    <2>5. remote'.tip \notin head.anc
        BY <1>n, <2>2
    <2>6. \A c \in head'.anc \cup remote'.anc : c.n <= commits'
        BY <1>n, <2>2, <2>3, <2>4
    <2>7. QED
        BY <2>3, <2>4, <2>5, <2>6
<1>3. CASE OperatorPull
    <2>1. pc \notin {"stage", "copy", "commit"}
        BY <1>3, Exclusive DEF OperatorPull, Critical, HandlerSteps
    <2>2. QED
        BY <1>3, <2>1 DEF OperatorPull, handlerVars, boundVars
<1>4. CASE Push \/ PushFails
    BY <1>4 DEF Push, PushFails, Release, repoVars, boundVars
<1>5. CASE UNCHANGED <<head, remote, commits>>
    BY <1>5, WhoLeadsTo DEF BeginPublish, UpToDate
<1>6. QED
    BY <1>1, <1>2, <1>3, <1>4, <1>5, WhoWrites

-------------------------------------------------------------------------------
(* The authors of the commits.                                                *)

LEMMA AuthorInit == Init => AuthorInv
BY TaskAssumption DEF Init, AuthorInv, RootCommit

LEMMA AuthorStep == TypeOK /\ ControlInv /\ AuthorInv /\ [Next]_vars => AuthorInv'
<1> SUFFICES ASSUME TypeOK, ControlInv, AuthorInv, [Next]_vars PROVE AuthorInv'
    OBVIOUS
<1> USE DEF AuthorInv
\* No task with a commit changes its status or starts again.
<1>1. \A t \in Tasks : status[t] = "success" /\ exec[t] = "none" =>
          status'[t] = "success" /\ exec'[t] = "none"
    BY WhoWrites DEF TypeOK, Crash, CreateTask, StartTask, TaskSucceeds, TaskNotified,
                     TaskFails, taskVars
<1>2. ASSUME NEW c \in head'.anc \cup remote'.anc, c.by \in Tasks,
             c \notin head.anc \cup remote.anc
      PROVE  status[c.by] = "success" /\ exec[c.by] = "none"
    <2>1. CASE Commit
        <3>1. c.by = target
            BY <1>2, <2>1 DEF Commit, Extend
        <3>2. QED
            BY <2>1, <3>1, Exclusive DEF Commit, Decided, Critical, HandlerSteps
    <2>2. CASE ForeignPush
        <3>1. c.by = Foreign
            BY <1>2, <2>2 DEF ForeignPush, Extend, repoVars
        <3>2. QED
            BY <1>2, <3>1, TaskAssumption
    <2>3. CASE ~Commit /\ ~ForeignPush
        BY <1>2, <2>3, WhoWrites DEF OperatorPull, Push, PushFails, repoVars
    <2>4. QED
        BY <2>1, <2>2, <2>3
<1>3. QED
    BY <1>1, <1>2

-------------------------------------------------------------------------------
(* The recorded commit.                                                       *)

\* origin/main never loses a commit: a push is a fast-forward.
LEMMA RemoteGrows ==
    ASSUME HistoryInv, [Next]_vars
    PROVE  remote.anc \subseteq remote'.anc
BY WhoWrites DEF HistoryInv, Push, PushFails, ForeignPush, Extend

LEMMA RecordInit == Init => RecordInv
BY DEF Init, RecordInv

LEMMA RecordStep ==
    TypeOK /\ ControlInv /\ HistoryInv /\ RecordInv /\ [Next]_vars => RecordInv'
<1> SUFFICES ASSUME TypeOK, ControlInv, HistoryInv, RecordInv, [Next]_vars
             PROVE  RecordInv'
    OBVIOUS
<1> USE DEF RecordInv, Critical, HandlerSteps
\* Nothing else moves main or the record while the handler is under way.
<1>1. ~Commit /\ pc \in {"record", "push", "fetch"} => head' = head
    BY WhoWrites, Exclusive DEF OperatorPull
<1>2. ~RecordCommit => gitCommit' = gitCommit
    BY WhoWrites
<1>3. pc' = "record" => head'.tip.by = target'
    <2>1. CASE Commit
        BY <2>1 DEF Commit, Extend
    <2>2. CASE ~Commit
        BY <2>2, <1>1, WhoLeadsTo
    <2>3. QED
        BY <2>1, <2>2
<1>4. pc' \in {"push", "fetch"} =>
         gitCommit'[target'] = head'.tip /\ head'.tip.by = target'
    <2>1. CASE RecordCommit
        <3>1. target \in Tasks
            BY <2>1, Exclusive DEF RecordCommit, Decided
        <3>2. QED
            BY <2>1, <3>1 DEF RecordCommit, repoVars, TypeOK
    <2>2. CASE RetryPush
        BY <2>2 DEF RetryPush, CanRetry, taskVars, repoVars
    <2>3. CASE ~RecordCommit /\ ~RetryPush
        BY <2>3, <1>1, <1>2, WhoLeadsTo DEF Commit
    <2>4. QED
        BY <2>1, <2>2, <2>3
<1>5. pc' \in {"pushed", "approve"} =>
         gitCommit'[target'] \in remote'.anc /\ gitCommit'[target'].by = target'
    <2>1. CASE Verify
        BY <2>1 DEF Verify, HistoryInv, taskVars
    <2>2. CASE ~Verify
        BY <2>2, <1>2, WhoLeadsTo, RemoteGrows DEF RecordCommit
    <2>3. QED
        BY <2>1, <2>2
<1>6. QED
    BY <1>3, <1>4, <1>5

-------------------------------------------------------------------------------
(* Approval.                                                                  *)

LEMMA ApprovedInit == Init => ApprovedIsPublished
BY DEF Init, ApprovedIsPublished

LEMMA ApprovedStep ==
    TypeOK /\ ControlInv /\ HistoryInv /\ RecordInv /\ ApprovedIsPublished /\ [Next]_vars
    => ApprovedIsPublished'
<1> SUFFICES ASSUME TypeOK, ControlInv, HistoryInv, RecordInv, ApprovedIsPublished,
                    [Next]_vars, NEW t \in Tasks, approval'[t] = "approved"
             PROVE  gitCommit'[t] \in remote'.anc /\ gitCommit'[t].by = t
    BY DEF ApprovedIsPublished
<1>1. CASE MarkApproved
    BY <1>1, RemoteGrows DEF MarkApproved, TypeOK, RecordInv, ApprovedIsPublished
<1>2. CASE ~MarkApproved
    <2>1. approval[t] = "approved"
        BY <1>2, WhoWrites DEF MarkRejected, TypeOK
    <2>2. gitCommit'[t] = gitCommit[t]
        BY <2>1, WhoWrites, Exclusive
           DEF RecordCommit, Decided, Critical, HandlerSteps, TypeOK
    <2>3. QED
        BY <2>1, <2>2, RemoteGrows DEF ApprovedIsPublished
<1>3. QED
    BY <1>1, <1>2

-------------------------------------------------------------------------------
(* The invariant.                                                             *)

LEMMA IInvInit == Init => IInv
BY TypeInit, ControlInit, HistoryInit, AuthorInit, RecordInit, ApprovedInit DEF IInv

LEMMA IInvStep == IInv /\ [Next]_vars => IInv'
BY TypeStep, ControlStep, HistoryStep, AuthorStep, RecordStep, ApprovedStep
   DEF IInv, ControlInv

LEMMA Invariance == Spec => []IInv
BY IInvInit, IInvStep, PTL DEF Spec

\* Type correctness: every file, branch and tree the agent writes is one the
\* other operations expect to read.
THEOREM TypeCorrect == Spec => []TypeOK
<1>1. IInv => TypeOK
    BY DEF IInv
<1>2. QED
    BY <1>1, Invariance, PTL

\* Approval is safe: mark_approved, the last step of publish_task_to_git, is
\* reached only with the task's own commit on origin/main, and nothing takes the
\* commit or its record away afterwards.
THEOREM ApprovalSafe == Spec => []ApprovedIsPublished
<1>1. IInv => ApprovedIsPublished
    BY DEF IInv
<1>2. QED
    BY <1>1, Invariance, PTL

\* No task is committed that failed, or that the failure of its notification
\* turns into a failed one later.
THEOREM CommitSafe == Spec => []CommittedIsSuccess
<1>1. IInv => CommittedIsSuccess
    BY DEF IInv, AuthorInv, CommittedIsSuccess
<1>2. QED
    BY <1>1, Invariance, PTL

\* A push carries at most one commit: validate_git_publish_state refuses to
\* begin while main is ahead of origin/main.
THEOREM PushSafe == Spec => []OneUnpushedCommit
<1>1. IInv => OneUnpushedCommit
    BY DEF IInv, HistoryInv
<1>2. QED
    BY <1>1, Invariance, PTL

-------------------------------------------------------------------------------
(* The agent implements TaskReview.                                           *)

LEMMA ReviewInit == Init => Review!Init
BY TaskAssumption DEF Init, Review!Init, Published, RootCommit

LEMMA ReviewStep == IInv /\ [Next]_vars => Review!Next \/ UNCHANGED Review!vars
<1> SUFFICES ASSUME IInv, [Next]_vars PROVE Review!Next \/ UNCHANGED Review!vars
    OBVIOUS
<1> USE DEF IInv, Decided, Critical, HandlerSteps
<1>1. CASE Push \/ (PushFails /\ remote' # remote)
    <2>1. pc = "push" /\ FastForward /\ remote' = head /\ UNCHANGED approval
        BY <1>1 DEF Push, PushFails, taskVars
    <2>2. target \in Tasks /\ approval[target] = "pending"
        BY <2>1, Exclusive
    <2>3. remote.anc \subseteq head.anc /\ head.anc \subseteq remote.anc \cup {head.tip}
        BY <2>1 DEF HistoryInv, OneUnpushedCommit
    <2>4. head.tip \in head.anc /\ head.tip.by = target
        BY <2>1 DEF HistoryInv, RecordInv
    <2>5. Published' = Published \cup {target}
        BY <2>1, <2>2, <2>3, <2>4 DEF Published
    <2>6. Review!Publish(target)
        BY <2>1, <2>2, <2>5 DEF Review!Publish
    <2>7. QED
        BY <2>2, <2>6 DEF Review!Next
<1>2. CASE ForeignPush
    <2>1. Published' = Published
        BY <1>2, TaskAssumption DEF ForeignPush, Extend, Published
    <2>2. QED
        BY <1>2, <2>1 DEF ForeignPush, taskVars, Review!vars
<1>3. CASE MarkApproved
    <2>1. target \in Tasks /\ approval[target] = "pending" /\ target \in Published
        BY <1>3, Exclusive DEF MarkApproved, RecordInv, Published
    <2>2. /\ approval' = [approval EXCEPT ![target] = "approved"]
          /\ Published' = Published
        BY <1>3 DEF MarkApproved, Published
    <2>3. Review!Approve(target)
        BY <2>1, <2>2 DEF Review!Approve
    <2>4. QED
        BY <2>1, <2>3 DEF Review!Next
<1>4. CASE MarkRejected
    <2>1. target \in Tasks /\ approval[target] = "pending"
        BY <1>4, Exclusive DEF MarkRejected
    <2>2. /\ approval' = [approval EXCEPT ![target] = "rejected"]
          /\ Published' = Published
        BY <1>4 DEF MarkRejected, Published
    <2>3. Review!Reject(target)
        BY <2>1, <2>2 DEF Review!Reject
    <2>4. QED
        BY <2>1, <2>3 DEF Review!Next
<1>5. CASE UNCHANGED <<approval, remote>>
    BY <1>5 DEF Published, Review!vars
<1>6. QED
    BY <1>1, <1>2, <1>3, <1>4, <1>5, WhoWrites
       DEF MarkApproved, MarkRejected, Push, PushFails, ForeignPush, taskVars

\* Every behaviour of the agent is one of TaskReview: a task is decided once, and
\* approved only when its commit is already on origin/main.
THEOREM ReviewImplemented == Spec => ReviewSpec
<1>1. IInv /\ [Next]_vars => [Review!Next]_Review!vars
    BY ReviewStep
<1>2. QED
    BY <1>1, Invariance, ReviewInit, PTL DEF Spec, ReviewSpec, Review!Spec

-------------------------------------------------------------------------------
(* Rejection.                                                                 *)

\* Under way, every path of the task that is no longer to be undone is back.
UndoInv ==
    pc = "undo" =>
        \A f \in TaskManifest(target) \ todo : live[f] = before[target][f]

LEMMA UndoInit == Init => UndoInv
BY DEF Init, UndoInv

LEMMA UndoStep == TypeOK /\ ControlInv /\ UndoInv /\ [Next]_vars => UndoInv'
<1> SUFFICES ASSUME TypeOK, ControlInv, UndoInv, [Next]_vars, pc' = "undo"
             PROVE  UndoInv'
    BY DEF UndoInv
<1> USE DEF UndoInv, TaskManifest
<1>1. CASE BeginReject
    BY <1>1 DEF BeginReject, taskVars
<1>2. CASE \E f \in Files : UndoFile(f)
    <2>1. PICK f \in Files : UndoFile(f)
        BY <1>2
    <2>2. live' = [live EXCEPT ![f] = before[target][f]] /\ todo' = todo \ {f}
        BY <2>1 DEF UndoFile
    <2>3. \A g \in Files : live'[g] = IF g = f THEN before[target][f] ELSE live[g]
        BY <2>2 DEF TypeOK, Trees
    <2>4. QED
        BY <2>1, <2>2, <2>3 DEF UndoFile, taskVars, Manifest, Differs
<1>3. CASE ~BeginReject /\ ~(\E f \in Files : UndoFile(f))
    <2>1. pc = "undo" /\ target' = target /\ todo' = todo
        BY <1>3, WhoLeadsTo
    <2>2. lock = Handler /\ \A t \in Tasks : exec[t] # "running"
        BY <2>1, Exclusive DEF Critical, HandlerSteps
    <2>3. UNCHANGED <<live, before, after>>
        BY <1>3, <2>2, WhoWrites, TaskAssumption
           DEF OperatorEdit, CodexEdit, StartTask, TaskSucceeds
    <2>4. QED
        BY <2>1, <2>3
<1>4. QED
    BY <1>1, <1>2, <1>3

LEMMA UndoInvariance == Spec => []UndoInv
<1>1. IInv /\ UndoInv /\ [Next]_vars => UndoInv'
    BY UndoStep DEF IInv
<1>2. QED
    BY <1>1, UndoInit, Invariance, PTL DEF Spec

\* A rejection is complete: reject_task_changes marks a task only when all that
\* the task changed is back, however often an earlier attempt broke off.
THEOREM RejectionComplete == Spec => RejectedIsUndone
<1>1. ASSUME TypeOK, UndoInv, [Next]_vars,
             NEW t \in Tasks, approval'[t] # approval[t], approval'[t] = "rejected"
      PROVE  LiveMatches(live, TaskManifest(t), before[t])
    <2>1. MarkRejected /\ t = target
        BY <1>1, WhoWrites DEF MarkApproved, MarkRejected, TypeOK
    <2>2. QED
        BY <1>1, <2>1 DEF MarkRejected, UndoInv, LiveMatches
<1>2. IInv /\ UndoInv /\ [Next]_vars =>
          [\A t \in Tasks : approval'[t] # approval[t] /\ approval'[t] = "rejected" =>
              LiveMatches(live, TaskManifest(t), before[t])]_vars
    BY <1>1 DEF IInv
<1>3. QED
    BY <1>2, Invariance, UndoInvariance, PTL DEF Spec, RejectedIsUndone
================================================================================
