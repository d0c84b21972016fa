--------------------------- MODULE TaskStagingProofs ---------------------------
(*****************************************************************************)
(* Proofs about what a publication of TaskPublish stages, commits and leaves  *)
(* behind in the clone, about how far a commit that is not published, or that *)
(* the task's file does not speak of, can go, and that every command ends:    *)
(* for every set of tasks, projects, files and contents.                      *)
(*****************************************************************************)
EXTENDS TaskPublishProofs, FiniteSetTheorems

-------------------------------------------------------------------------------
(* Staging.                                                                   *)

Staging == {"stage", "copy", "commit", "rollback", "restore"}

\* The snapshots of a task hold paths of its own project alone.
SnapInv ==
    \A t \in Tasks : \A f \in Files \ FilesOf(project[t]) :
        before[t][f] = Absent /\ after[t][f] = Absent

\* What is planned may be published, and what is in the index is that or HEAD's.
PlanInv ==
    /\ pc = "stage" /\ command = "approve_full" => plan \subseteq FilesOf(project[target])
    /\ pc \in {"copy", "commit"} =>
          plan \subseteq FilesOf(project[target]) \ Blocked /\ SecretFree(plan, after[target])
    /\ pc = "copy" =>
          /\ index = head.tree /\ todo \subseteq plan
          /\ \A f \in plan \ todo : work[f] = after[target][f]
    /\ pc = "commit" => \A f \in plan : index[f] \in {head.tree[f], after[target][f]}

\* The tip is the newest commit of a branch; a task's commit on GitHub came from here.
TipInv ==
    /\ \A c \in head.anc \ {head.tip} : c.n < head.tip.n
    /\ \A c \in remote.anc \ {remote.tip} : c.n < remote.tip.n
    /\ remote.tip.by \in Tasks => remote.tip \in head.anc

\* While a project is staged, the backup holds it and the rest of the clone is clean.
CleanInv ==
    faults = 0 =>
        /\ pc \notin Staging \ {"stage"} => Clean
        /\ pc \in Staging =>
              \A f \in Files \ Ignored :
                  IF f \in FilesOf(project[target]) THEN backup[f] = head.tree[f]
                                                    ELSE work[f] = head.tree[f]
        /\ pc \in {"copy", "restore"} => index = head.tree
        /\ pc = "commit" =>
              \A f \in Files :
                  index[f] = IF plan # {} /\ f \in FilesOf(project[target]) \ Ignored
                             THEN work[f] ELSE head.tree[f]

\* What is owed and not planned is in HEAD already.
WholeInv ==
    /\ pc = "stage" /\ command = "approve_full" =>
          \A f \in Owed(target) \ plan :
              Tracked(index, head.tree)[f] = after[target][f]
    /\ pc \in {"copy", "commit"} =>
          \A f \in Owed(target) \ plan : head.tree[f] = after[target][f]

StageInv == SnapInv /\ PlanInv /\ TipInv /\ CleanInv /\ WholeInv

LEMMA StageInit == Init => StageInv
<1> SUFFICES ASSUME Init PROVE StageInv
    OBVIOUS
<1>1. SnapInv
    BY DEF Init, SnapInv, EmptyTree
<1>2. PlanInv
    BY DEF Init, PlanInv
<1>3. TipInv
    BY TaskAssumption DEF Init, TipInv, RootCommit
<1>4. CleanInv
    BY DEF Init, CleanInv, Clean, Staging
<1>5. WholeInv
    BY DEF Init, WholeInv
<1>6. QED
    BY <1>1, <1>2, <1>3, <1>4, <1>5 DEF StageInv

\* The steps that touch the clone or lead through the staging of a publication.
LEMMA StagingSteps ==
    ASSUME [Next]_vars
    PROVE  /\ project' = project
           /\ \/ UNCHANGED <<handlerVars, repoVars, faults>>
              \/ OperatorPull \/ Crash \/ RollbackFails \/ RestoreBackup
              \/ BeginPublish \/ CheckStage \/ (\E f \in Files : CopyFile(f))
              \/ AddProject \/ Commit \/ StageFails \/ ResetHard
              \/ /\ pc \notin Staging /\ pc' \notin Staging
                 /\ UNCHANGED <<repoVars, faults>>
<1> USE DEF Next, HandlerStep, UserStep, TaskStep, Environment, vars, taskVars,
        handlerVars, repoVars, boundVars, SetPublish, Release, CreateTask, StartTask,
        CodexEdit, TaskSucceeds, TaskNotified, TaskFails, Ask, Lock, RetryPush,
        BeginPublish, RefusePublish, CheckStage, CopyFile, AddProject, Commit,
        StageFails, ResetHard, RestoreBackup, RollbackFails, RecordCommit, Push,
        PushFails, Verify, VerifyFails, FetchFails, MarkPushed, MarkApproved,
        BeginReject, RefuseReject, UndoFile, UndoFails, MarkRejected, Crash, AskFails,
        ForeignPush, OperatorPull, OperatorEdit, Staging
<1>1. project' = project
    OBVIOUS
<1>2. CASE HandlerStep
    BY <1>2
<1>3. CASE ~HandlerStep
    BY <1>3
<1>4. QED
    BY <1>1, <1>2, <1>3

-------------------------------------------------------------------------------
(* Snapshots, plans and tips.                                                 *)

LEMMA SnapStep == TypeOK /\ SnapInv /\ [Next]_vars => SnapInv'
<1> SUFFICES ASSUME TypeOK, SnapInv, [Next]_vars, NEW t \in Tasks,
                    NEW f \in Files, f \notin FilesOf(project[t])
             PROVE  before'[t][f] = Absent /\ after'[t][f] = Absent
    BY StagingSteps DEF SnapInv, FilesOf
<1>1. before'[t][f] = Absent
    <2>1. CASE before' = before
        BY <2>1 DEF SnapInv
    <2>2. ASSUME NEW u \in Tasks, StartTask(u) PROVE before'[t][f] = Absent
        BY <2>2 DEF StartTask, Snapshot, SnapInv, TypeOK
    <2>3. QED
        BY <2>1, <2>2, WhoWrites
<1>2. after'[t][f] = Absent
    <2>1. CASE after' = after
        BY <2>1 DEF SnapInv
    <2>2. ASSUME NEW u \in Tasks, TaskSucceeds(u) PROVE after'[t][f] = Absent
        BY <2>2 DEF TaskSucceeds, Snapshot, SnapInv, TypeOK
    <2>3. QED
        BY <2>1, <2>2, WhoWrites
<1>3. QED
    BY <1>1, <1>2

\* Nobody writes the snapshots or pulls while the handler is under way.
LEMMA Still ==
    ASSUME TypeOK, ControlInv, [Next]_vars, pc \in Critical
    PROVE  after' = after /\ ~OperatorPull
BY WhoWrites, Exclusive DEF TaskSucceeds, OperatorPull

LEMMA PlanOfProject ==
    ASSUME TypeOK, SnapInv, NEW t \in Tasks,
           command = "approve_full" => plan \subseteq FilesOf(project[t])
    PROVE  StagePlan(t) \subseteq FilesOf(project[t])
BY DEF TypeOK, SnapInv, StagePlan, ApprovalPlan, Manifest, Differs, Present, Trees

LEMMA PlanStep == TypeOK /\ ControlInv /\ SnapInv /\ PlanInv /\ [Next]_vars => PlanInv'
<1> SUFFICES ASSUME TypeOK, ControlInv, SnapInv, PlanInv, [Next]_vars PROVE PlanInv'
    OBVIOUS
<1>p. project' = project
    BY StagingSteps
<1>1. CASE UNCHANGED <<handlerVars, repoVars>>
    <2>1. pc \in {"copy", "commit"} => after' = after
        BY Still DEF Critical, HandlerSteps
    <2>2. UNCHANGED <<pc, command, target, plan, todo, head, index, work>>
        BY <1>1 DEF handlerVars, repoVars
    <2>3. QED
        BY <1>p, <2>1, <2>2 DEF PlanInv, FilesOf, SecretFree
<1>2. CASE BeginPublish
    BY <1>2, <1>p DEF BeginPublish, PlanInv, FullPlan
<1>3. CASE CheckStage
    <2>1. /\ pc = "stage" /\ pc' = "copy" /\ StageAllowed(target, plan')
          /\ plan' = StagePlan(target) /\ todo' = plan'
          /\ UNCHANGED <<after, target, head, index, work>>
        BY <1>3 DEF CheckStage, taskVars, repoVars
    <2>2. target \in Tasks
        BY <2>1 DEF ControlInv, TargetInv
    <2>3. plan' \subseteq FilesOf(project[target])
        BY <2>1, <2>2, PlanOfProject DEF PlanInv
    <2>4. QED
        BY <1>p, <2>1, <2>3 DEF PlanInv, StageAllowed, PlanAllowed, SecretFree, Clean, FilesOf
<1>4. ASSUME NEW g \in Files, CopyFile(g) PROVE PlanInv'
    <2>1. /\ pc = "copy" /\ pc' = "copy" /\ todo' = todo \ {g}
          /\ work' = [work EXCEPT ![g] = after[target][g]]
          /\ UNCHANGED <<after, target, plan, head, index>>
        BY <1>4 DEF CopyFile, taskVars
    <2>2. \A f \in Files : work'[f] = IF f = g THEN after[target][g] ELSE work[f]
        BY <2>1 DEF TypeOK, Trees
    <2>3. plan \subseteq Files
        BY DEF TypeOK
    <2>4. QED
        BY <1>p, <2>1, <2>2, <2>3 DEF PlanInv, SecretFree, FilesOf
<1>5. CASE AddProject
    <2>1. /\ pc = "copy" /\ todo = {} /\ pc' = "commit"
          /\ UNCHANGED <<after, target, plan, head, work>>
          /\ \A f \in plan : index'[f] \in {work[f], index[f]}
        BY <1>5 DEF AddProject, taskVars, TypeOK
    <2>2. QED
        BY <1>p, <2>1 DEF PlanInv, SecretFree, FilesOf
<1>6. CASE pc' \notin {"stage", "copy", "commit"}
    BY <1>6 DEF PlanInv
<1>7. CASE OperatorPull
    <2>1. pc \notin Critical /\ pc' = pc
        BY <1>7, Still DEF OperatorPull, handlerVars
    <2>2. QED
        BY <1>6, <2>1 DEF Critical, HandlerSteps
<1>8. CASE Crash \/ RollbackFails \/ RestoreBackup \/ Commit \/ StageFails \/ ResetHard
    BY <1>6, <1>8 DEF Crash, RollbackFails, RestoreBackup, Commit, StageFails, ResetHard, Release
<1>9. QED
    BY <1>1, <1>2, <1>3, <1>4, <1>5, <1>6, <1>7, <1>8, StagingSteps DEF Staging

LEMMA TipStep == TypeOK /\ HistoryInv /\ ControlInv /\ TipInv /\ [Next]_vars => TipInv'
<1> SUFFICES ASSUME TypeOK, HistoryInv, ControlInv, TipInv, [Next]_vars PROVE TipInv'
    OBVIOUS
<1>n. commits \in Nat /\ \A c \in head.anc \cup remote.anc : c.n \in Nat /\ c.n < commits + 1
    BY DEF TypeOK, Refs, Commits, HistoryInv
<1>1. CASE Commit
    <2>1. /\ head'.tip = [by |-> target, n |-> commits + 1]
          /\ head'.anc = head.anc \cup {head'.tip} /\ remote' = remote
        BY <1>1 DEF Commit, Extend
    <2>2. QED
        BY <1>n, <2>1 DEF TipInv
<1>2. CASE ForeignPush
    <2>1. PICK tree : remote' = Extend(remote, Foreign, tree)
        BY <1>2 DEF ForeignPush
    <2>2. /\ remote'.tip = [by |-> Foreign, n |-> commits + 1]
          /\ remote'.anc = remote.anc \cup {remote'.tip} /\ head' = head
        BY <1>2, <2>1 DEF ForeignPush, Extend, repoVars
    <2>3. QED
        BY <1>n, <2>2, TaskAssumption DEF TipInv
<1>3. CASE OperatorPull
    BY <1>3 DEF OperatorPull, TipInv, HistoryInv
<1>4. CASE Push \/ PushFails
    BY <1>4 DEF Push, PushFails, TipInv, HistoryInv, repoVars
<1>5. CASE UNCHANGED <<head, remote>>
    BY <1>5 DEF TipInv
<1>6. QED
    BY <1>1, <1>2, <1>3, <1>4, <1>5, WhoWrites DEF Commit

-------------------------------------------------------------------------------
(* Nothing that has to be published is forgotten.                             *)

LEMMA OwedStays ==
    ASSUME TypeOK, ControlInv, [Next]_vars, pc \in Critical,
           UNCHANGED <<command, target>>
    PROVE  Owed(target)' = Owed(target) /\ after'[target] = after[target]
<1>1. project' = project /\ after' = after
    BY Still, StagingSteps
<1>2. before' = before
    BY Exclusive, WhoWrites, TaskAssumption DEF StartTask
<1>3. QED
    BY <1>1, <1>2 DEF Owed, FilesOf, TaskManifest, Manifest, Differs

LEMMA WholeStep == TypeOK /\ ControlInv /\ SnapInv /\ WholeInv /\ [Next]_vars => WholeInv'
<1> SUFFICES ASSUME TypeOK, ControlInv, SnapInv, WholeInv, [Next]_vars PROVE WholeInv'
    OBVIOUS
<1>1. CASE BeginPublish
    <2>1. /\ pc = "publish" /\ pc' = "stage"
          /\ UNCHANGED <<command, target, head, index>>
          /\ command = "approve_full" =>
                plan' = FullPlan(Tracked(index, head.tree), project[target], after[target])
        BY <1>1 DEF BeginPublish, repoVars
    <2>2. Owed(target)' = Owed(target) /\ after'[target] = after[target]
        BY <2>1, OwedStays DEF Critical, HandlerSteps
    <2>3. command = "approve_full" =>
              \A f \in Owed(target) \ plan' :
                  Tracked(index, head.tree)[f] = after[target][f]
        BY <2>1 DEF Owed, FullPlan
    <2>4. QED
        BY <2>1, <2>2, <2>3 DEF WholeInv
<1>2. CASE CheckStage
    <2>1. /\ pc = "stage" /\ pc' = "copy" /\ Clean
          /\ plan' = StagePlan(target)
          /\ UNCHANGED <<command, target, head, index, work>>
        BY <1>2 DEF CheckStage, StageAllowed, repoVars
    <2>2. Owed(target)' = Owed(target) /\ after'[target] = after[target]
        BY <2>1, OwedStays DEF Critical, HandlerSteps
    <2>3. target \in Tasks
        BY <2>1 DEF ControlInv, TargetInv
    <2>4. ASSUME NEW f \in Owed(target) \ plan' PROVE head.tree[f] = after[target][f]
        <3>1. f \in Files \ (Blocked \cup Ignored)
            BY <2>4 DEF Owed, FilesOf, TaskManifest, Manifest, Differs
        <3>2. CASE command = "approve_full"
            BY <2>1, <2>4, <3>1, <3>2 DEF WholeInv, StagePlan, Clean, Tracked
        <3>3. CASE command # "approve_full"
            <4>1. f \in Manifest(before[target], after[target])
                BY <2>4, <3>3 DEF Owed, TaskManifest
            <4>2. ~ProjectExists(work, project[target]) /\ f \notin Present(after[target])
                BY <2>1, <2>4, <3>1, <3>3, <4>1 DEF StagePlan, ApprovalPlan
            <4>3. f \in FilesOf(project[target])
                BY <2>3, <3>1, <4>1 DEF SnapInv, Manifest, Differs
            <4>4. work[f] = Absent /\ after[target][f] = Absent
                BY <3>1, <4>2, <4>3 DEF ProjectExists, Present
            <4>5. QED
                BY <2>1, <3>1, <4>4 DEF Clean
        <3>4. QED
            BY <3>2, <3>3
    <2>5. QED
        BY <2>1, <2>2, <2>4 DEF WholeInv
<1>3. CASE UNCHANGED <<handlerVars, repoVars>>
    <2>1. UNCHANGED <<pc, command, target, plan, head, index>>
        BY <1>3 DEF handlerVars, repoVars
    <2>2. pc \in Critical => Owed(target)' = Owed(target) /\ after'[target] = after[target]
        BY <2>1, OwedStays
    <2>3. QED
        BY <2>1, <2>2 DEF WholeInv, Critical, HandlerSteps
<1>4. CASE AddProject \/ \E f \in Files : CopyFile(f)
    <2>1. /\ pc = "copy" /\ pc' \in {"copy", "commit"}
          /\ UNCHANGED <<command, target, plan, head>>
        BY <1>4 DEF AddProject, CopyFile
    <2>2. Owed(target)' = Owed(target) /\ after'[target] = after[target]
        BY <2>1, OwedStays DEF Critical, HandlerSteps
    <2>3. QED
        BY <2>1, <2>2 DEF WholeInv
<1>5. CASE pc' \notin {"stage", "copy", "commit"}
    BY <1>5 DEF WholeInv
<1>6. CASE OperatorPull
    <2>1. pc \notin Critical /\ pc' = pc
        BY <1>6, Still DEF OperatorPull, handlerVars
    <2>2. QED
        BY <1>5, <2>1 DEF Critical, HandlerSteps
<1>7. CASE Crash \/ RollbackFails \/ RestoreBackup \/ Commit \/ StageFails \/ ResetHard
    BY <1>5, <1>7 DEF Crash, RollbackFails, RestoreBackup, Commit, StageFails, ResetHard, Release
<1>8. QED
    BY <1>1, <1>2, <1>3, <1>4, <1>5, <1>6, <1>7, StagingSteps DEF Staging

-------------------------------------------------------------------------------
(* The clone while nothing failed.                                            *)

LEMMA WhoFaults ==
    ASSUME [Next]_vars
    PROVE  faults' = faults \/ ((Crash \/ RollbackFails) /\ faults' = faults + 1)
BY StagingSteps
   DEF boundVars, OperatorPull, Crash, RollbackFails, RestoreBackup, BeginPublish,
       CheckStage, CopyFile, AddProject, Commit, StageFails, ResetHard

\* git pull in a clean clone leaves it clean.
LEMMA PullClean ==
    ASSUME TypeOK, OperatorPull
    PROVE  Clean'
<1>1. /\ index' = remote.tree /\ head' = remote
      /\ \A f \in Files \ Ignored : work[f] = head.tree[f]
      /\ \A f \in Files : work'[f] = IF remote.tree[f] # Absent \/ head.tree[f] # Absent
                                     THEN remote.tree[f] ELSE work[f]
    BY DEF OperatorPull, Clean
<1>2. QED
    BY <1>1 DEF Clean

LEMMA CleanStep ==
    TypeOK /\ ControlInv /\ PlanInv /\ CleanInv /\ [Next]_vars => CleanInv'
<1> SUFFICES ASSUME TypeOK, ControlInv, PlanInv, CleanInv, [Next]_vars, faults' = 0
             PROVE  CleanInv'
    BY DEF CleanInv
<1> DEFINE mine == FilesOf(project[target])
<1>p. project' = project
    BY StagingSteps
<1>0. faults = 0 /\ ~Crash /\ ~RollbackFails
    BY WhoFaults DEF TypeOK, Crash, RollbackFails
<1>1. CASE UNCHANGED <<handlerVars, repoVars>>
    <2>1. UNCHANGED <<pc, target, plan, backup, head, index, work>>
        BY <1>1 DEF handlerVars, repoVars
    <2>2. QED
        BY <1>0, <1>p, <2>1 DEF CleanInv, Clean, FilesOf
<1>2. CASE OperatorPull
    <2>1. pc \notin Critical /\ pc' = pc
        BY <1>2, Still DEF OperatorPull, handlerVars
    <2>2. QED
        BY <1>2, <2>1, PullClean DEF CleanInv, Critical, HandlerSteps, Staging
<1>3. CASE pc \notin Staging /\ pc' \notin Staging /\ UNCHANGED repoVars
    BY <1>0, <1>3 DEF CleanInv, Clean, repoVars, Staging
<1>4. CASE BeginPublish
    <2>1. /\ pc = "publish" /\ pc' = "stage" /\ UNCHANGED <<target, head, index, work>>
          /\ backup' = Snapshot(work, project[target])
        BY <1>4 DEF BeginPublish, repoVars
    <2>2. Clean
        BY <1>0, <2>1 DEF CleanInv, Staging
    <2>3. \A f \in Files : backup'[f] = IF f \in mine THEN work[f] ELSE Absent
        BY <2>1 DEF Snapshot
    <2>4. QED
        BY <1>p, <2>1, <2>2, <2>3 DEF CleanInv, Clean, Staging, FilesOf
<1>5. CASE CheckStage
    <2>1. /\ pc = "stage" /\ pc' = "copy" /\ Clean /\ UNCHANGED <<target, backup, head, index, work>>
        BY <1>5 DEF CheckStage, StageAllowed, repoVars
    <2>2. QED
        BY <1>0, <1>p, <2>1 DEF CleanInv, Clean, Staging, FilesOf
<1>6. ASSUME NEW g \in Files, CopyFile(g) PROVE CleanInv'
    <2>1. /\ pc = "copy" /\ pc' = "copy" /\ g \in todo
          /\ work' = [work EXCEPT ![g] = after[target][g]]
          /\ UNCHANGED <<target, backup, head, index>>
        BY <1>6 DEF CopyFile
    <2>2. \A f \in Files : f # g => work'[f] = work[f]
        BY <2>1 DEF TypeOK, Trees
    <2>3. g \in mine
        BY <2>1 DEF PlanInv
    <2>4. QED
        BY <1>0, <1>p, <2>1, <2>2, <2>3 DEF CleanInv, Clean, Staging, FilesOf
<1>7. CASE AddProject
    <2>1. /\ pc = "copy" /\ pc' = "commit" /\ UNCHANGED <<target, plan, backup, head, work>>
          /\ index = head.tree
          /\ index' = IF plan = {} THEN index
                      ELSE [f \in Files |-> IF f \in mine \ Ignored THEN work[f] ELSE index[f]]
        BY <1>0, <1>7 DEF AddProject, CleanInv
    <2>2. QED
        BY <1>0, <1>p, <2>1 DEF CleanInv, Clean, Staging, FilesOf
<1>8. CASE Commit
    <2>1. /\ pc = "commit" /\ pc' = "record" /\ head'.tree = index /\ UNCHANGED <<index, work>>
          /\ Differs(index, head.tree) \subseteq plan /\ Differs(index, head.tree) # {}
        BY <1>8 DEF Commit, ScopeValid, Extend
    <2>2. plan # {}
        BY <2>1
    <2>3. \A f \in Files \ Ignored : work[f] = index[f]
        BY <1>0, <2>1, <2>2 DEF CleanInv, Staging
    <2>4. QED
        BY <2>1, <2>3 DEF CleanInv, Clean, Staging
<1>9. CASE StageFails
    <2>1. /\ pc \in Staging /\ pc' = "rollback" /\ UNCHANGED <<target, backup, head, index, work>>
        BY <1>9 DEF StageFails, repoVars, Staging
    <2>2. QED
        BY <1>0, <1>p, <2>1 DEF CleanInv, Clean, Staging, FilesOf
<1>10. CASE ResetHard
    <2>1. /\ pc = "rollback" /\ pc' = "restore" /\ UNCHANGED <<target, backup, head>>
          /\ index' = head.tree
          /\ \A f \in Files : work'[f] \in {head.tree[f], work[f]}
        BY <1>10 DEF ResetHard
    <2>2. QED
        BY <1>0, <1>p, <2>1 DEF CleanInv, Clean, Staging, FilesOf
<1>11. CASE RestoreBackup
    <2>1. /\ pc = "restore" /\ pc' = "idle" /\ head' = head /\ index' = head.tree
          /\ \A f \in Files : work'[f] = IF f \in mine THEN backup[f] ELSE work[f]
        BY <1>11 DEF RestoreBackup, Release, Overlay
    <2>2. \A f \in Files \ Ignored : work'[f] = head.tree[f]
        BY <1>0, <2>1 DEF CleanInv, Staging
    <2>3. QED
        BY <2>1, <2>2 DEF CleanInv, Clean, Staging
<1>12. QED
    BY <1>0, <1>1, <1>2, <1>3, <1>4, <1>5, <1>6, <1>7, <1>8, <1>9, <1>10, <1>11, StagingSteps

-------------------------------------------------------------------------------
(* The theorems.                                                              *)

LEMMA StageInvariance == Spec => []StageInv
<1>1. IInv /\ StageInv /\ [Next]_vars => StageInv'
    BY SnapStep, PlanStep, TipStep, CleanStep, WholeStep DEF IInv, StageInv
<1>2. QED
    BY <1>1, StageInit, Invariance, PTL DEF Spec

\* A publication that fails gracefully leaves nothing behind: whatever was copied,
\* deleted or staged when it failed, the clone is clean when TASK_LOCK is free
\* (the roll back of stage_task_for_approval).
THEOREM LeavesClean == Spec => []CleanWhenIdle
<1>1. IInv /\ StageInv => CleanWhenIdle
    BY DEF IInv, StageInv, ControlInv, LockInv, CleanInv, CleanWhenIdle, Critical, Staging,
           HandlerSteps
<1>2. QED
    BY <1>1, Invariance, StageInvariance, PTL

\* A task's commit is the task, no more and no less: only allowed paths of its own
\* project change, to the content of the After snapshot and to no secret, whatever
\* earlier crashes and failed roll backs left in the clone; and every path that the
\* command had to publish has that content afterwards (stage_task_for_approval,
\* validate_staged_scope).
THEOREM CommitFaithful == Spec => CommitIsTheTask
<1>1. ASSUME IInv, StageInv, [Next]_vars, head' # head, head'.tip.by \in Tasks
      PROVE  Commit
    <2>1. ~OperatorPull
        <3>1. ASSUME OperatorPull PROVE FALSE
            <4>1. head.tip \in remote.anc /\ head.tip # remote.tip /\ remote.tip.by \in Tasks
                BY <1>1, <3>1 DEF OperatorPull
            <4>2. head.tip.n < remote.tip.n /\ remote.tip.n < head.tip.n
                BY <1>1, <4>1 DEF StageInv, TipInv
            <4>3. head.tip.n \in Nat /\ remote.tip.n \in Nat
                BY <1>1 DEF IInv, TypeOK, Refs, Commits
            <4>4. QED
                BY <4>2, <4>3
        <3>2. QED
            BY <3>1
    <2>2. QED
        BY <1>1, <2>1, WhoWrites
<1>2. ASSUME IInv, StageInv, Commit
      PROVE  LET t == head'.tip.by
             IN  /\ \A f \in Differs(head.tree, head'.tree) :
                       /\ f \in FilesOf(project[t]) \ Blocked
                       /\ head'.tree[f] = after[t][f]
                       /\ head'.tree[f] \notin Secrets
                 /\ \A f \in Owed(t) : head'.tree[f] = after[t][f]
    <2>1. /\ pc = "commit" /\ head'.tip.by = target /\ head'.tree = index
          /\ Differs(index, head.tree) \subseteq plan
          /\ plan \ Differs(index, head.tree) \subseteq Ignored
        BY <1>2 DEF Commit, ScopeValid, Extend
    <2>2. ASSUME NEW f \in Differs(head.tree, index)
          PROVE  /\ f \in FilesOf(project[target]) \ Blocked
                 /\ index[f] = after[target][f] /\ index[f] \notin Secrets
        <3>1. f \in plan /\ index[f] # head.tree[f]
            BY <2>1, <2>2 DEF Differs
        <3>2. QED
            BY <1>2, <2>1, <3>1 DEF StageInv, PlanInv, SecretFree
    <2>3. ASSUME NEW f \in Owed(target) PROVE index[f] = after[target][f]
        <3>1. f \in Files \ Ignored
            BY <2>3 DEF Owed, FilesOf, TaskManifest, Manifest, Differs
        <3>2. CASE f \in plan
            <4>1. index[f] # head.tree[f]
                BY <2>1, <3>1, <3>2 DEF Differs
            <4>2. QED
                BY <1>2, <2>1, <3>2, <4>1 DEF StageInv, PlanInv
        <3>3. CASE f \notin plan
            BY <1>2, <2>1, <2>3, <3>1, <3>3 DEF StageInv, WholeInv, Differs
        <3>4. QED
            BY <3>2, <3>3
    <2>4. QED
        BY <2>1, <2>2, <2>3
<1>3. IInv /\ StageInv /\ [Next]_vars =>
         [head' # head /\ head'.tip.by \in Tasks =>
             LET t == head'.tip.by
             IN  /\ \A f \in Differs(head.tree, head'.tree) :
                       /\ f \in FilesOf(project[t]) \ Blocked
                       /\ head'.tree[f] = after[t][f]
                       /\ head'.tree[f] \notin Secrets
                 /\ \A f \in Owed(t) : head'.tree[f] = after[t][f]]_vars
    BY <1>1, <1>2
<1>4. QED
    BY <1>3, Invariance, StageInvariance, PTL DEF Spec, CommitIsTheTask

-------------------------------------------------------------------------------
(* How far the findings about publication reach.                              *)

\* The places in which the target's commit is on GitHub.
Verified == {"fetch", "pushed", "approve"}

ExtentInv ==
    /\ pc \in {"rollback", "restore"} \cup Verified => head.tip \in remote.anc
    /\ faults = 0 /\ pc \notin {"record", "push"} /\ head.tip \notin remote.anc =>
          \E t \in Tasks : head.tip.by = t /\ CanRetry(t)

LEMMA ExtentInit == Init => ExtentInv
BY DEF Init, ExtentInv, Verified

\* A retry is given up by nobody else.
LEMMA RetryStays ==
    ASSUME NEW t \in Tasks, CanRetry(t), UNCHANGED head,
           publishState'[t] = publishState[t], gitCommit'[t] = gitCommit[t]
    PROVE  CanRetry(t)'
BY DEF CanRetry

LEMMA RetryReady ==
    ASSUME NEW t \in Tasks, publishState'[t] = "push_failed",
           gitCommit'[t] = head'.tip, head'.tip.by = t
    PROVE  \E u \in Tasks : head'.tip.by = u /\ CanRetry(u)'
BY DEF CanRetry

LEMMA WhoPublishes ==
    ASSUME [Next]_vars
    PROVE  \/ UNCHANGED publishState
           \/ BeginPublish \/ RestoreBackup \/ RollbackFails \/ RecordCommit \/ PushFails
           \/ VerifyFails \/ MarkPushed
BY DEF Next, HandlerStep, UserStep, TaskStep, Environment, vars, taskVars, CreateTask,
       StartTask, CodexEdit, TaskSucceeds, TaskNotified, TaskFails, Ask, Lock, RetryPush,
       RefusePublish, CheckStage, CopyFile, AddProject, Commit, StageFails, ResetHard,
       Push, Verify, FetchFails, MarkApproved, BeginReject, RefuseReject, UndoFile,
       UndoFails, MarkRejected, Crash, AskFails, ForeignPush, OperatorPull, OperatorEdit

LEMMA WhoVerifies ==
    ASSUME [Next]_vars, pc' \in {"rollback", "restore"} \cup Verified
    PROVE  \/ pc \in {"stage", "copy", "commit", "rollback", "restore"} \cup Verified
           \/ Push
BY DEF Next, HandlerStep, UserStep, TaskStep, Environment, vars, taskVars, handlerVars,
       boundVars, Release, CreateTask, StartTask, CodexEdit, TaskSucceeds, TaskNotified,
       TaskFails, Ask, Lock, RetryPush, BeginPublish, RefusePublish, CheckStage, CopyFile,
       AddProject, Commit, StageFails, ResetHard, RestoreBackup, RollbackFails,
       RecordCommit, PushFails, Verify, VerifyFails, FetchFails, MarkPushed, MarkApproved,
       BeginReject, RefuseReject, UndoFile, UndoFails, MarkRejected, Crash, AskFails,
       ForeignPush, OperatorPull, OperatorEdit, Verified

LEMMA WhoLeavesPush ==
    ASSUME [Next]_vars, pc \in {"record", "push"}, pc' \notin {"record", "push"}
    PROVE  Push \/ PushFails \/ Crash
BY DEF Next, HandlerStep, UserStep, TaskStep, Environment, vars, taskVars, handlerVars,
       boundVars, Release, CreateTask, StartTask, CodexEdit, TaskSucceeds, TaskNotified,
       TaskFails, Ask, Lock, RetryPush, BeginPublish, RefusePublish, CheckStage, CopyFile,
       AddProject, Commit, StageFails, ResetHard, RestoreBackup, RollbackFails,
       RecordCommit, Verify, VerifyFails, FetchFails, MarkPushed, MarkApproved,
       BeginReject, RefuseReject, UndoFile, UndoFails, MarkRejected, AskFails,
       ForeignPush, OperatorPull, OperatorEdit

LEMMA WhoLeavesRecord ==
    ASSUME [Next]_vars, pc = "record", ~RecordCommit, ~Crash
    PROVE  pc' = "record" /\ target' = target
BY DEF Next, HandlerStep, UserStep, TaskStep, Environment, vars, taskVars, handlerVars,
       boundVars, Release, CreateTask, StartTask, CodexEdit, TaskSucceeds, TaskNotified,
       TaskFails, Ask, Lock, RetryPush, BeginPublish, RefusePublish, CheckStage, CopyFile,
       AddProject, Commit, StageFails, ResetHard, RestoreBackup, RollbackFails, Push,
       PushFails, Verify, VerifyFails, FetchFails, MarkPushed, MarkApproved, BeginReject,
       RefuseReject, UndoFile, UndoFails, MarkRejected, AskFails, ForeignPush,
       OperatorPull, OperatorEdit

LEMMA ExtentStep == IInv /\ ExtentInv /\ [Next]_vars => ExtentInv'
<1> SUFFICES ASSUME IInv, ExtentInv, [Next]_vars PROVE ExtentInv'
    OBVIOUS
<1>t. TypeOK /\ ControlInv /\ HistoryInv /\ RecordInv
    BY DEF IInv
<1>1. CASE Commit
    BY <1>1 DEF Commit, ExtentInv, Verified
<1>2. CASE OperatorPull
    <2>1. /\ lock # Handler /\ head' = remote /\ remote' = remote /\ pc' = pc
        BY <1>2 DEF OperatorPull, handlerVars
    <2>2. head'.tip \in remote'.anc
        BY <1>t, <2>1 DEF HistoryInv
    <2>3. QED
        BY <2>2 DEF ExtentInv
<1>3. CASE head' = head
    <2>1. remote.anc \subseteq remote'.anc
        BY <1>t, RemoteGrows
    <2>2. pc' \in {"rollback", "restore"} \cup Verified => head.tip \in remote'.anc
        <3>1. CASE Push
            BY <1>t, <3>1 DEF Push, HistoryInv
        <3>2. CASE pc \in {"stage", "copy", "commit", "rollback", "restore"} \cup Verified
            BY <1>t, <2>1, <3>2 DEF HistoryInv, ExtentInv
        <3>3. QED
            BY <3>1, <3>2, WhoVerifies
    <2>3. ASSUME faults' = 0, pc' \notin {"record", "push"}, head.tip \notin remote'.anc
          PROVE  \E t \in Tasks : head'.tip.by = t /\ CanRetry(t)'
        <3>1. faults = 0 /\ ~Crash /\ ~RollbackFails /\ head.tip \notin remote.anc
            <4>1. faults \in Nat
                BY <1>t DEF TypeOK
            <4>2. ~Crash /\ ~RollbackFails
                BY <2>3, <4>1 DEF Crash, RollbackFails
            <4>3. QED
                BY <2>1, <2>3, <4>2, WhoFaults
        <3>2. CASE pc \in {"record", "push"}
            <4>1. ~Push
                BY <1>t, <2>3 DEF Push, HistoryInv
            <4>2. PushFails
                BY <2>3, <3>1, <3>2, <4>1, WhoLeavesPush
            <4>3. /\ target \in Tasks /\ head.tip.by = target /\ gitCommit[target] = head.tip
                  /\ gitCommit' = gitCommit
                  /\ publishState' = [publishState EXCEPT ![target] = "push_failed"]
                BY <1>t, <4>2 DEF PushFails, RecordInv, ControlInv, TargetInv, SetPublish
            <4>4. publishState'[target] = "push_failed"
                BY <1>t, <4>3 DEF TypeOK
            <4>5. gitCommit'[target] = head'.tip /\ head'.tip.by = target
                BY <1>3, <4>3
            <4>6. QED
                BY <4>3, <4>4, <4>5, RetryReady
        <3>3. CASE pc \notin {"record", "push"}
            <4>1. PICK t \in Tasks : head.tip.by = t /\ CanRetry(t)
                BY <3>1, <3>3 DEF ExtentInv
            <4>2. ~UpToDate /\ pc \notin {"rollback", "restore"} \cup Verified
                BY <1>t, <3>1 DEF UpToDate, HistoryInv, ExtentInv
            <4>3. UNCHANGED publishState
                BY <3>1, <3>3, <4>2, WhoPublishes
                   DEF BeginPublish, RestoreBackup, RecordCommit, PushFails, VerifyFails,
                       MarkPushed, Verified
            <4>4. UNCHANGED gitCommit
                BY <3>3, WhoWrites DEF RecordCommit
            <4>5. QED
                BY <1>3, <4>1, <4>3, <4>4, RetryStays
        <3>4. QED
            BY <3>2, <3>3
    <2>4. QED
        BY <1>3, <2>2, <2>3 DEF ExtentInv
<1>4. QED
    BY <1>1, <1>2, <1>3, WhoWrites

\* main is ahead of GitHub only with a commit that its task can still push: whatever
\* failed, as long as the controller did not die and no roll back broke off, the
\* pending push is resumed by the next /approve.  So a recorded commit that cannot
\* be resumed (RecordedCommitResumable) is on GitHub already, or was orphaned by a
\* crash (publish_task_to_git, "push_failed").
AheadIsResumable ==
    faults = 0 /\ pc \notin {"record", "push"} /\ head.tip \notin remote.anc =>
        \E t \in Tasks : head.tip.by = t /\ CanRetry(t)

THEOREM PushResumable == Spec => []AheadIsResumable
<1>1. ExtentInv => AheadIsResumable
    BY DEF ExtentInv, AheadIsResumable
<1>2. Spec => []ExtentInv
    BY ExtentInit, ExtentStep, Invariance, PTL DEF Spec
<1>3. QED
    BY <1>1, <1>2, PTL

CommitsAreRecorded ==
    faults = 0 =>
        \A c \in head.anc \cup remote.anc : c.by \in Tasks =>
            gitCommit[c.by].by = c.by \/ (pc = "record" /\ target = c.by)

\* Every commit of a task, on main or on GitHub, is one that the task's own file
\* speaks of, unless the controller died between commit and record: what /reject
\* denies to its user (RejectedNeverCommitted) it could have read there
\* (mark_publish_state, reject_task_changes).
THEOREM CommitsRecorded == Spec => []CommitsAreRecorded
<1>1. Init => CommitsAreRecorded
    BY TaskAssumption DEF Init, CommitsAreRecorded, RootCommit
<1>2. ASSUME IInv, CommitsAreRecorded, [Next]_vars PROVE CommitsAreRecorded'
    <2>t. TypeOK /\ ControlInv /\ RecordInv
        BY <1>2 DEF IInv
    <2> SUFFICES ASSUME faults' = 0, NEW c \in (head.anc \cup remote.anc)',
                        c.by \in Tasks
                 PROVE  \/ gitCommit'[c.by].by = c.by
                        \/ pc' = "record" /\ target' = c.by
        BY DEF CommitsAreRecorded
    <2>1. faults = 0 /\ ~Crash
        BY <1>2, <2>t, WhoFaults DEF Crash, TypeOK
    <2>2. CASE Commit
        <3>1. /\ head'.anc = head.anc \cup {head'.tip} /\ remote' = remote
              /\ head'.tip.by = target /\ pc = "commit" /\ pc' = "record"
              /\ UNCHANGED <<target, gitCommit>>
            BY <2>2 DEF Commit, Extend, taskVars
        <3>2. QED
            BY <1>2, <2>1, <3>1 DEF CommitsAreRecorded
    <2>3. CASE RecordCommit
        <3>1. /\ pc = "record" /\ UNCHANGED <<head, remote>>
              /\ gitCommit' = [gitCommit EXCEPT ![target] = head.tip]
            BY <2>3 DEF RecordCommit, repoVars
        <3>2. target \in Tasks /\ head.tip.by = target
            BY <2>t, <3>1 DEF RecordInv, ControlInv, TargetInv
        <3>3. QED
            BY <1>2, <2>1, <2>t, <3>1, <3>2 DEF CommitsAreRecorded, TypeOK
    <2>4. CASE ~Commit /\ ~RecordCommit
        <3>1. gitCommit' = gitCommit
            BY <1>2, <2>4, WhoWrites
        <3>2. pc = "record" => pc' = "record" /\ target' = target
            BY <1>2, <2>1, <2>4, WhoLeavesRecord
        <3>3. c \in head.anc \cup remote.anc \/ c.by = Foreign
            BY <1>2, <2>4, WhoWrites
               DEF Push, PushFails, ForeignPush, OperatorPull, Extend
        <3>4. QED
            BY <1>2, <2>1, <3>1, <3>2, <3>3, TaskAssumption DEF CommitsAreRecorded
    <2>5. QED
        BY <2>2, <2>3, <2>4
<1>3. QED
    BY <1>1, <1>2, Invariance, PTL DEF Spec

-------------------------------------------------------------------------------
(* Commands end.                                                              *)

\* How many steps the command under way takes at most.
CommandLeft ==
    CASE pc = "idle" -> 0
      [] pc \in {"approve", "restore"} -> 1
      [] pc \in {"pushed", "rollback"} -> 2
      [] pc = "fetch" -> 3
      [] pc = "push" -> 4
      [] pc = "record" -> 5
      [] pc = "commit" -> 6
      [] pc \in {"copy", "undo"} -> 7 + Cardinality(todo)
      [] pc \in {"stage", "reject"} -> 8 + Cardinality(Files)
      [] pc = "publish" -> 9 + Cardinality(Files)
      [] pc = "asked" -> 10 + Cardinality(Files)

LEMMA TodoShrinks ==
    ASSUME IsFiniteSet(Files), TypeOK
    PROVE  /\ Cardinality(Files) \in Nat
           /\ \A s \in SUBSET Files : Cardinality(s) \in Nat /\ Cardinality(s) <= Cardinality(Files)
           /\ \A f \in todo : Cardinality(todo \ {f}) < Cardinality(todo)
<1>1. IsFiniteSet(todo) /\ \A s \in SUBSET Files : IsFiniteSet(s)
    BY FS_Subset DEF TypeOK
<1>2. \A s \in SUBSET Files : Cardinality(s) \in Nat /\ Cardinality(s) <= Cardinality(Files)
    BY <1>1, FS_Subset, FS_CardinalityType
<1>3. Cardinality(Files) \in Nat
    BY FS_CardinalityType
<1>4. \A f \in todo : Cardinality(todo \ {f}) = Cardinality(todo) - 1
    BY <1>1, FS_RemoveElement
<1>5. \A f \in todo : todo \ {f} \in SUBSET Files
    BY DEF TypeOK
<1>6. Cardinality(todo) \in Nat
    BY <1>1, FS_CardinalityType
<1>7. QED
    BY <1>2, <1>3, <1>4, <1>6

CommandsAdvance ==
    [][pc # "idle" => UNCHANGED handlerVars \/ CommandLeft' < CommandLeft]_vars

LEMMA CommandType ==
    ASSUME IsFiniteSet(Files), TypeOK
    PROVE  CommandLeft \in 0 .. 10 + Cardinality(Files)
<1>1. /\ Cardinality(Files) \in Nat /\ Cardinality(todo) \in Nat
      /\ Cardinality(todo) <= Cardinality(Files)
    BY TodoShrinks DEF TypeOK
<1>2. pc \in HandlerSteps
    BY DEF TypeOK
<1>3. CommandLeft \in {0, 1, 2, 3, 4, 5, 6, 7 + Cardinality(todo), 8 + Cardinality(Files),
                       9 + Cardinality(Files), 10 + Cardinality(Files)}
    BY <1>2 DEF CommandLeft, HandlerSteps
<1>4. QED
    BY <1>1, <1>3

LEMMA CommandStep ==
    ASSUME IsFiniteSet(Files), TypeOK, TypeOK', [Next]_vars, pc # "idle"
    PROVE  UNCHANGED handlerVars \/ CommandLeft' < CommandLeft
<1>1. /\ Cardinality(Files) \in Nat
      /\ Cardinality(todo) \in Nat /\ Cardinality(todo) <= Cardinality(Files)
      /\ Cardinality(todo') \in Nat /\ Cardinality(todo') <= Cardinality(Files)
      /\ \A f \in todo : Cardinality(todo \ {f}) < Cardinality(todo)
    BY TodoShrinks DEF TypeOK
<1>2. CASE pc' = "idle"
    <2>1. CommandLeft' = 0
        BY <1>2 DEF CommandLeft
    <2>2. CommandLeft > 0
        BY <1>1 DEF CommandLeft, TypeOK, HandlerSteps
    <2>3. QED
        BY <2>1, <2>2
<1>3. CASE \E f \in Files : CopyFile(f) \/ UndoFile(f)
    <2>1. PICK f \in todo : pc \in {"copy", "undo"} /\ pc' = pc /\ todo' = todo \ {f}
        BY <1>3 DEF CopyFile, UndoFile
    <2>2. Cardinality(todo') < Cardinality(todo)
        BY <1>1, <2>1
    <2>3. QED
        BY <1>1, <2>1, <2>2 DEF CommandLeft
<1>4. CASE HandlerStep /\ pc' # "idle" /\ ~(\E f \in Files : CopyFile(f) \/ UndoFile(f))
    <2>1. \/ pc = "asked" /\ pc' \in {"publish", "reject"}
          \/ pc = "publish" /\ pc' \in {"stage", "push"}
          \/ pc = "reject" /\ pc' = "undo"
          \/ pc = "stage" /\ pc' = "copy"
          \/ pc = "copy" /\ pc' = "commit"
          \/ pc = "commit" /\ pc' = "record"
          \/ pc \in {"stage", "copy", "commit"} /\ pc' = "rollback"
          \/ pc = "rollback" /\ pc' = "restore"
          \/ pc = "record" /\ pc' = "push"
          \/ pc = "push" /\ pc' = "fetch"
          \/ pc = "fetch" /\ pc' = "pushed"
          \/ pc = "pushed" /\ pc' = "approve"
        BY <1>4
           DEF HandlerStep, Lock, RetryPush, BeginPublish, RefusePublish, CheckStage,
               AddProject, Commit, StageFails, ResetHard, RestoreBackup, RollbackFails,
               RecordCommit, Push, PushFails, Verify, VerifyFails, FetchFails, MarkPushed,
               MarkApproved, BeginReject, RefuseReject, UndoFails, MarkRejected, Release
    <2>2. QED
        BY <1>1, <2>1 DEF CommandLeft
<1>5. CASE ~HandlerStep /\ pc' # "idle"
    BY <1>5
       DEF Next, UserStep, TaskStep, Environment, vars, CreateTask, StartTask, CodexEdit,
           TaskSucceeds, TaskNotified, TaskFails, Ask, Crash, AskFails, Release,
           ForeignPush, OperatorPull, OperatorEdit
<1>6. QED
    BY <1>2, <1>3, <1>4, <1>5

\* Every step of a command brings it nearer to its end, at most ten steps and one
\* for each path, and nothing else that happens sends it back; and TASK_LOCK is
\* held only by a command under way or by an execution that gives it back.  With the
\* fairness of the event loop that is WorkEnds (approve_command, reject_command,
\* _execute_codex_task).
THEOREM CommandEnds ==
    ASSUME IsFiniteSet(Files)
    PROVE  Spec => /\ CommandsAdvance
                   /\ [](CommandLeft \in 0 .. 10 + Cardinality(Files))
                   /\ [](lock # NoTask => \/ lock = Handler /\ pc \notin {"idle", "asked"}
                                          \/ lock \in Tasks /\ exec[lock] \in {"running", "notify"})
<1>1. IInv /\ IInv' /\ [Next]_vars =>
          [pc # "idle" => UNCHANGED handlerVars \/ CommandLeft' < CommandLeft]_vars
    BY CommandStep DEF IInv
<1>2. IInv => CommandLeft \in 0 .. 10 + Cardinality(Files)
    BY CommandType DEF IInv
<1>3. IInv => (lock # NoTask => \/ lock = Handler /\ pc \notin {"idle", "asked"}
                                \/ lock \in Tasks /\ exec[lock] \in {"running", "notify"})
    BY TaskAssumption DEF IInv, TypeOK, ControlInv, LockInv, Critical
<1>4. QED
    BY <1>1, <1>2, <1>3, Invariance, PTL DEF Spec, CommandsAdvance
===============================================================================
