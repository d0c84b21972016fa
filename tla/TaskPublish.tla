------------------------------ MODULE TaskPublish ------------------------------
(*****************************************************************************)
(* The TG-Codex agent from /task to /approve, /approve_full and /reject:      *)
(* execution of a task by Codex under TASK_LOCK, the Before and After         *)
(* snapshots, publication of the task to origin/main through the local clone  *)
(* /root/my-ops, retry of a failed push, roll back, rejection, and a crash of *)
(* the controller between any two steps.                                      *)
(*                                                                            *)
(* python-telegram-bot processes updates one at a time, so there is one       *)
(* command handler; executions are asyncio tasks of their own.                *)
(*****************************************************************************)
EXTENDS ProjectTree, Naturals, FiniteSets

CONSTANTS
    Tasks,
    NoTask,         \* no task, or nobody holds TASK_LOCK
    Handler,        \* the command handler as a holder of TASK_LOCK
    Foreign,        \* author of the commits that other clones push
    InitialTrees,   \* trees the deployment may start from
    MaxCommits,     \* bound: commits, of tasks and of other clones
    MaxFaults,      \* bound: crashes and failed roll backs
    MaxOutside      \* bound: commits pushed by other clones, edits by the operator

ASSUME TaskAssumption ==
    /\ NoTask \notin Tasks
    /\ Handler \notin Tasks
    /\ Foreign \notin Tasks
    /\ NoTask # Handler
    /\ InitialTrees \subseteq Trees
    /\ \A tree \in InitialTrees : \A f \in Ignored : tree[f] = Absent  \* not tracked
    /\ MaxCommits \in Nat
    /\ MaxFaults \in Nat
    /\ MaxOutside \in Nat

VARIABLES
    \* The Task JSON files and the snapshots of every task.
    status, approval, publishState, gitCommit, project, before, after,
    \* Coroutine execute_codex_task of every task.
    exec,
    \* TASK_LOCK and the running command handler: its step, command and task,
    \* the paths its thread works on and those it has not handled yet.
    lock, pc, command, target, plan, todo,
    \* /ops/apps, and create_git_publish_backup's copy of apps/<project>.
    live, backup,
    \* The clone /root/my-ops: main, index and working tree.
    head, index, work,
    \* main on GitHub.  The code reads origin/main only after a fetch in the same
    \* critical section, when the two are equal.
    remote,
    \* Bounds: commits, faults and outside events so far.
    commits, faults, outside

taskVars    == <<status, approval, publishState, gitCommit, project, before, after>>
handlerVars == <<pc, command, target, plan, todo, backup>>
repoVars    == <<head, index, work>>
boundVars   == <<commits, faults, outside>>
vars        == <<taskVars, exec, lock, handlerVars, live, repoVars, remote, boundVars>>

Commits == [by : Tasks \cup {Foreign}, n : Nat]

\* A branch: its tip, the commits reachable from it and the tree of the tip.
\* Two branches are equal iff their tips are.
Refs == [tip : Commits, anc : SUBSET Commits, tree : Trees]

RootCommit == [by |-> Foreign, n |-> 0]

Extend(ref, author, tree) ==
    LET c == [by |-> author, n |-> commits + 1]
    IN  [tip |-> c, anc |-> ref.anc \cup {c}, tree |-> tree]

\* git status --porcelain prints nothing.
Clean == index = head.tree /\ \A f \in Files \ Ignored : work[f] = head.tree[f]

Init ==
    /\ status = [t \in Tasks |-> "none"]
    /\ approval = [t \in Tasks |-> "pending"]
    /\ publishState = [t \in Tasks |-> "none"]
    /\ gitCommit = [t \in Tasks |-> RootCommit]
    /\ project \in [Tasks -> Projects]     \* what /task will name
    /\ before = [t \in Tasks |-> EmptyTree]
    /\ after = [t \in Tasks |-> EmptyTree]
    /\ exec = [t \in Tasks |-> "none"]
    /\ lock = NoTask
    /\ pc = "idle" /\ command = "none" /\ target = NoTask
    /\ plan = {} /\ todo = {} /\ backup = EmptyTree
    /\ live \in InitialTrees
    /\ head = [tip |-> RootCommit, anc |-> {RootCommit}, tree |-> live]
    /\ remote = head
    /\ index = live /\ work = live
    /\ commits = 0 /\ faults = 0 /\ outside = 0

-------------------------------------------------------------------------------
(* Execution of a task.                                                       *)

\* task_command: the JSON file is written, then the coroutine is scheduled; it
\* is not when the reply in between cannot be sent.
CreateTask(t) ==
    /\ pc = "idle" /\ status[t] = "none"
    /\ status' = [status EXCEPT ![t] = "pending"]
    /\ \/ exec' = [exec EXCEPT ![t] = "queued"]
       \/ UNCHANGED exec
    /\ UNCHANGED <<approval, publishState, gitCommit, project, before, after, lock,
                   handlerVars, live, repoVars, remote, boundVars>>

\* _execute_codex_task up to run_codex: Before snapshot and mark_running.
StartTask(t) ==
    /\ exec[t] = "queued" /\ lock = NoTask
    /\ lock' = t
    /\ exec' = [exec EXCEPT ![t] = "running"]
    /\ before' = [before EXCEPT ![t] = Snapshot(live, project[t])]
    /\ status' = [status EXCEPT ![t] = "running"]
    /\ UNCHANGED <<approval, publishState, gitCommit, project, after, handlerVars,
                   live, repoVars, remote, boundVars>>

\* Codex writes or deletes a file of its project.
CodexEdit(t) ==
    /\ exec[t] = "running"
    /\ \E f \in FilesOf(project[t]), c \in Entries : live' = [live EXCEPT ![f] = c]
    /\ UNCHANGED <<taskVars, exec, lock, handlerVars, repoVars, remote, boundVars>>

\* After snapshot and mark_success.  TASK_LOCK is kept for the notification.
TaskSucceeds(t) ==
    /\ exec[t] = "running"
    /\ exec' = [exec EXCEPT ![t] = "notify"]
    /\ after' = [after EXCEPT ![t] = Snapshot(live, project[t])]
    /\ status' = [status EXCEPT ![t] = "success"]
    /\ UNCHANGED <<approval, publishState, gitCommit, project, before, lock,
                   handlerVars, live, repoVars, remote, boundVars>>

TaskNotified(t) ==
    /\ exec[t] = "notify"
    /\ exec' = [exec EXCEPT ![t] = "none"]
    /\ lock' = NoTask
    /\ UNCHANGED <<taskVars, handlerVars, live, repoVars, remote, boundVars>>

\* The except branch: a snapshot, Codex, or a message to the user failed; the
\* last message may fail after mark_success.
TaskFails(t) ==
    /\ \/ exec[t] = "queued" /\ lock = NoTask
       \/ exec[t] \in {"running", "notify"}
    /\ exec' = [exec EXCEPT ![t] = "none"]
    /\ lock' = NoTask
    /\ status' = [status EXCEPT ![t] = "failed"]
    /\ UNCHANGED <<approval, publishState, gitCommit, project, before, after,
                   handlerVars, live, repoVars, remote, boundVars>>

-------------------------------------------------------------------------------
(* /approve, /approve_full and /reject: the checks made before TASK_LOCK.     *)

Decidable_OnlySuccess(t) == status[t] = "success"   \* mutant: the decision is forgotten
Decidable(t) == status[t] = "success" /\ approval[t] = "pending"

\* The handler has checked the task and awaits its first reply, then the lock.
Ask(c, t) ==
    /\ pc = "idle" /\ Decidable(t)
    /\ pc' = "asked" /\ command' = c /\ target' = t
    /\ UNCHANGED <<taskVars, exec, lock, plan, todo, backup, live, repoVars,
                   remote, boundVars>>

\* The handler's thread returns or raises: TASK_LOCK is released.
Release ==
    /\ lock' = NoTask
    /\ pc' = "idle" /\ command' = "none" /\ target' = NoTask
    /\ plan' = {} /\ todo' = {} /\ backup' = EmptyTree

\* The first reply cannot be sent: the handler ends before the lock.
AskFails ==
    /\ pc = "asked"
    /\ pc' = "idle" /\ command' = "none" /\ target' = NoTask
    /\ UNCHANGED <<taskVars, exec, lock, plan, todo, backup, live, repoVars, remote,
                   boundVars>>

Lock ==
    /\ pc = "asked" /\ lock = NoTask
    /\ lock' = Handler
    /\ pc' = IF command = "reject" THEN "reject" ELSE "publish"
    /\ UNCHANGED <<taskVars, exec, command, target, plan, todo, backup, live,
                   repoVars, remote, boundVars>>

-------------------------------------------------------------------------------
(* publish_task_to_git.                                                       *)

SetPublish(t, s) == publishState' = [publishState EXCEPT ![t] = s]

\* publish_full_task_to_git computes its plan before anything else and gives up
\* when there is nothing to publish.
FullPlanReady(t) ==
    LET tree == Tracked(index, head.tree)
    IN  /\ ProjectExists(work, project[t])
        /\ TrackedReadable(index, head.tree, project[t])
        /\ FullPlan(tree, project[t], after[t]) # {}

MayPublish_CheckedBefore(t) ==    \* mutant: the check before TASK_LOCK must do
    command = "approve_full" => FullPlanReady(t)
MayPublish(t) ==
    /\ Decidable(t)
    /\ command = "approve_full" => FullPlanReady(t)

\* The commit of an earlier publication is recorded and its push failed: only
\* the push is tried again, if main still is that commit.
CanRetry(t) ==
    /\ publishState[t] = "push_failed"
    /\ gitCommit[t] = head.tip
    /\ head.tip.by = t

RetryPush ==
    /\ pc = "publish" /\ MayPublish(target) /\ CanRetry(target)
    /\ pc' = "push"
    /\ UNCHANGED <<taskVars, exec, lock, command, target, plan, todo, backup, live,
                   repoVars, remote, boundVars>>

\* validate_git_publish_state(fetch=True): HEAD must equal origin/main.
UpToDate_NotBehind == remote.tip \in head.anc       \* mutant: a HEAD ahead is let by
UpToDate == head.tip = remote.tip

\* That check, the backup of the project, mark staging.
BeginPublish ==
    /\ pc = "publish" /\ MayPublish(target)
    /\ publishState[target] # "push_failed"
    /\ UpToDate
    /\ backup' = Snapshot(work, project[target])
    /\ plan' = IF command = "approve_full"
               THEN FullPlan(Tracked(index, head.tree), project[target], after[target])
               ELSE {}
    /\ SetPublish(target, "staging")
    /\ pc' = "stage"
    /\ UNCHANGED <<status, approval, gitCommit, project, before, after, exec, lock,
                   command, target, todo, live, repoVars, remote, boundVars>>

\* One of the checks above refuses, or git fetch fails.
RefusePublish ==
    /\ pc = "publish"
    /\ CanRetry(target) => ~MayPublish(target)
    /\ Release
    /\ UNCHANGED <<taskVars, exec, live, repoVars, remote, boundVars>>

\* stage_task_for_approval up to the first change of the working tree.
StagePlan(t) ==
    IF command = "approve_full" THEN plan
    ELSE ApprovalPlan(work, project[t], before[t], after[t])

StageAllowed(t, p) ==
    /\ PlanAllowed(p)
    /\ SecretFree(p, after[t])
    /\ LiveMatches(live, p, after[t])
    /\ Clean

CheckStage ==
    /\ pc = "stage"
    /\ LET p == StagePlan(target)
       IN  /\ StageAllowed(target, p)
           /\ plan' = p /\ todo' = p
    /\ pc' = "copy"
    /\ UNCHANGED <<taskVars, exec, lock, command, target, backup, live, repoVars,
                   remote, boundVars>>

\* One path of the plan is copied out of the After snapshot, or deleted.
CopyFile_OutOfBefore(f) ==    \* mutant: the snapshots are swapped
    /\ pc = "copy" /\ f \in todo
    /\ work' = [work EXCEPT ![f] = before[target][f]]
    /\ todo' = todo \ {f}
    /\ UNCHANGED <<taskVars, exec, lock, pc, command, target, plan, backup, live,
                   head, index, remote, boundVars>>
CopyFile(f) ==
    /\ pc = "copy" /\ f \in todo
    /\ work' = [work EXCEPT ![f] = after[target][f]]
    /\ todo' = todo \ {f}
    /\ UNCHANGED <<taskVars, exec, lock, pc, command, target, plan, backup, live,
                   head, index, remote, boundVars>>

\* git add --all apps/<project>, nothing when the plan is empty.
AddProject ==
    /\ pc = "copy" /\ todo = {}
    /\ index' = IF plan = {} THEN index
                ELSE [f \in Files |-> IF f \in FilesOf(project[target]) \ Ignored
                                      THEN work[f] ELSE index[f]]
    /\ pc' = "commit"
    /\ UNCHANGED <<taskVars, exec, lock, command, target, plan, todo, backup, live,
                   head, work, remote, boundVars>>

\* validate_staged_scope: only planned paths are staged, every planned path is
\* unless Git ignores it, and there is something to commit.
ScopeValid ==
    LET staged == Differs(index, head.tree)
    IN  /\ staged \subseteq plan
        /\ plan \ staged \subseteq Ignored
        /\ staged # {}

\* git commit.
Commit ==
    /\ pc = "commit" /\ ScopeValid /\ commits < MaxCommits
    /\ head' = Extend(head, target, index)
    /\ commits' = commits + 1
    /\ pc' = "record"
    /\ UNCHANGED <<taskVars, exec, lock, command, target, plan, todo, backup, live,
                   index, work, remote, faults, outside>>

\* Anything between staging and the commit raises: one of the checks, a copy, a
\* Git command.
StageFails ==
    /\ pc \in {"stage", "copy", "commit"}
    /\ pc' = "rollback" /\ todo' = {}
    /\ UNCHANGED <<taskVars, exec, lock, command, target, plan, backup, live,
                   repoVars, remote, boundVars>>

\* git reset --hard baseline_head: every path HEAD or the index knows gets
\* HEAD's content, the other paths of the working tree stay.
ResetHard ==
    /\ pc = "rollback"
    /\ work' = [f \in Files |-> IF head.tree[f] # Absent \/ index[f] # Absent
                                THEN head.tree[f] ELSE work[f]]
    /\ index' = head.tree
    /\ pc' = "restore"
    /\ UNCHANGED <<taskVars, exec, lock, command, target, plan, todo, backup, live,
                   head, remote, boundVars>>

\* restore_git_publish_backup and git reset --mixed, then clear_publish_state.
RestoreBackup_OnlyMixed ==    \* mutant: git reset alone
    /\ pc = "restore"
    /\ index' = head.tree
    /\ SetPublish(target, "none")
    /\ Release
    /\ UNCHANGED <<status, approval, gitCommit, project, before, after, exec, live,
                   head, work, remote, boundVars>>
RestoreBackup ==
    /\ pc = "restore"
    /\ work' = Overlay(work, project[target], backup)
    /\ index' = head.tree
    /\ SetPublish(target, "none")
    /\ Release
    /\ UNCHANGED <<status, approval, gitCommit, project, before, after, exec, live,
                   head, remote, boundVars>>

\* A step of the roll back raises, possibly after the project was removed; the
\* publish state is cleared nevertheless.
RollbackFails ==
    /\ pc \in {"rollback", "restore"} /\ faults < MaxFaults
    /\ faults' = faults + 1
    /\ \/ UNCHANGED work
       \/ pc = "restore" /\ work' = Overlay(work, project[target], EmptyTree)
    /\ SetPublish(target, "none")
    /\ Release
    /\ UNCHANGED <<status, approval, gitCommit, project, before, after, exec, live,
                   head, index, remote, commits, outside>>

\* mark_publish_state("committed") with the sha of HEAD.
RecordCommit ==
    /\ pc = "record"
    /\ gitCommit' = [gitCommit EXCEPT ![target] = head.tip]
    /\ SetPublish(target, "committed")
    /\ pc' = "push"
    /\ UNCHANGED <<status, approval, project, before, after, exec, lock, command,
                   target, plan, todo, backup, live, repoVars, remote, boundVars>>

FastForward == remote.tip \in head.anc

\* git push origin main.
Push ==
    /\ pc = "push" /\ FastForward
    /\ remote' = head
    /\ pc' = "fetch"
    /\ UNCHANGED <<taskVars, exec, lock, command, target, plan, todo, backup, live,
                   repoVars, boundVars>>

\* git push exits with an error; GitHub may have taken the commit before the
\* connection broke.
PushFails_Ignored ==    \* mutant: the exit status of git push is not looked at
    /\ pc = "push"
    /\ \/ FastForward /\ remote' = head
       \/ UNCHANGED remote
    /\ pc' = "pushed"
    /\ UNCHANGED <<taskVars, exec, lock, command, target, plan, todo, backup, live,
                   repoVars, boundVars>>
PushFails ==
    /\ pc = "push"
    /\ \/ FastForward /\ remote' = head
       \/ UNCHANGED remote
    /\ SetPublish(target, "push_failed")
    /\ Release
    /\ UNCHANGED <<status, approval, gitCommit, project, before, after, exec, live,
                   repoVars, boundVars>>

\* git fetch, and origin/main is the recorded commit.
Verify ==
    /\ pc = "fetch"
    /\ remote.tip = gitCommit[target]
    /\ pc' = "pushed"
    /\ UNCHANGED <<taskVars, exec, lock, command, target, plan, todo, backup, live,
                   repoVars, remote, boundVars>>

\* origin/main is another commit: push_failed, which a retry already is.
VerifyFails_OwnState ==    \* mutant: a state mark_publish_state does not know
    /\ pc = "fetch"
    /\ remote.tip # gitCommit[target]
    /\ SetPublish(target, "diverged")
    /\ Release
    /\ UNCHANGED <<status, approval, gitCommit, project, before, after, exec, live,
                   repoVars, remote, boundVars>>
VerifyFails ==
    /\ pc = "fetch"
    /\ remote.tip # gitCommit[target]
    /\ SetPublish(target, "push_failed")
    /\ Release
    /\ UNCHANGED <<status, approval, gitCommit, project, before, after, exec, live,
                   repoVars, remote, boundVars>>

\* git fetch fails: nothing catches the error, the publish state stays.
FetchFails_KeepsLock ==    \* mutant: the error leaves TASK_LOCK taken
    /\ pc = "fetch"
    /\ pc' = "idle" /\ command' = "none" /\ target' = NoTask
    /\ plan' = {} /\ todo' = {} /\ backup' = EmptyTree
    /\ UNCHANGED <<taskVars, exec, lock, live, repoVars, remote, boundVars>>
FetchFails ==
    /\ pc = "fetch"
    /\ Release
    /\ UNCHANGED <<taskVars, exec, live, repoVars, remote, boundVars>>

MarkPushed ==
    /\ pc = "pushed"
    /\ SetPublish(target, "pushed")
    /\ pc' = "approve"
    /\ UNCHANGED <<status, approval, gitCommit, project, before, after, exec, lock,
                   command, target, plan, todo, backup, live, repoVars, remote,
                   boundVars>>

MarkApproved ==
    /\ pc = "approve"
    /\ approval' = [approval EXCEPT ![target] = "approved"]
    /\ Release
    /\ UNCHANGED <<status, publishState, gitCommit, project, before, after, exec,
                   live, repoVars, remote, boundVars>>

-------------------------------------------------------------------------------
(* reject_task_changes.                                                       *)

TaskManifest(t) == Manifest(before[t], after[t])

MayReject(t) ==
    /\ Decidable(t)
    /\ LiveMatches(live, TaskManifest(t), after[t])

BeginReject ==
    /\ pc = "reject" /\ MayReject(target)
    /\ todo' = TaskManifest(target)
    /\ pc' = "undo"
    /\ UNCHANGED <<taskVars, exec, lock, command, target, plan, backup, live,
                   repoVars, remote, boundVars>>

RefuseReject ==
    /\ pc = "reject" /\ ~MayReject(target)
    /\ Release
    /\ UNCHANGED <<taskVars, exec, live, repoVars, remote, boundVars>>

\* One path is unlinked, or copied back out of the Before snapshot.
UndoFile(f) ==
    /\ pc = "undo" /\ f \in todo
    /\ live' = [live EXCEPT ![f] = before[target][f]]
    /\ todo' = todo \ {f}
    /\ UNCHANGED <<taskVars, exec, lock, pc, command, target, plan, backup, repoVars,
                   remote, boundVars>>

\* A copy or an rmdir raises with some paths undone; the task stays pending.
UndoFails_Ignored ==    \* mutant: the task is rejected in spite of the error
    /\ pc = "undo"
    /\ approval' = [approval EXCEPT ![target] = "rejected"]
    /\ Release
    /\ UNCHANGED <<status, publishState, gitCommit, project, before, after, exec,
                   live, repoVars, remote, boundVars>>
UndoFails ==
    /\ pc = "undo"
    /\ Release
    /\ UNCHANGED <<taskVars, exec, live, repoVars, remote, boundVars>>

MarkRejected ==
    /\ pc = "undo" /\ todo = {}
    /\ approval' = [approval EXCEPT ![target] = "rejected"]
    /\ Release
    /\ UNCHANGED <<status, publishState, gitCommit, project, before, after, exec,
                   live, repoVars, remote, boundVars>>

-------------------------------------------------------------------------------
(* The environment.                                                           *)

\* The controller dies and systemd restarts it: coroutines, the lock and the
\* local variables of the handler are lost, and no start-up code repairs
\* anything.  Codex dies with the service's control group.
Crash ==
    /\ faults < MaxFaults
    /\ pc # "idle" \/ \E t \in Tasks : exec[t] # "none"
    /\ faults' = faults + 1
    /\ exec' = [t \in Tasks |-> "none"]
    /\ Release
    /\ UNCHANGED <<taskVars, live, repoVars, remote, commits, outside>>

\* Another clone pushes a commit.
ForeignPush ==
    /\ outside < MaxOutside /\ commits < MaxCommits
    /\ outside' = outside + 1
    /\ commits' = commits + 1
    /\ \E f \in Files \ Ignored, c \in Entries :
          /\ c # remote.tree[f]
          /\ remote' = Extend(remote, Foreign, [remote.tree EXCEPT ![f] = c])
    /\ UNCHANGED <<taskVars, exec, lock, handlerVars, live, repoVars, faults>>

\* The operator runs git pull --ff-only in the idle, clean clone.
OperatorPull ==
    /\ lock # Handler /\ Clean
    /\ head.tip \in remote.anc /\ head.tip # remote.tip
    /\ head' = remote
    /\ index' = remote.tree
    /\ work' = [f \in Files |-> IF remote.tree[f] # Absent \/ head.tree[f] # Absent
                                THEN remote.tree[f] ELSE work[f]]
    /\ UNCHANGED <<taskVars, exec, lock, handlerVars, live, remote, boundVars>>

\* The operator edits a deployed file while neither a command nor Codex works.
\* While Codex runs, an edit is one of CodexEdit.
OperatorEdit ==
    /\ outside < MaxOutside /\ lock = NoTask
    /\ outside' = outside + 1
    /\ \E f \in Files, c \in Entries : c # live[f] /\ live' = [live EXCEPT ![f] = c]
    /\ UNCHANGED <<taskVars, exec, lock, handlerVars, repoVars, remote, commits,
                   faults>>

-------------------------------------------------------------------------------
HandlerStep ==
    \/ Lock
    \/ RetryPush \/ BeginPublish \/ RefusePublish
    \/ CheckStage \/ (\E f \in Files : CopyFile(f)) \/ AddProject \/ Commit
    \/ StageFails \/ ResetHard \/ RestoreBackup \/ RollbackFails
    \/ RecordCommit \/ Push \/ PushFails \/ Verify \/ VerifyFails \/ FetchFails
    \/ MarkPushed \/ MarkApproved
    \/ BeginReject \/ RefuseReject \/ (\E f \in Files : UndoFile(f)) \/ UndoFails
    \/ MarkRejected

TaskStep(t) ==
    StartTask(t) \/ CodexEdit(t) \/ TaskSucceeds(t) \/ TaskNotified(t) \/ TaskFails(t)

UserStep ==
    \E t \in Tasks :
        CreateTask(t) \/ \E c \in {"approve", "approve_full", "reject"} : Ask(c, t)

Environment == Crash \/ AskFails \/ ForeignPush \/ OperatorPull \/ OperatorEdit

Next == HandlerStep \/ UserStep \/ Environment \/ \E t \in Tasks : TaskStep(t)

Spec == Init /\ [][Next]_vars

\* The event loop runs every ready coroutine and thread: a step that stays
\* enabled is taken, a Codex execution ends by its timeout, and TASK_LOCK is
\* handed to its waiters in FIFO order, so that nobody waits for ever.  Nothing
\* is assumed of the user, of crashes, of GitHub or of the delivery of replies.
EndTask(t) == TaskSucceeds(t) \/ TaskNotified(t) \/ TaskFails(t)

Fairness ==
    /\ WF_vars(HandlerStep) /\ SF_vars(Lock)
    /\ \A t \in Tasks : SF_vars(StartTask(t)) /\ WF_vars(EndTask(t))

FairSpec == Spec /\ Fairness

-------------------------------------------------------------------------------
(* Properties.                                                                *)

HandlerSteps == {"idle", "asked", "publish", "stage", "copy", "commit", "rollback",
                 "restore", "record", "push", "fetch", "pushed", "approve",
                 "reject", "undo"}

\* Every variable has its type: the task files, the handler, the trees and the
\* branches hold only values the code can write.
TypeOK ==
    /\ status \in [Tasks -> {"none", "pending", "running", "success", "failed"}]
    /\ approval \in [Tasks -> {"pending", "approved", "rejected"}]
    /\ publishState \in
          [Tasks -> {"none", "staging", "committed", "push_failed", "pushed"}]
    /\ gitCommit \in [Tasks -> Commits]
    /\ project \in [Tasks -> Projects]
    /\ before \in [Tasks -> Trees]
    /\ after \in [Tasks -> Trees]
    /\ exec \in [Tasks -> {"none", "queued", "running", "notify"}]
    /\ lock \in Tasks \cup {NoTask, Handler}
    /\ pc \in HandlerSteps
    /\ command \in {"none", "approve", "approve_full", "reject"}
    /\ target \in Tasks \cup {NoTask}
    /\ plan \in SUBSET Files /\ todo \in SUBSET Files
    /\ live \in Trees /\ backup \in Trees /\ index \in Trees /\ work \in Trees
    /\ head \in Refs /\ remote \in Refs
    /\ commits \in Nat /\ faults \in Nat /\ outside \in Nat

\* An approved task has its recorded commit, and that commit is its own, on
\* origin/main, whatever pushes, fetches and crashes came in between
\* (publish_task_to_git, "8. mark_approved last").
ApprovedIsPublished ==
    \A t \in Tasks : approval[t] = "approved" =>
        gitCommit[t] \in remote.anc /\ gitCommit[t].by = t

\* Only tasks that ended in success are ever committed, although the notification
\* may turn a success into a failure after /approve has looked at it.
CommittedIsSuccess ==
    \A c \in head.anc \cup remote.anc : c.by \in Tasks => status[c.by] = "success"

\* main never is more than one commit ahead of GitHub, so that a push publishes
\* the commit of the task being approved and no other.
OneUnpushedCommit == head.anc \ {head.tip} \subseteq remote.anc

\* Outside a critical section the clone is clean, unless a crash or a failed roll
\* back came before: a failed publication leaves nothing staged and nothing
\* copied behind.
CleanWhenIdle == faults = 0 /\ lock # Handler => Clean

\* What a publication of t owes its user: the changes of the task, or all of its
\* project, but for what must not or cannot be committed.
Owed(t) ==
    (IF command = "approve_full" THEN FilesOf(project[t]) ELSE TaskManifest(t))
        \ (Blocked \cup Ignored)

\* A commit of a task is the task, no more and no less: it changes only allowed
\* paths of the task's own project, each to the content the After snapshot holds
\* and none of them a secret; nothing that a crash or another task left in the
\* clone is carried along; and no path that had to be published is missing
\* (stage_task_for_approval, validate_staged_scope).
CommitIsTheTask ==
    [][head' # head /\ head'.tip.by \in Tasks =>
          LET t == head'.tip.by
          IN  /\ \A f \in Differs(head.tree, head'.tree) :
                    /\ f \in FilesOf(project[t]) \ Blocked
                    /\ head'.tree[f] = after[t][f]
                    /\ head'.tree[f] \notin Secrets
              /\ \A f \in Owed(t) : head'.tree[f] = after[t][f]]_vars

\* When a task becomes rejected every path it changed is back at its Before
\* content, although the paths were undone one by one and earlier attempts may
\* have failed half way (reject_task_changes).
RejectedIsUndone ==
    [][\A t \in Tasks : approval'[t] # approval[t] /\ approval'[t] = "rejected" =>
          LiveMatches(live, TaskManifest(t), before[t])]_vars

Published == {t \in Tasks : \E c \in remote.anc : c.by = t}

\* The review promise: one decision per task, approved only when published.
Review == INSTANCE TaskReview WITH decision <- approval, published <- Published

ReviewSpec == Review!Spec

\* Every accepted command ends and gives TASK_LOCK back, and so does every scheduled
\* execution, although all of them wait for that lock.
WorkEnds ==
    /\ pc # "idle" ~> pc = "idle"
    /\ \A t \in Tasks : exec[t] = "queued" ~> exec[t] = "none"

\* "The Task must record the commit SHA first, only then can a later push be
\* resumed safely" (publish_task_to_git): a pending task whose recorded commit
\* is main's can have its push resumed by /approve.
RecordedCommitResumable ==
    pc = "idle" => \A t \in Tasks :
        Decidable(t) /\ gitCommit[t] = head.tip /\ gitCommit[t].by = t => CanRetry(t)

\* The reply of /reject says that no Git commit and no push was made for the
\* task.
RejectedNeverCommitted ==
    \A t \in Tasks : approval[t] = "rejected" =>
        \A c \in head.anc \cup remote.anc : c.by # t
================================================================================
