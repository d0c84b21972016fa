----------------------------- MODULE AccountSwitch -----------------------------
(*****************************************************************************)
(* /codex_login of the TG-Codex agent: the credential transaction of           *)
(* account_core.Engine under its kernel lock, the bridge processes that run    *)
(* it, the request() calls of the controller with their time limit, and the    *)
(* admission of logins and tasks.                                              *)
(*                                                                             *)
(* A credential file (an inode) is a number, 0 means that there is no file.    *)
(* Operations on the names in CODEX_HOME reach the disk in the order in which  *)
(* they are made: after a power loss a prefix of those since the last fsync of *)
(* the directory is there.                                                     *)
(*****************************************************************************)
EXTENDS Naturals, FiniteSets

CONSTANTS
    Tasks,       \* executions of tasks
    MaxCreds     \* bound: credential files ever written

ASSUME SwitchAssumption == IsFiniteSet(Tasks) /\ MaxCreds \in Nat \ {0}

Absent == 0
Creds  == 0 .. MaxCreds

\* The names of the transaction in CODEX_HOME: auth.json, .tg-auth-backup,
\* .tg-auth-restore and the content of .tg-login-pending.
Dirs == [auth : Creds, backup : Creds, restore : Creds,
         journal : {"none", "existing", "absent"}]

VARIABLES
    \* CODEX_HOME as processes see it, and what a power loss may leave of it.
    dir, disk,
    \* auth.json of the login's staging directory; credentials written so far.
    stage, issued,
    \* The bridge process that holds operation.lock: its action and step, where
    \* recover() returns to, and whether request() still reads its output.
    op, pc, back, heard,
    \* The CLI processes that were started with the lock's descriptor and live.
    cli,
    \* class Admission.
    login, tasks,
    \* The controller's coroutines: login_flow and execute_codex_task.
    loginPc, exec,
    \* What the user was told about the last login, the account it claims, and
    \* the account when the login began.
    told, claim, old

dirVars    == <<dir, disk>>
bridgeVars == <<op, pc, back, heard, cli>>
clientVars == <<login, tasks, loginPc, exec, told, claim, old>>
vars       == <<dirVars, stage, issued, bridgeVars, clientVars>>

\* The account that the next operation works with, interrupted switches undone.
Account(d) == CASE d.journal = "none"     -> d.auth
                [] d.journal = "existing" -> d.backup
                [] d.journal = "absent"   -> Absent

Init ==
    /\ \E a \in {0, 1} :
          dir = [auth |-> a, backup |-> Absent, restore |-> Absent, journal |-> "none"]
    /\ disk = {dir}
    /\ stage = Absent /\ issued = 1
    /\ op = "none" /\ pc = "out" /\ back = "enter" /\ heard = FALSE /\ cli = {}
    /\ login = FALSE /\ tasks = 0
    /\ loginPc = "none" /\ exec = [t \in Tasks |-> "none"]
    /\ told = "nothing" /\ claim = dir.auth /\ old = dir.auth

-------------------------------------------------------------------------------
(* Names in CODEX_HOME.                                                       *)

SetDir(d) ==
    /\ dir' = d
    /\ disk' = disk \cup {d}

\* Engine.sync.
Sync ==
    /\ disk' = {dir}
    /\ UNCHANGED dir

Go(from, to) ==
    /\ pc = from
    /\ pc' = to
    /\ UNCHANGED <<op, back, heard, cli>>

-------------------------------------------------------------------------------
(* Admission and the controller's side.                                       *)

EndRequest(outcome) ==
    /\ loginPc' = IF heard /\ op = "login" THEN outcome ELSE loginPc
    /\ exec' = [t \in Tasks |-> IF heard /\ op = "task" /\ exec[t] = "running"
                                THEN "ended" ELSE exec[t]]
    /\ UNCHANGED <<login, tasks, told, claim, old>>

\* task_command: task_enter, then the reply, then the coroutine.
TaskEnter(t) ==
    /\ exec[t] = "none" /\ ~login
    /\ tasks' = tasks + 1
    /\ exec' = [exec EXCEPT ![t] = "entered"]
    /\ UNCHANGED <<dirVars, stage, issued, bridgeVars, login, loginPc, told, claim, old>>

TaskScheduled_Exits(t) ==    \* mutant: finally gives the slot back in any case
    /\ exec[t] = "entered"
    /\ exec' = [exec EXCEPT ![t] = "queued"]
    /\ tasks' = tasks - 1
    /\ UNCHANGED <<dirVars, stage, issued, bridgeVars, login, loginPc, told, claim, old>>
TaskScheduled(t) ==
    /\ exec[t] = "entered"
    /\ exec' = [exec EXCEPT ![t] = "queued"]
    /\ UNCHANGED <<dirVars, stage, issued, bridgeVars, login, tasks, loginPc, told,
                   claim, old>>

\* The end of the coroutine, or of a handler that could not schedule it.
TaskExit(t) ==
    /\ exec[t] \in {"entered", "ended"}
    /\ exec' = [exec EXCEPT ![t] = "none"]
    /\ tasks' = tasks - 1
    /\ UNCHANGED <<dirVars, stage, issued, bridgeVars, login, loginPc, told, claim, old>>

\* codex_login_command: login_enter.
LoginEnter ==
    /\ ~login /\ tasks = 0
    /\ login' = TRUE
    /\ loginPc' = "request"
    /\ told' = "nothing" /\ old' = Account(dir)
    /\ UNCHANGED <<dirVars, stage, issued, bridgeVars, tasks, exec, claim>>

\* The bridge has printed the device code and gone on.
CodeSteps == {"await", "verify", "backup", "journal", "journaled", "install",
              "installed", "confirm", "commit", "dropped", "finish"}
Printed   == op = "login" /\ (pc \in CodeSteps \/ back = "abort")

\* The code cannot be delivered, or not within 20 seconds: request() kills runuser
\* and is done, and the bridge lives on.  Nothing else ends request() before its
\* bridge: the timer kills runuser as well, but the bridge still holds the pipe
\* that request() reads to its end.
GiveUp ==
    /\ heard /\ Printed
    /\ EndRequest("failed")
    /\ heard' = FALSE
    /\ UNCHANGED <<dirVars, stage, issued, op, pc, back, cli>>

\* login_flow: on_success and the reply; either may raise.
LoginReplies ==
    /\ loginPc = "done"
    /\ told' = "switched" /\ claim' = dir.auth
    /\ login' = FALSE /\ loginPc' = "none"
    /\ UNCHANGED <<dirVars, stage, issued, bridgeVars, tasks, exec, old>>

LoginReplyFails ==
    /\ loginPc = "done"
    /\ loginPc' = "failed"
    /\ UNCHANGED <<dirVars, stage, issued, bridgeVars, login, tasks, exec, told, claim,
                   old>>

\* login_flow's except branch; this reply may fail as well.
LoginApologises_KeepsLogin ==    \* mutant: login_exit only after a success
    /\ loginPc = "failed"
    /\ \/ told' = "kept" /\ claim' = old
       \/ UNCHANGED <<told, claim>>
    /\ loginPc' = "none"
    /\ UNCHANGED <<dirVars, stage, issued, bridgeVars, login, tasks, exec, old>>
LoginApologises ==
    /\ loginPc = "failed"
    /\ \/ told' = "kept" /\ claim' = old
       \/ UNCHANGED <<told, claim>>
    /\ login' = FALSE /\ loginPc' = "none"
    /\ UNCHANGED <<dirVars, stage, issued, bridgeVars, tasks, exec, old>>

-------------------------------------------------------------------------------
(* Engine.lock: flock on operation.lock, held by the bridge and by every CLI    *)
(* process that inherited its descriptor.                                      *)

LockFree_IgnoresCli == op = "none"    \* mutant: the CLI does not inherit the lock
LockFree == op = "none" /\ cli = {}

Enter(action) ==
    /\ LockFree
    /\ op' = action /\ pc' = "recover" /\ back' = "enter" /\ heard' = TRUE
    /\ UNCHANGED <<dirVars, stage, issued, cli>>

LoginLocks ==
    /\ loginPc = "request"
    /\ Enter("login")
    /\ loginPc' = "waiting"
    /\ UNCHANGED <<login, tasks, exec, told, claim, old>>

\* One execution at a time, because of TASK_LOCK.
TaskLocks(t) ==
    /\ exec[t] = "queued" /\ \A u \in Tasks : exec[u] # "running"
    /\ Enter("task")
    /\ exec' = [exec EXCEPT ![t] = "running"]
    /\ UNCHANGED <<login, tasks, loginPc, told, claim, old>>

\* /usage, the login status and the quota monitor.
QueryLocks ==
    /\ Enter("query")
    /\ UNCHANGED clientVars

\* Busy: at once for a login, after five seconds for a task.  The bridge may
\* also fail before it tries the lock.
LoginRefused ==
    /\ loginPc = "request"
    /\ loginPc' = "failed"
    /\ UNCHANGED <<dirVars, stage, issued, bridgeVars, login, tasks, exec, told, claim,
                   old>>

TaskRefused_ExitsTwice(t) ==    \* mutant: the error gives the slot back, finally does again
    /\ exec[t] = "queued"
    /\ exec' = [exec EXCEPT ![t] = "ended"]
    /\ tasks' = tasks - 1
    /\ UNCHANGED <<dirVars, stage, issued, bridgeVars, login, loginPc, told, claim, old>>
TaskRefused(t) ==
    /\ exec[t] = "queued"
    /\ exec' = [exec EXCEPT ![t] = "ended"]
    /\ UNCHANGED <<dirVars, stage, issued, bridgeVars, login, tasks, loginPc, told,
                   claim, old>>

\* What the bridge starts: a device login, or codex exec.
Process == IF op = "login" THEN "device" ELSE "exec"

\* The bridge kills its process and exits, and its lock goes with it.
Exit(outcome) ==
    /\ op' = "none" /\ pc' = "out" /\ back' = "enter" /\ heard' = FALSE
    /\ cli' = cli \ {Process}
    /\ EndRequest(outcome)

-------------------------------------------------------------------------------
(* Engine.recover, at the head of every operation and in commit's handler.     *)

NothingPending ==
    /\ dir.journal = "none"
    /\ Go("recover", "clean")
    /\ UNCHANGED <<dirVars, stage, issued, clientVars>>

\* .tg-auth-restore becomes a second name of the backup.
LinkRestore ==
    /\ dir.journal = "existing" /\ dir.backup # Absent
    /\ Go("recover", "replace")
    /\ SetDir([dir EXCEPT !.restore = dir.backup])
    /\ UNCHANGED <<stage, issued, clientVars>>

\* rename(2) does nothing when both names are the same file.
ReplaceAuth ==
    /\ Go("replace", "restored")
    /\ SetDir(IF dir.restore = dir.auth THEN dir
              ELSE [dir EXCEPT !.auth = dir.restore, !.restore = Absent])
    /\ UNCHANGED <<stage, issued, clientVars>>

RemoveAuth ==
    /\ dir.journal = "absent"
    /\ Go("recover", "restored")
    /\ SetDir([dir EXCEPT !.auth = Absent])
    /\ UNCHANGED <<stage, issued, clientVars>>

SyncRestored ==
    /\ Go("restored", "settle")
    /\ Sync
    /\ UNCHANGED <<stage, issued, clientVars>>

DropJournal ==
    /\ Go("settle", "settled")
    /\ SetDir([dir EXCEPT !.journal = "none"])
    /\ UNCHANGED <<stage, issued, clientVars>>

SyncSettled ==
    /\ Go("settled", "clean")
    /\ Sync
    /\ UNCHANGED <<stage, issued, clientVars>>

\* The backup and left-over staging directories go; then the operation begins,
\* or commit raises.
CleanUp ==
    /\ pc = "clean"
    /\ SetDir([dir EXCEPT !.backup = Absent])
    /\ stage' = Absent
    /\ \/ /\ back = "abort"
          /\ Exit("failed")
       \/ /\ back = "enter"
          /\ pc' = IF op = "login" THEN "device" ELSE "run"
          /\ cli' = cli \cup {Process}
          /\ UNCHANGED <<op, back, heard, clientVars>>
    /\ UNCHANGED issued

-------------------------------------------------------------------------------
(* Engine.capture of tasks and queries, Engine.device and Engine.commit.       *)

\* codex exec ends, or its time is up; its process group is killed.
RunEnds ==
    /\ pc = "run"
    /\ Exit("done")
    /\ UNCHANGED <<dirVars, stage, issued>>

\* The device code is printed; the bridge fails if nobody reads it.
EmitCode ==
    /\ heard
    /\ Go("device", "await")
    /\ UNCHANGED <<dirVars, stage, issued, clientVars>>

\* The user confirms the code and the CLI writes the credential.
DeviceEnds ==
    /\ pc = "await" /\ issued < MaxCreds
    /\ pc' = "verify" /\ cli' = cli \ {Process}
    /\ stage' = issued + 1 /\ issued' = issued + 1
    /\ UNCHANGED <<dirVars, op, back, heard, clientVars>>

\* status of the staging directory says that it is logged in.
VerifyStage ==
    /\ Go("verify", "backup")
    /\ UNCHANGED <<dirVars, stage, issued, clientVars>>

\* .tg-auth-backup becomes a second name of auth.json; link(2) refuses a name
\* that exists.
BackupAuth ==
    /\ dir.auth # Absent => dir.backup = Absent
    /\ Go("backup", "journal")
    /\ SetDir(IF dir.auth # Absent THEN [dir EXCEPT !.backup = dir.auth] ELSE dir)
    /\ UNCHANGED <<stage, issued, clientVars>>

WriteJournal ==
    /\ Go("journal", "journaled")
    /\ SetDir([dir EXCEPT !.journal = IF dir.auth # Absent THEN "existing" ELSE "absent"])
    /\ UNCHANGED <<stage, issued, clientVars>>

SyncJournal ==
    /\ Go("journaled", "install")
    /\ Sync
    /\ UNCHANGED <<stage, issued, clientVars>>

Install ==
    /\ Go("install", "installed")
    /\ SetDir([dir EXCEPT !.auth = stage])
    /\ stage' = Absent
    /\ UNCHANGED <<issued, clientVars>>

SyncInstalled ==
    /\ Go("installed", "confirm")
    /\ Sync
    /\ UNCHANGED <<stage, issued, clientVars>>

\* status says that the installed account is logged in; the quota cut-off is set.
Confirm ==
    /\ Go("confirm", "commit")
    /\ UNCHANGED <<dirVars, stage, issued, clientVars>>

CommitJournal_BackupFirst ==    \* mutant: the backup goes before the journal
    /\ Go("commit", "dropped")
    /\ \/ dir.backup # Absent /\ SetDir([dir EXCEPT !.backup = Absent])
       \/ SetDir([dir EXCEPT !.journal = "none"])
    /\ UNCHANGED <<stage, issued, clientVars>>
CommitJournal ==
    /\ Go("commit", "dropped")
    /\ SetDir([dir EXCEPT !.journal = "none"])
    /\ UNCHANGED <<stage, issued, clientVars>>

SyncCommit_Skipped ==    \* mutant: no fsync after the journal is removed
    /\ Go("dropped", "finish")
    /\ UNCHANGED <<dirVars, stage, issued, clientVars>>
SyncCommit ==
    /\ Go("dropped", "finish")
    /\ Sync
    /\ UNCHANGED <<stage, issued, clientVars>>

\* An error of unlink is passed over.  request() fails all the same when its timer
\* has killed runuser in the meantime.
LoginEnds ==
    /\ pc = "finish"
    /\ \/ SetDir([dir EXCEPT !.backup = Absent])
       \/ UNCHANGED dirVars
    /\ \E outcome \in {"done", "failed"} : Exit(outcome)
    /\ UNCHANGED <<stage, issued>>

\* A step of commit after the journal is durable raises: recover is called.
CommitFails_NoRecover ==    \* mutant: the handler gives up without recover
    /\ pc \in {"install", "installed", "confirm", "commit", "dropped"}
    /\ SetDir([dir EXCEPT !.journal = "none"])
    /\ Exit("failed")
    /\ UNCHANGED <<stage, issued>>
CommitFails ==
    /\ pc \in {"install", "installed", "confirm", "commit", "dropped"}
    /\ pc' = "recover" /\ back' = "abort"
    /\ UNCHANGED <<dirVars, stage, issued, op, heard, cli, clientVars>>

\* Any other step raises: the bridge ends, recovery is left to the next one.
OtherSteps == {"recover", "replace", "restored", "settle", "settled", "clean", "device",
               "await", "verify", "backup", "journal", "journaled"}

BridgeFails ==
    /\ pc \in OtherSteps
    /\ stage' = IF back = "abort" \/ pc \in {"device", "await", "verify", "backup",
                                             "journal", "journaled"}
                THEN Absent ELSE stage
    /\ Exit("failed")
    /\ UNCHANGED <<dirVars, issued>>

-------------------------------------------------------------------------------
(* The environment.                                                           *)

\* The bridge is killed; a CLI process it started lives on, with the lock.
BridgeDies ==
    /\ op # "none"
    /\ op' = "none" /\ pc' = "out" /\ back' = "enter" /\ heard' = FALSE
    /\ cli' \in {cli, {}}
    /\ EndRequest("failed")
    /\ UNCHANGED <<dirVars, stage, issued>>

\* Such a process ends; a device login may have written its credential.
OrphanEnds ==
    /\ op = "none" /\ cli # {}
    /\ cli' = {}
    /\ \/ /\ "device" \in cli /\ issued < MaxCreds
          /\ stage' = issued + 1 /\ issued' = issued + 1
       \/ UNCHANGED <<stage, issued>>
    /\ UNCHANGED <<dirVars, op, pc, back, heard, clientVars>>

\* The controller is restarted; the coroutines and Admission are lost.
ControllerRestarts ==
    /\ loginPc # "none" \/ \E t \in Tasks : exec[t] # "none"
    /\ login' = FALSE /\ tasks' = 0
    /\ loginPc' = "none" /\ exec' = [t \in Tasks |-> "none"]
    /\ heard' = FALSE
    /\ UNCHANGED <<dirVars, stage, issued, op, pc, back, cli, told, claim, old>>

\* The host loses power and comes up again.
PowerLoss ==
    /\ \E d \in disk : dir' = d /\ disk' = {d}
    /\ op' = "none" /\ pc' = "out" /\ back' = "enter" /\ heard' = FALSE /\ cli' = {}
    /\ login' = FALSE /\ tasks' = 0
    /\ loginPc' = "none" /\ exec' = [t \in Tasks |-> "none"]
    /\ UNCHANGED <<stage, issued, told, claim, old>>

-------------------------------------------------------------------------------
Recover ==
    \/ NothingPending \/ LinkRestore \/ ReplaceAuth \/ RemoveAuth \/ SyncRestored
    \/ DropJournal \/ SyncSettled \/ CleanUp

LoginStep ==
    \/ EmitCode \/ DeviceEnds \/ VerifyStage \/ BackupAuth \/ WriteJournal \/ SyncJournal
    \/ Install \/ SyncInstalled \/ Confirm \/ CommitJournal \/ SyncCommit \/ LoginEnds
    \/ CommitFails

LoginFlow ==
    LoginLocks \/ LoginRefused \/ LoginReplies \/ LoginReplyFails \/ LoginApologises

TaskFlow(t) ==
    TaskScheduled(t) \/ TaskLocks(t) \/ TaskRefused(t) \/ TaskExit(t)

Bridge == Recover \/ LoginStep \/ RunEnds \/ BridgeFails

Environment == BridgeDies \/ OrphanEnds \/ ControllerRestarts \/ PowerLoss

Next ==
    \/ LoginEnter \/ LoginFlow \/ GiveUp \/ QueryLocks
    \/ \E t \in Tasks : TaskEnter(t) \/ TaskFlow(t)
    \/ Bridge
    \/ Environment

Spec == Init /\ [][Next]_vars

\* The event loop runs every ready coroutine, and a bridge goes on: each of its
\* waits has a deadline (the device login's, that of every capture), after which it
\* kills what it waits for and fails.
Fairness == WF_vars(LoginFlow) /\ WF_vars(Bridge)

FairSpec == Spec /\ Fairness

-------------------------------------------------------------------------------
(* Properties.                                                                *)

Steps == {"out", "run", "finish", "install", "installed", "confirm", "commit",
          "dropped"} \cup OtherSteps

\* Every variable has its type: what the transaction leaves on disk is always one
\* of its states, and the admission counter never goes below zero.
TypeOK ==
    /\ dir \in Dirs /\ disk \in SUBSET Dirs /\ dir \in disk
    /\ stage \in Creds /\ issued \in Creds
    /\ op \in {"none", "login", "task", "query"} /\ pc \in Steps
    /\ back \in {"enter", "abort"} /\ heard \in BOOLEAN
    /\ cli \in SUBSET {"device", "exec"}
    /\ login \in BOOLEAN /\ tasks \in Nat
    /\ loginPc \in {"none", "request", "waiting", "done", "failed"}
    /\ exec \in [Tasks -> {"none", "entered", "queued", "running", "ended"}]
    /\ told \in {"nothing", "switched", "kept"} /\ claim \in Creds /\ old \in Creds

\* Whatever a power loss leaves, recover finds the backup that the journal speaks
\* of, so that no operation ends in "manual check required" (Engine.recover).
NeverStuck == \A d \in disk : d.journal = "existing" => d.backup # Absent

\* Once the user was told that the account is switched, no crash brings another
\* account back (Engine.commit, "durable once the journal disappears").
SwitchedIsDurable ==
    told = "switched" => \A d \in disk : Account(d) = claim /\ claim # Absent

\* While codex exec works, in a bridge or as an orphan of one, nobody replaces the
\* credential under it: no recovery, no other login ("logins and tasks exclude
\* each other", README).
AccountFixedDuringExec ==
    [][cli \cap cli' \cap {"exec"} # {} => dir'.auth = dir.auth]_vars

\* While a login is admitted no task is, although a task's slot is taken, handed
\* over and given back by three different pieces of code.
LoginAlone == login => \A t \in Tasks : exec[t] = "none"

\* The accounts that a power loss may leave, and the one that commit confirmed.
Possible  == {Account(d) : d \in disk}
Confirmed == IF pc = "commit" THEN {dir.auth} ELSE {}

\* A switch is atomic: only an account that is confirmed in its place becomes the
\* runner's, and until it is settled a restarted host comes up with the old account
\* or with the new one (Engine.commit, Engine.recover).
Store == INSTANCE AccountStore WITH
    Accounts <- Creds, possible <- Possible, confirmed <- Confirmed

StoreSpec == Store!Spec

\* The admission of a login ends, so that tasks are accepted again, although
\* login_flow waits without a limit of its own until the bridge ends.
LoginReleased == login ~> ~login

\* "The original credential is kept" (reply of login_flow): after that reply the
\* account is the one from before the login.
KeptIsKept == told = "kept" => Account(dir) = claim
================================================================================
