-------------------------- MODULE AccountSwitchProofs ---------------------------
(*****************************************************************************)
(* Proofs about AccountSwitch, for any number of tasks and credentials: the     *)
(* switch is atomic and durable, recovery never gets stuck, the credential is   *)
(* fixed while codex exec works, and logins exclude tasks.                      *)
(*****************************************************************************)
EXTENDS AccountSwitch, FiniteSetTheorems, TLAPS

RecoverSteps == {"recover", "replace", "restored", "settle", "settled", "clean"}

LoginSteps == {"device", "await", "verify", "backup", "journal", "journaled", "install",
               "installed", "confirm", "commit", "dropped", "finish"}

\* The kernel lock: a bridge is between its steps, and a codex exec process is
\* either the one its bridge waits for or an orphan that keeps the lock.
LockInv ==
    /\ op = "none" <=> pc = "out"
    /\ pc \in LoginSteps \/ back = "abort" => op = "login"
    /\ pc = "run" => op # "login"
    /\ "exec" \in cli => pc \in {"out", "run"}
    /\ loginPc = "done" \/ told = "switched" => op # "login"
    /\ loginPc = "request" => told # "switched"

\* What the names say at each step.
StepInv ==
    /\ pc \in {"replace", "restored", "settle", "journaled", "install", "installed",
               "confirm", "commit"} => dir.journal # "none"
    /\ pc = "replace" => dir.journal = "existing" /\ dir.restore = dir.backup
    /\ pc \in {"restored", "settle", "journaled"} => dir.auth = Account(dir)
    /\ pc \in {"settled", "clean", "device", "await", "verify", "backup", "journal",
               "dropped", "finish"} => dir.journal = "none"
    /\ pc \in {"device", "await", "verify", "backup"} => dir.backup = Absent
    /\ pc = "journal" => dir.backup = dir.auth
    /\ pc \in {"verify", "backup", "journal", "journaled", "install"} => stage # Absent
    /\ pc \in {"installed", "confirm", "commit", "dropped", "finish"} => dir.auth # Absent

\* What a power loss may leave at each step: one account only while the journal of
\* a switch is durable, and the switched account alone before the user is told.
DiskInv ==
    /\ NeverStuck
    /\ pc \in {"install", "installed", "confirm", "commit"} =>
          \A d \in disk : Account(d) = Account(dir)
    /\ pc = "finish" \/ loginPc = "done" =>
          dir.auth # Absent /\ \A d \in disk : d.journal = "none" /\ d.auth = dir.auth
    /\ SwitchedIsDurable

Live == {t \in Tasks : exec[t] # "none"}

\* Admission counts the executions that are under way.
CountInv == tasks = Cardinality(Live) /\ LoginAlone

IInv == TypeOK /\ LockInv /\ StepInv /\ DiskInv /\ CountInv

-------------------------------------------------------------------------------
(* Types.                                                                      *)

LEMMA DirType ==
    ASSUME NEW d \in Dirs, NEW c \in Creds
    PROVE  /\ [d EXCEPT !.auth = c] \in Dirs
           /\ [d EXCEPT !.backup = c] \in Dirs
           /\ [d EXCEPT !.restore = c] \in Dirs
           /\ [d EXCEPT !.auth = c, !.restore = Absent] \in Dirs
           /\ \A j \in {"none", "existing", "absent"} : [d EXCEPT !.journal = j] \in Dirs
<1>1. Absent \in Creds
    BY SwitchAssumption DEF Creds, Absent
<1>2. QED
    BY <1>1 DEF Dirs

\* The account is the one the journal points at.
LEMMA AccountLemma ==
    ASSUME NEW d \in Dirs
    PROVE  /\ d.journal = "none" => Account(d) = d.auth
           /\ d.journal = "existing" => Account(d) = d.backup
           /\ d.journal = "absent" => Account(d) = Absent
           /\ Account(d) \in Creds
<1>1. Absent \in Creds
    BY SwitchAssumption DEF Creds, Absent
<1>2. d.journal \in {"none", "existing", "absent"} /\ d.auth \in Creds /\ d.backup \in Creds
    BY DEF Dirs
<1>3. CASE d.journal = "none"
    BY <1>2, <1>3 DEF Account
<1>4. CASE d.journal = "existing"
    BY <1>2, <1>4 DEF Account
<1>5. CASE d.journal = "absent"
    BY <1>1, <1>5 DEF Account
<1>6. QED
    BY <1>2, <1>3, <1>4, <1>5

LEMMA TypeInit == Init => TypeOK
<1> SUFFICES ASSUME Init PROVE TypeOK
    OBVIOUS
<1>1. Absent \in Creds /\ 0 \in Creds /\ 1 \in Creds
    BY SwitchAssumption DEF Creds, Absent
<1>2. dir \in Dirs
    BY <1>1 DEF Init, Dirs
<1>3. dir.auth \in Creds
    BY <1>2 DEF Dirs
<1>4. disk \in SUBSET Dirs /\ dir \in disk
    BY <1>2 DEF Init
<1>5. stage \in Creds /\ issued \in Creds /\ claim \in Creds /\ old \in Creds
    BY <1>1, <1>3 DEF Init
<1>6. exec \in [Tasks -> {"none", "entered", "queued", "running", "ended"}]
    BY DEF Init
<1>7. login \in BOOLEAN /\ heard \in BOOLEAN /\ tasks \in Nat
    BY DEF Init
<1>8. QED
    BY <1>2, <1>4, <1>5, <1>6, <1>7 DEF Init, TypeOK, Steps, OtherSteps

\* The client's side, with admission, and the bridge's side.
ClientOK ==
    /\ login \in BOOLEAN
    /\ loginPc \in {"none", "request", "waiting", "done", "failed"}
    /\ exec \in [Tasks -> {"none", "entered", "queued", "running", "ended"}]
    /\ told \in {"nothing", "switched", "kept"} /\ claim \in Creds /\ old \in Creds

BridgeOK ==
    /\ op \in {"none", "login", "task", "query"} /\ pc \in Steps
    /\ back \in {"enter", "abort"} /\ heard \in BOOLEAN
    /\ cli \in SUBSET {"device", "exec"}

DirOK ==
    /\ dir \in Dirs /\ disk \in SUBSET Dirs /\ dir \in disk
    /\ stage \in Creds /\ issued \in Creds

LEMMA TypeParts == TypeOK <=> DirOK /\ BridgeOK /\ ClientOK /\ tasks \in Nat
BY DEF TypeOK, DirOK, BridgeOK, ClientOK

\* Steps of the controller alone.
ClientStep ==
    \/ LoginEnter \/ LoginRefused \/ LoginReplies \/ LoginReplyFails \/ LoginApologises
    \/ GiveUp \/ ControllerRestarts
    \/ \E t \in Tasks : TaskEnter(t) \/ TaskScheduled(t) \/ TaskRefused(t) \/ TaskExit(t)

\* A bridge gets the lock.
EnterStep == LoginLocks \/ QueryLocks \/ \E t \in Tasks : TaskLocks(t)

\* A bridge ends without a change of a name.
StopStep == RunEnds \/ BridgeFails \/ BridgeDies

LEMMA StepKinds ==
    Next <=> ClientStep \/ EnterStep \/ StopStep \/ Recover \/ LoginStep \/ OrphanEnds \/ PowerLoss
BY DEF Next, ClientStep, EnterStep, StopStep, LoginFlow, TaskFlow, Bridge, Environment

LEMMA ClientKeeps ==
    ClientStep => UNCHANGED <<dir, disk, stage, issued, op, pc, back, cli>> /\ heard' \in {heard, FALSE}
BY DEF ClientStep, LoginEnter, LoginRefused, LoginReplies, LoginReplyFails, LoginApologises, GiveUp,
    ControllerRestarts, TaskEnter, TaskScheduled, TaskRefused, TaskExit, dirVars, bridgeVars

LEMMA EnterKeeps ==
    EnterStep => /\ UNCHANGED <<dir, disk, stage, issued, cli>>
                 /\ op = "none" /\ cli = {}
                 /\ op' \in {"login", "query", "task"} /\ pc' = "recover" /\ back' = "enter" /\ heard' = TRUE
BY DEF EnterStep, LoginLocks, QueryLocks, TaskLocks, Enter, LockFree, dirVars

LEMMA StopKeeps ==
    ASSUME BridgeOK, StopStep
    PROVE  /\ UNCHANGED <<dir, disk, issued>> /\ stage' \in {stage, Absent}
           /\ op' = "none" /\ pc' = "out" /\ back' = "enter" /\ heard' = FALSE
           /\ cli' \in SUBSET cli
           /\ \E outcome \in {"done", "failed"} : EndRequest(outcome) /\ (outcome = "done" => pc = "run")
<1>1. CASE RunEnds
    BY <1>1 DEF RunEnds, Exit, dirVars
<1>2. CASE BridgeFails
    BY <1>2 DEF BridgeFails, Exit, dirVars
<1>3. CASE BridgeDies
    BY <1>3 DEF BridgeDies, dirVars
<1>4. QED
    BY <1>1, <1>2, <1>3 DEF StopStep

LEMMA EndRequestType ==
    ASSUME ClientOK, NEW outcome \in {"done", "failed"}, EndRequest(outcome)
    PROVE  ClientOK'
BY DEF ClientOK, EndRequest

LEMMA ClientType ==
    ASSUME TypeOK, [Next]_vars
    PROVE  ClientOK'
<1> USE DEF TypeOK, ClientOK
<1>0. \A d \in Dirs : Account(d) \in Creds /\ d.auth \in Creds
    BY AccountLemma DEF Dirs
<1>1. CASE ClientStep
    <2>1. CASE LoginEnter
        BY <1>0, <2>1 DEF LoginEnter
    <2>2. CASE LoginRefused \/ LoginReplies \/ LoginReplyFails \/ LoginApologises
        BY <1>0, <2>2 DEF LoginRefused, LoginReplies, LoginReplyFails, LoginApologises
    <2>3. CASE GiveUp
        BY <2>3, EndRequestType DEF GiveUp
    <2>4. CASE ControllerRestarts
        BY <2>4 DEF ControllerRestarts
    <2>5. ASSUME NEW t \in Tasks, TaskEnter(t) \/ TaskScheduled(t) \/ TaskRefused(t) \/ TaskExit(t)
          PROVE  ClientOK'
        BY <2>5 DEF TaskEnter, TaskScheduled, TaskRefused, TaskExit
    <2>6. QED
        BY <1>1, <2>1, <2>2, <2>3, <2>4, <2>5 DEF ClientStep
<1>2. CASE EnterStep
    BY <1>2 DEF EnterStep, LoginLocks, QueryLocks, TaskLocks, clientVars
<1>3. CASE StopStep
    BY <1>3, StopKeeps, TypeParts, EndRequestType
<1>4. CASE Recover
    <2>1. CASE CleanUp
        BY <2>1, EndRequestType DEF CleanUp, Exit, clientVars
    <2>2. CASE Recover /\ ~CleanUp
        BY <2>2 DEF Recover, NothingPending, LinkRestore, ReplaceAuth, RemoveAuth, SyncRestored,
            DropJournal, SyncSettled, clientVars
    <2>3. QED
        BY <1>4, <2>1, <2>2
<1>5. CASE LoginStep
    <2>1. CASE LoginEnds
        BY <2>1, EndRequestType DEF LoginEnds, Exit
    <2>2. CASE LoginStep /\ ~LoginEnds
        BY <2>2 DEF LoginStep, EmitCode, DeviceEnds, VerifyStage, BackupAuth, WriteJournal,
            SyncJournal, Install, SyncInstalled, Confirm, CommitJournal, SyncCommit, CommitFails,
            clientVars
    <2>3. QED
        BY <1>5, <2>1, <2>2
<1>6. CASE OrphanEnds \/ PowerLoss
    BY <1>6 DEF OrphanEnds, PowerLoss, clientVars
<1>7. CASE UNCHANGED vars
    BY <1>7 DEF vars, clientVars
<1>8. QED
    BY <1>1, <1>2, <1>3, <1>4, <1>5, <1>6, <1>7, StepKinds

LEMMA BridgeType ==
    ASSUME TypeOK, [Next]_vars
    PROVE  BridgeOK'
<1> USE DEF BridgeOK, Steps, OtherSteps
<1>0. BridgeOK
    BY TypeParts
<1>1. CASE ClientStep
    BY <1>0, <1>1, ClientKeeps
<1>2. CASE EnterStep
    BY <1>2, EnterKeeps
<1>3. CASE StopStep
    BY <1>0, <1>3, StopKeeps
<1>4. CASE Recover
    BY <1>0, <1>4 DEF Recover, NothingPending, LinkRestore, ReplaceAuth, RemoveAuth, SyncRestored,
        DropJournal, SyncSettled, CleanUp, Exit, Go, Process
<1>5. CASE LoginStep
    BY <1>0, <1>5 DEF LoginStep, EmitCode, DeviceEnds, VerifyStage, BackupAuth, WriteJournal,
        SyncJournal, Install, SyncInstalled, Confirm, CommitJournal, SyncCommit, LoginEnds,
        CommitFails, Exit, Go, Process
<1>6. CASE OrphanEnds \/ PowerLoss
    BY <1>0, <1>6 DEF OrphanEnds, PowerLoss
<1>7. CASE UNCHANGED vars
    BY <1>0, <1>7 DEF vars, bridgeVars
<1>8. QED
    BY <1>1, <1>2, <1>3, <1>4, <1>5, <1>6, <1>7, StepKinds

LEMMA SetDirType ==
    ASSUME DirOK, NEW d \in Dirs, SetDir(d)
    PROVE  dir' \in Dirs /\ disk' \in SUBSET Dirs /\ dir' \in disk'
BY DEF DirOK, SetDir

LEMMA DirsType ==
    ASSUME TypeOK, [Next]_vars
    PROVE  DirOK'
<1>0. DirOK /\ BridgeOK /\ Absent \in Creds /\ \A d \in Dirs : d.auth \in Creds /\ d.backup \in Creds /\ d.restore \in Creds
    BY TypeParts, SwitchAssumption DEF Creds, Absent, Dirs
<1>1. CASE ClientStep
    BY <1>0, <1>1, ClientKeeps DEF DirOK
<1>2. CASE EnterStep
    BY <1>0, <1>2, EnterKeeps DEF DirOK
<1>3. CASE StopStep
    BY <1>0, <1>3, StopKeeps DEF DirOK
<1>4. CASE Recover
    <2>1. CASE NothingPending \/ SyncRestored \/ SyncSettled
        BY <1>0, <2>1 DEF DirOK, NothingPending, SyncRestored, SyncSettled, Sync, dirVars
    <2>2. CASE LinkRestore
        BY <1>0, <2>2, DirType, SetDirType DEF LinkRestore, DirOK
    <2>3. CASE ReplaceAuth
        BY <1>0, <2>3, DirType, SetDirType DEF ReplaceAuth, DirOK
    <2>4. CASE RemoveAuth
        BY <1>0, <2>4, DirType, SetDirType DEF RemoveAuth, DirOK
    <2>5. CASE DropJournal
        BY <1>0, <2>5, DirType, SetDirType DEF DropJournal, DirOK
    <2>6. CASE CleanUp
        BY <1>0, <2>6, DirType, SetDirType DEF CleanUp, DirOK
    <2>7. QED
        BY <1>4, <2>1, <2>2, <2>3, <2>4, <2>5, <2>6 DEF Recover
<1>5. CASE LoginStep
    <2>1. CASE EmitCode \/ VerifyStage \/ SyncJournal \/ SyncInstalled \/ Confirm \/ SyncCommit \/ CommitFails
        BY <1>0, <2>1 DEF DirOK, EmitCode, VerifyStage, SyncJournal, SyncInstalled, Confirm,
            SyncCommit, CommitFails, Sync, dirVars
    <2>2. CASE DeviceEnds
        BY <1>0, <2>2, SwitchAssumption DEF DirOK, DeviceEnds, dirVars, Creds
    <2>3. CASE BackupAuth
        BY <1>0, <2>3, DirType, SetDirType DEF BackupAuth, DirOK
    <2>4. CASE WriteJournal
        BY <1>0, <2>4, DirType, SetDirType DEF WriteJournal, DirOK
    <2>5. CASE Install
        BY <1>0, <2>5, DirType, SetDirType DEF Install, DirOK
    <2>6. CASE CommitJournal
        BY <1>0, <2>6, DirType, SetDirType DEF CommitJournal, DirOK
    <2>7. CASE LoginEnds
        BY <1>0, <2>7, DirType, SetDirType DEF LoginEnds, DirOK, dirVars
    <2>8. QED
        BY <1>5, <2>1, <2>2, <2>3, <2>4, <2>5, <2>6, <2>7 DEF LoginStep
<1>6. CASE OrphanEnds
    BY <1>0, <1>6, SwitchAssumption DEF OrphanEnds, DirOK, dirVars, Creds
<1>7. CASE PowerLoss
    BY <1>0, <1>7 DEF PowerLoss, DirOK
<1>8. CASE UNCHANGED vars
    BY <1>0, <1>8 DEF vars, dirVars, DirOK
<1>9. QED
    BY <1>1, <1>2, <1>3, <1>4, <1>5, <1>6, <1>7, <1>8, StepKinds

\* Except for the counter, which CountStep treats.
LEMMA TypeStep ==
    ASSUME TypeOK, [Next]_vars, tasks' \in Nat
    PROVE  TypeOK'
BY ClientType, BridgeType, DirsType DEF TypeOK, DirOK, BridgeOK, ClientOK

-------------------------------------------------------------------------------
(* The lock and the steps of the bridge.                                       *)

LEMMA LockInit == Init => LockInv
BY DEF Init, LockInv, LoginSteps

\* What a request that ends tells its coroutine.
LEMMA EndRequestDone ==
    ASSUME NEW outcome \in {"done", "failed"}, EndRequest(outcome)
    PROVE  /\ told' = told
           /\ loginPc' \in {loginPc, outcome} /\ (op # "login" => loginPc' = loginPc)
BY DEF EndRequest

LEMMA LockStep ==
    ASSUME TypeOK, LockInv, [Next]_vars
    PROVE  LockInv'
<1> USE DEF LockInv, LoginSteps
<1>0. BridgeOK
    BY TypeParts
<1>1. CASE ClientStep
    <2>1. UNCHANGED <<op, pc, back, cli>>
        BY <1>1, ClientKeeps
    <2>2. /\ loginPc' = "done" \/ told' = "switched" => op # "login"
          /\ loginPc' = "request" => told' # "switched"
        <3>1. CASE GiveUp
            BY <3>1, EndRequestDone DEF GiveUp
        <3>2. CASE ClientStep /\ ~GiveUp
            BY <3>2 DEF ClientStep, LoginEnter, LoginRefused, LoginReplies, LoginReplyFails,
                LoginApologises, ControllerRestarts, TaskEnter, TaskScheduled, TaskRefused, TaskExit
        <3>3. QED
            BY <1>1, <3>1, <3>2
    <2>3. QED
        BY <2>1, <2>2
<1>2. CASE EnterStep
    <2>1. op' = "login" => loginPc = "request"
        BY <1>2, EnterKeeps DEF EnterStep, LoginLocks, QueryLocks, TaskLocks, Enter
    <2>2. told' = told /\ loginPc' \in {loginPc, "waiting"} /\ (op' = "login" => loginPc' = "waiting")
        BY <1>2 DEF EnterStep, LoginLocks, QueryLocks, TaskLocks, Enter, clientVars
    <2>3. QED
        BY <1>2, <2>1, <2>2, EnterKeeps
<1>3. CASE StopStep
    BY <1>0, <1>3, StopKeeps, EndRequestDone
<1>4. CASE Recover
    <2>1. CASE CleanUp
        BY <1>0, <2>1, EndRequestDone DEF CleanUp, Exit, Process, clientVars
    <2>2. CASE Recover /\ ~CleanUp
        BY <1>0, <2>2 DEF Recover, NothingPending, LinkRestore, ReplaceAuth, RemoveAuth,
            SyncRestored, DropJournal, SyncSettled, Go, clientVars
    <2>3. QED
        BY <1>4, <2>1, <2>2
<1>5. CASE LoginStep
    <2>1. CASE LoginEnds
        BY <1>0, <2>1, EndRequestDone DEF LoginEnds, Exit, Process
    <2>2. CASE LoginStep /\ ~LoginEnds
        BY <1>0, <2>2 DEF LoginStep, EmitCode, DeviceEnds, VerifyStage, BackupAuth, WriteJournal,
            SyncJournal, Install, SyncInstalled, Confirm, CommitJournal, SyncCommit, CommitFails,
            Go, clientVars
    <2>3. QED
        BY <1>5, <2>1, <2>2
<1>6. CASE OrphanEnds \/ PowerLoss
    BY <1>0, <1>6 DEF OrphanEnds, PowerLoss, clientVars
<1>7. CASE UNCHANGED vars
    BY <1>7 DEF vars, bridgeVars, clientVars
<1>8. QED
    BY <1>1, <1>2, <1>3, <1>4, <1>5, <1>6, <1>7, StepKinds

LEMMA StepInit == Init => StepInv
BY DEF Init, StepInv

LEMMA StepStep ==
    ASSUME TypeOK, LockInv, StepInv, [Next]_vars
    PROVE  StepInv'
<1> USE DEF StepInv
<1>0. DirOK /\ BridgeOK
    BY TypeParts
<1>a. dir' \in Dirs
    BY DirsType DEF DirOK
<1>1. CASE ClientStep
    BY <1>1, ClientKeeps DEF Account
<1>2. CASE EnterStep
    BY <1>2, EnterKeeps
<1>3. CASE StopStep
    BY <1>0, <1>3, StopKeeps
<1>4. CASE NothingPending
    BY <1>4 DEF NothingPending, Go, dirVars
<1>5. CASE LinkRestore
    BY <1>0, <1>5 DEF LinkRestore, Go, SetDir, Dirs, DirOK
<1>6. CASE ReplaceAuth
    <2>1. dir' = IF dir.restore = dir.auth THEN dir
                 ELSE [dir EXCEPT !.auth = dir.restore, !.restore = Absent]
        BY <1>6 DEF ReplaceAuth, SetDir
    <2>2. /\ dir'.auth = dir.backup /\ dir'.backup = dir.backup
          /\ dir'.journal = "existing" /\ pc' = "restored"
        BY <1>0, <1>6, <2>1 DEF ReplaceAuth, Go, Dirs, DirOK
    <2>3. QED
        BY <1>a, <2>2, AccountLemma
<1>7. CASE RemoveAuth
    <2>1. dir'.auth = Absent /\ dir'.journal = "absent" /\ pc' = "restored"
        BY <1>0, <1>7 DEF RemoveAuth, Go, SetDir, Dirs, DirOK
    <2>2. QED
        BY <1>a, <2>1, AccountLemma
<1>8. CASE SyncRestored
    BY <1>8 DEF SyncRestored, Go, Sync, Account
<1>9. CASE DropJournal
    BY <1>0, <1>9 DEF DropJournal, Go, SetDir, Dirs, DirOK
<1>10. CASE SyncSettled
    BY <1>10 DEF SyncSettled, Go, Sync
<1>11. CASE CleanUp
    <2>1. dir'.journal = "none" /\ dir'.backup = Absent /\ pc' \in {"out", "device", "run"}
        BY <1>0, <1>11 DEF CleanUp, Exit, SetDir, Dirs, DirOK
    <2>2. QED
        BY <2>1
<1>12. CASE EmitCode \/ VerifyStage \/ Confirm
    BY <1>12 DEF EmitCode, VerifyStage, Confirm, Go, dirVars
<1>13. CASE DeviceEnds
    BY <1>0, <1>13, SwitchAssumption DEF DeviceEnds, dirVars, DirOK, Creds, Absent
<1>14. CASE BackupAuth
    BY <1>0, <1>14 DEF BackupAuth, Go, SetDir, Dirs, DirOK
<1>15. CASE WriteJournal
    <2>1. dir'.auth = dir.auth /\ dir'.backup = dir.auth /\ pc' = "journaled" /\ stage' = stage
        BY <1>0, <1>15 DEF WriteJournal, Go, SetDir, Dirs, DirOK
    <2>2. dir'.journal = IF dir.auth # Absent THEN "existing" ELSE "absent"
        BY <1>0, <1>15 DEF WriteJournal, SetDir, Dirs, DirOK
    <2>3. QED
        BY <1>15, <1>a, <2>1, <2>2, AccountLemma DEF WriteJournal, Go
<1>16. CASE SyncJournal \/ SyncInstalled \/ SyncCommit
    BY <1>16 DEF SyncJournal, SyncInstalled, SyncCommit, Go, Sync
<1>17. CASE Install
    BY <1>0, <1>17 DEF Install, Go, SetDir, Dirs, DirOK
<1>18. CASE CommitJournal
    BY <1>0, <1>18 DEF CommitJournal, Go, SetDir, Dirs, DirOK
<1>19. CASE LoginEnds
    BY <1>19 DEF LoginEnds, Exit
<1>20. CASE CommitFails
    BY <1>20 DEF CommitFails, dirVars
<1>21. CASE OrphanEnds \/ PowerLoss
    BY <1>21 DEF OrphanEnds, PowerLoss, LockInv
<1>22. CASE UNCHANGED vars
    BY <1>22 DEF vars, bridgeVars, dirVars, Account
<1>23. QED
    BY <1>1, <1>2, <1>3, <1>4, <1>5, <1>6, <1>7, <1>8, <1>9, <1>10, <1>11, <1>12, <1>13, <1>14,
       <1>15, <1>16, <1>17, <1>18, <1>19, <1>20, <1>21, <1>22, StepKinds DEF Recover, LoginStep

-------------------------------------------------------------------------------
(* What a power loss may leave.                                                *)

\* Every write of a name except for the one that commits.
Writes ==
    \/ LinkRestore \/ ReplaceAuth \/ RemoveAuth \/ DropJournal \/ CleanUp
    \/ BackupAuth \/ WriteJournal \/ Install \/ LoginEnds

Syncs == SyncRestored \/ SyncSettled \/ SyncJournal \/ SyncInstalled \/ SyncCommit

\* A step of the bridge that leaves the names alone.
Quiet == NothingPending \/ EmitCode \/ DeviceEnds \/ VerifyStage \/ Confirm \/ CommitFails

LEMMA BridgeKinds ==
    Recover \/ LoginStep <=> Writes \/ Syncs \/ Quiet \/ CommitJournal
BY DEF Recover, LoginStep, Writes, Syncs, Quiet

\* A write before the commit, or of recover, keeps the account and the backup that
\* the journal points at.
LEMMA WriteKeeps ==
    ASSUME TypeOK, LockInv, StepInv, NeverStuck, Writes
    PROVE  /\ dir' \in Dirs /\ disk' = disk \cup {dir'}
           /\ Account(dir') = Account(dir)
           /\ dir'.journal = "existing" => dir'.backup # Absent
           /\ dir.journal = "none" /\ (op # "login" \/ pc = "finish") =>
                 dir'.journal = "none" /\ dir'.auth = dir.auth
<1> USE DEF Dirs, SetDir
<1>0. dir \in Dirs /\ dir \in disk /\ stage \in Creds /\ Absent \in Creds
      /\ (dir.journal = "existing" => dir.backup # Absent)
    BY SwitchAssumption DEF TypeOK, NeverStuck, Creds, Absent
<1>1. CASE LinkRestore
    <2>1. /\ dir' = [dir EXCEPT !.restore = dir.backup] /\ disk' = disk \cup {dir'}
          /\ dir.journal = "existing" /\ dir.backup # Absent
        BY <1>1 DEF LinkRestore
    <2>2. /\ dir' \in Dirs /\ dir'.journal = dir.journal /\ dir'.backup = dir.backup
          /\ dir'.auth = dir.auth
        BY <1>0, <2>1
    <2>3. QED
        BY <1>0, <2>1, <2>2, AccountLemma
<1>2. CASE ReplaceAuth
    <2>1. /\ dir' = IF dir.restore = dir.auth THEN dir
                    ELSE [dir EXCEPT !.auth = dir.restore, !.restore = Absent]
          /\ disk' = disk \cup {dir'} /\ dir.journal = "existing"
        BY <1>2 DEF ReplaceAuth, Go, StepInv
    <2>2. dir' \in Dirs /\ dir'.journal = dir.journal /\ dir'.backup = dir.backup
        BY <1>0, <2>1
    <2>3. QED
        BY <1>0, <2>1, <2>2, AccountLemma
<1>3. CASE RemoveAuth
    <2>1. /\ dir' = [dir EXCEPT !.auth = Absent] /\ disk' = disk \cup {dir'}
          /\ dir.journal = "absent"
        BY <1>3 DEF RemoveAuth
    <2>2. dir' \in Dirs /\ dir'.journal = dir.journal
        BY <1>0, <2>1
    <2>3. QED
        BY <1>0, <2>1, <2>2, AccountLemma
<1>4. CASE DropJournal
    <2>1. /\ dir' = [dir EXCEPT !.journal = "none"] /\ disk' = disk \cup {dir'}
          /\ dir.auth = Account(dir) /\ dir.journal # "none"
        BY <1>4 DEF DropJournal, Go, StepInv
    <2>2. dir' \in Dirs /\ dir'.journal = "none" /\ dir'.auth = dir.auth
        BY <1>0, <2>1
    <2>3. QED
        BY <1>0, <2>1, <2>2, AccountLemma
<1>5. CASE CleanUp
    <2>1. /\ dir' = [dir EXCEPT !.backup = Absent] /\ disk' = disk \cup {dir'}
          /\ dir.journal = "none"
        BY <1>5 DEF CleanUp, StepInv
    <2>2. dir' \in Dirs /\ dir'.journal = "none" /\ dir'.auth = dir.auth
        BY <1>0, <2>1
    <2>3. QED
        BY <1>0, <2>1, <2>2, AccountLemma
<1>6. CASE BackupAuth
    <2>1. /\ dir' = IF dir.auth # Absent THEN [dir EXCEPT !.backup = dir.auth] ELSE dir
          /\ disk' = disk \cup {dir'} /\ dir.journal = "none"
        BY <1>6 DEF BackupAuth, Go, StepInv
    <2>2. dir' \in Dirs /\ dir'.journal = "none" /\ dir'.auth = dir.auth
        BY <1>0, <2>1
    <2>3. QED
        BY <1>0, <2>1, <2>2, AccountLemma
<1>7. CASE WriteJournal
    <2>1. /\ dir' = [dir EXCEPT !.journal = IF dir.auth # Absent THEN "existing" ELSE "absent"]
          /\ disk' = disk \cup {dir'}
          /\ dir.journal = "none" /\ dir.backup = dir.auth /\ op = "login" /\ pc = "journal"
        BY <1>7 DEF WriteJournal, Go, StepInv, LockInv, LoginSteps
    <2>2. /\ dir' \in Dirs /\ dir'.backup = dir.auth
          /\ dir'.journal = IF dir.auth # Absent THEN "existing" ELSE "absent"
        BY <1>0, <2>1
    <2>3. QED
        BY <1>0, <2>1, <2>2, AccountLemma
<1>8. CASE Install
    <2>1. /\ dir' = [dir EXCEPT !.auth = stage] /\ disk' = disk \cup {dir'}
          /\ dir.journal # "none"
        BY <1>8 DEF Install, Go, StepInv
    <2>2. dir' \in Dirs /\ dir'.journal = dir.journal /\ dir'.backup = dir.backup
        BY <1>0, <2>1
    <2>3. QED
        BY <1>0, <2>1, <2>2, AccountLemma
<1>9. CASE LoginEnds
    <2>1. /\ dir' \in {dir, [dir EXCEPT !.backup = Absent]} /\ disk' = disk \cup {dir'}
          /\ dir.journal = "none"
        BY <1>0, <1>9 DEF LoginEnds, StepInv, dirVars
    <2>2. dir' \in Dirs /\ dir'.journal = "none" /\ dir'.auth = dir.auth
        BY <1>0, <2>1
    <2>3. QED
        BY <1>0, <2>1, <2>2, AccountLemma
<1>10. QED
    BY <1>1, <1>2, <1>3, <1>4, <1>5, <1>6, <1>7, <1>8, <1>9 DEF Writes

\* What a step of the bridge does to the coroutine of a login.
LEMMA BridgeClient ==
    ASSUME LockInv, BridgeOK, Recover \/ LoginStep
    PROVE  /\ UNCHANGED <<told, claim>>
           /\ loginPc' = "done" => loginPc = "done" \/ pc = "finish"
           /\ pc' = "finish" => SyncCommit
<1>1. CASE CleanUp
    BY <1>1 DEF CleanUp, Exit, EndRequest, clientVars
<1>2. CASE LoginEnds
    BY <1>2 DEF LoginEnds, Exit, EndRequest
<1>3. CASE (Recover \/ LoginStep) /\ ~CleanUp /\ ~LoginEnds
    BY <1>3 DEF Recover, LoginStep, NothingPending, LinkRestore, ReplaceAuth, RemoveAuth,
        SyncRestored, DropJournal, SyncSettled, EmitCode, DeviceEnds, VerifyStage, BackupAuth,
        WriteJournal, SyncJournal, Install, SyncInstalled, Confirm, CommitJournal, SyncCommit,
        CommitFails, Go, clientVars
<1>4. QED
    BY <1>1, <1>2, <1>3

LEMMA SyncKeeps ==
    Syncs => disk' = {dir} /\ dir' = dir /\ pc # "commit" /\ pc' # "commit"
BY DEF Syncs, SyncRestored, SyncSettled, SyncJournal, SyncInstalled, SyncCommit, Sync, Go

LEMMA QuietKeeps ==
    Quiet => UNCHANGED <<dir, disk>> /\ (pc' \in {"install", "installed"} => FALSE)
             /\ (pc' = "confirm" => FALSE) /\ (pc' = "commit" => pc = "confirm")
BY DEF Quiet, NothingPending, EmitCode, DeviceEnds, VerifyStage, Confirm, CommitFails, Go, dirVars

LEMMA DiskInit == Init => DiskInv
BY DEF Init, DiskInv, NeverStuck, SwitchedIsDurable

LEMMA StuckStep ==
    ASSUME IInv, [Next]_vars
    PROVE  NeverStuck'
<1> USE DEF NeverStuck
<1>0. NeverStuck /\ DirOK /\ BridgeOK /\ StepInv /\ LockInv /\ TypeOK
    BY TypeParts DEF IInv, DiskInv
<1>1. CASE ClientStep
    BY <1>0, <1>1, ClientKeeps
<1>2. CASE EnterStep
    BY <1>0, <1>2, EnterKeeps
<1>3. CASE StopStep
    BY <1>0, <1>3, StopKeeps
<1>4. CASE Writes
    BY <1>0, <1>4, WriteKeeps
<1>5. CASE Syncs
    BY <1>0, <1>5, SyncKeeps DEF DirOK
<1>6. CASE Quiet
    BY <1>0, <1>6, QuietKeeps
<1>7. CASE CommitJournal
    <2>1. dir'.journal = "none" /\ disk' = disk \cup {dir'}
        BY <1>0, <1>7 DEF CommitJournal, SetDir, DirOK, Dirs
    <2>2. QED
        BY <1>0, <2>1
<1>8. CASE OrphanEnds \/ PowerLoss
    BY <1>0, <1>8 DEF OrphanEnds, PowerLoss, dirVars
<1>9. CASE UNCHANGED vars
    BY <1>0, <1>9 DEF vars, dirVars
<1>10. QED
    BY <1>1, <1>2, <1>3, <1>4, <1>5, <1>6, <1>7, <1>8, <1>9, StepKinds, BridgeKinds

\* While the journal is durable every crash brings the old account back.
OldAccount ==
    pc \in {"install", "installed", "confirm", "commit"} => \A d \in disk : Account(d) = Account(dir)

LEMMA OldAccountStep ==
    ASSUME IInv, [Next]_vars
    PROVE  OldAccount'
<1> USE DEF OldAccount
<1>0. NeverStuck /\ DirOK /\ BridgeOK /\ StepInv /\ LockInv /\ TypeOK /\ OldAccount
    BY TypeParts DEF IInv, DiskInv
<1>1. CASE ClientStep
    BY <1>0, <1>1, ClientKeeps
<1>2. CASE EnterStep
    BY <1>2, EnterKeeps
<1>3. CASE StopStep
    BY <1>0, <1>3, StopKeeps
<1>4. CASE Install
    <2>1. pc = "install" /\ Writes
        BY <1>4 DEF Install, Go, Writes
    <2>2. QED
        BY <1>0, <2>1, WriteKeeps
<1>5. CASE Writes /\ ~Install
    BY <1>5 DEF Writes, LinkRestore, ReplaceAuth, RemoveAuth, DropJournal, CleanUp, BackupAuth,
        WriteJournal, LoginEnds, Go, Exit
<1>6. CASE Syncs
    BY <1>6, SyncKeeps
<1>7. CASE Quiet
    BY <1>0, <1>7, QuietKeeps
<1>8. CASE CommitJournal
    BY <1>8 DEF CommitJournal, Go
<1>9. CASE OrphanEnds \/ PowerLoss
    BY <1>0, <1>9 DEF OrphanEnds, PowerLoss, dirVars
<1>10. CASE UNCHANGED vars
    BY <1>0, <1>10 DEF vars, dirVars, bridgeVars
<1>11. QED
    BY <1>1, <1>2, <1>3, <1>4, <1>5, <1>6, <1>7, <1>8, <1>9, <1>10, StepKinds, BridgeKinds

\* Before the user is told, the switched account is the only one on the disk.
NewAccount ==
    pc = "finish" \/ loginPc = "done" =>
        dir.auth # Absent /\ \A d \in disk : d.journal = "none" /\ d.auth = dir.auth

LEMMA NewAccountStep ==
    ASSUME IInv, [Next]_vars
    PROVE  NewAccount'
<1> USE DEF NewAccount
<1>0. NeverStuck /\ DirOK /\ BridgeOK /\ StepInv /\ LockInv /\ TypeOK /\ NewAccount
    BY TypeParts DEF IInv, DiskInv
<1>1. CASE ClientStep
    <2>1. loginPc' = "done" => loginPc = "done"
        <3>1. CASE GiveUp
            BY <3>1, EndRequestDone DEF GiveUp
        <3>2. CASE ClientStep /\ ~GiveUp
            BY <3>2 DEF ClientStep, LoginEnter, LoginRefused, LoginReplies, LoginReplyFails,
                LoginApologises, ControllerRestarts, TaskEnter, TaskScheduled, TaskRefused, TaskExit
        <3>3. QED
            BY <1>1, <3>1, <3>2
    <2>2. QED
        BY <1>0, <1>1, <2>1, ClientKeeps
<1>2. CASE EnterStep
    <2>1. loginPc' \in {loginPc, "waiting"}
        BY <1>2 DEF EnterStep, LoginLocks, QueryLocks, TaskLocks, clientVars
    <2>2. QED
        BY <1>0, <1>2, <2>1, EnterKeeps
<1>3. CASE StopStep
    <2>1. loginPc' = "done" => loginPc = "done"
        BY <1>0, <1>3, StopKeeps, EndRequestDone DEF LockInv
    <2>2. QED
        BY <1>0, <1>3, <2>1, StopKeeps
<1>4. CASE Writes
    <2>1. pc' # "finish"
        BY <1>4 DEF Writes, LinkRestore, ReplaceAuth, RemoveAuth, DropJournal, CleanUp, BackupAuth,
            WriteJournal, Install, LoginEnds, Go, Exit
    <2>2. loginPc' = "done" => loginPc = "done" \/ pc = "finish"
        BY <1>0, <1>4, BridgeClient, BridgeKinds
    <2>3. loginPc = "done" => op # "login"
        BY <1>0 DEF LockInv
    <2>4. QED
        BY <1>0, <1>4, <2>1, <2>2, <2>3, WriteKeeps DEF DirOK
<1>5. CASE Syncs
    <2>1. loginPc' = "done" => loginPc = "done" \/ pc = "finish"
        BY <1>0, <1>5, BridgeClient, BridgeKinds
    <2>2. pc' = "finish" => dir.auth # Absent /\ dir.journal = "none"
        BY <1>0, <1>5, BridgeClient, BridgeKinds DEF SyncCommit, Go, StepInv
    <2>3. QED
        BY <1>0, <1>5, <2>1, <2>2, SyncKeeps DEF DirOK
<1>6. CASE Quiet
    <2>1. pc' # "finish"
        BY <1>6 DEF Quiet, NothingPending, EmitCode, DeviceEnds, VerifyStage, Confirm, CommitFails, Go
    <2>2. loginPc' = "done" => loginPc = "done" \/ pc = "finish"
        BY <1>0, <1>6, BridgeClient, BridgeKinds
    <2>3. QED
        BY <1>0, <1>6, <2>1, <2>2, QuietKeeps
<1>7. CASE CommitJournal
    BY <1>0, <1>7 DEF CommitJournal, Go, clientVars, LockInv, LoginSteps
<1>8. CASE OrphanEnds \/ PowerLoss
    BY <1>0, <1>8 DEF OrphanEnds, PowerLoss, dirVars, clientVars
<1>9. CASE UNCHANGED vars
    BY <1>0, <1>9 DEF vars, dirVars, bridgeVars, clientVars
<1>10. QED
    BY <1>1, <1>2, <1>3, <1>4, <1>5, <1>6, <1>7, <1>8, <1>9, StepKinds, BridgeKinds

LEMMA DurableStep ==
    ASSUME IInv, [Next]_vars
    PROVE  SwitchedIsDurable'
<1> USE DEF SwitchedIsDurable
<1>0. /\ NeverStuck /\ DirOK /\ BridgeOK /\ StepInv /\ LockInv /\ TypeOK
      /\ NewAccount /\ SwitchedIsDurable
    BY TypeParts DEF IInv, DiskInv, NewAccount
<1>1. CASE LoginReplies
    <2>1. /\ claim' = dir.auth /\ dir.auth # Absent /\ disk' = disk
          /\ \A d \in disk : d \in Dirs /\ d.journal = "none" /\ d.auth = dir.auth
        BY <1>0, <1>1 DEF LoginReplies, NewAccount, dirVars, DirOK
    <2>2. \A d \in disk : Account(d) = dir.auth
        BY <2>1, AccountLemma
    <2>3. QED
        BY <2>1, <2>2
<1>2. CASE ClientStep /\ ~LoginReplies
    <2>1. told' = "switched" => told = "switched" /\ claim' = claim
        BY <1>2 DEF ClientStep, LoginEnter, LoginRefused, LoginReplyFails, LoginApologises,
            GiveUp, EndRequest, ControllerRestarts, TaskEnter, TaskScheduled, TaskRefused, TaskExit
    <2>2. QED
        BY <1>0, <1>2, <2>1, ClientKeeps DEF Account
<1>3. CASE EnterStep
    <2>1. UNCHANGED <<told, claim>>
        BY <1>3 DEF EnterStep, LoginLocks, QueryLocks, TaskLocks, clientVars
    <2>2. QED
        BY <1>0, <1>3, <2>1, EnterKeeps
<1>4. CASE StopStep
    <2>1. UNCHANGED <<told, claim>>
        BY <1>0, <1>4, StopKeeps DEF EndRequest
    <2>2. QED
        BY <1>0, <1>4, <2>1, StopKeeps
<1>5. CASE Writes \/ Syncs \/ Quiet \/ CommitJournal
    <2>0. UNCHANGED <<told, claim>>
        BY <1>0, <1>5, BridgeClient, BridgeKinds
    <2>1. CASE Writes
        BY <1>0, <2>0, <2>1, WriteKeeps DEF DirOK
    <2>2. CASE Syncs
        BY <1>0, <2>0, <2>2, SyncKeeps DEF DirOK
    <2>3. CASE Quiet
        BY <1>0, <2>0, <2>3, QuietKeeps
    <2>4. CASE CommitJournal
        BY <1>0, <2>0, <2>4 DEF CommitJournal, Go, LockInv, LoginSteps
    <2>5. QED
        BY <1>5, <2>1, <2>2, <2>3, <2>4
<1>6. CASE OrphanEnds \/ PowerLoss
    BY <1>0, <1>6 DEF OrphanEnds, PowerLoss, dirVars, clientVars
<1>7. CASE UNCHANGED vars
    BY <1>0, <1>7 DEF vars, dirVars, clientVars
<1>8. QED
    BY <1>1, <1>2, <1>3, <1>4, <1>5, <1>6, <1>7, StepKinds, BridgeKinds

LEMMA DiskStep ==
    ASSUME IInv, [Next]_vars
    PROVE  DiskInv'
BY StuckStep, OldAccountStep, NewAccountStep, DurableStep DEF DiskInv, OldAccount, NewAccount

-------------------------------------------------------------------------------
(* Admission.                                                                  *)

LEMMA LiveFinite ==
    ASSUME SwitchAssumption
    PROVE  IsFiniteSet(Live) /\ Cardinality(Live) \in Nat
<1>1. IsFiniteSet(Live)
    BY FS_Subset DEF SwitchAssumption, Live
<1>2. QED
    BY <1>1, FS_CardinalityType

LEMMA CountInit == Init => CountInv
<1> SUFFICES ASSUME Init PROVE CountInv
    OBVIOUS
<1>1. Live = {}
    BY DEF Init, Live
<1>2. QED
    BY <1>1, FS_EmptySet DEF CountInv, Init, LoginAlone

\* Nobody is admitted and nobody leaves.
LEMMA SameLive ==
    ASSUME CountInv, tasks' = tasks,
           \A t \in Tasks : exec'[t] = "none" <=> exec[t] = "none",
           login' => login \/ tasks = 0
    PROVE  CountInv'
<1>1. Live' = Live
    BY DEF Live
<1>2. tasks = 0 => Live = {}
    BY LiveFinite, SwitchAssumption, FS_EmptySet DEF CountInv
<1>3. QED
    BY <1>1, <1>2 DEF CountInv, LoginAlone, Live

LEMMA EndRequestLive ==
    ASSUME NEW outcome, EndRequest(outcome), CountInv
    PROVE  CountInv'
<1>1. /\ tasks' = tasks /\ login' = login
      /\ \A t \in Tasks : exec'[t] = "none" <=> exec[t] = "none"
    BY DEF EndRequest
<1>2. QED
    BY <1>1, SameLive

LEMMA CountStep ==
    ASSUME TypeOK, CountInv, [Next]_vars
    PROVE  CountInv' /\ tasks' \in Nat
<1>0. ClientOK /\ BridgeOK
    BY TypeParts
<1>1. CountInv'
    <2>1. ASSUME NEW t \in Tasks, TaskEnter(t)
          PROVE  CountInv'
        <3>1. Live' = Live \cup {t} /\ t \notin Live
            BY <1>0, <2>1 DEF TaskEnter, Live, ClientOK
        <3>2. Cardinality(Live') = Cardinality(Live) + 1
            BY <3>1, LiveFinite, SwitchAssumption, FS_AddElement
        <3>3. QED
            BY <2>1, <3>2 DEF TaskEnter, CountInv, LoginAlone
    <2>2. ASSUME NEW t \in Tasks, TaskExit(t)
          PROVE  CountInv'
        <3>1. Live' = Live \ {t} /\ t \in Live
            BY <1>0, <2>2 DEF TaskExit, Live, ClientOK
        <3>2. Cardinality(Live') = Cardinality(Live) - 1
            BY <3>1, LiveFinite, SwitchAssumption, FS_RemoveElement
        <3>3. ~login
            BY <2>2 DEF TaskExit, CountInv, LoginAlone
        <3>4. QED
            BY <2>2, <3>2, <3>3 DEF TaskExit, CountInv, LoginAlone
    <2>3. ASSUME NEW t \in Tasks, TaskScheduled(t) \/ TaskRefused(t) \/ TaskLocks(t)
          PROVE  CountInv'
        BY <1>0, <2>3, SameLive DEF TaskScheduled, TaskRefused, TaskLocks, ClientOK
    <2>4. CASE LoginEnter \/ LoginRefused \/ LoginReplies \/ LoginReplyFails \/ LoginApologises
               \/ LoginLocks \/ QueryLocks
        BY <2>4, SameLive DEF LoginEnter, LoginRefused, LoginReplies, LoginReplyFails,
            LoginApologises, LoginLocks, QueryLocks, clientVars
    <2>5. CASE GiveUp \/ StopStep
        BY <1>0, <2>5, StopKeeps, EndRequestLive DEF GiveUp
    <2>6. CASE ControllerRestarts \/ PowerLoss
        <3>1. Live' = {} /\ tasks' = 0 /\ ~login'
            BY <2>6 DEF ControllerRestarts, PowerLoss, Live
        <3>2. QED
            BY <3>1, FS_EmptySet DEF CountInv, LoginAlone
    <2>7. CASE CleanUp \/ LoginEnds
        BY <2>7, EndRequestLive, SameLive DEF CleanUp, LoginEnds, Exit, clientVars
    <2>8. CASE (Recover \/ LoginStep) /\ ~CleanUp /\ ~LoginEnds
        <3>1. UNCHANGED <<tasks, exec, login>>
            BY <2>8 DEF Recover, LoginStep, NothingPending, LinkRestore, ReplaceAuth, RemoveAuth,
                SyncRestored, DropJournal, SyncSettled, EmitCode, DeviceEnds, VerifyStage,
                BackupAuth, WriteJournal, SyncJournal, Install, SyncInstalled, Confirm,
                CommitJournal, SyncCommit, CommitFails, clientVars
        <3>2. QED
            BY <3>1, SameLive
    <2>9. CASE OrphanEnds \/ UNCHANGED vars
        BY <2>9, SameLive DEF OrphanEnds, vars, clientVars
    <2>10. QED
        BY <2>1, <2>2, <2>3, <2>4, <2>5, <2>6, <2>7, <2>8, <2>9, StepKinds DEF ClientStep, EnterStep
<1>2. IsFiniteSet(Live') /\ Cardinality(Live') \in Nat
    BY SwitchAssumption, FS_Subset, FS_CardinalityType DEF Live
<1>3. QED
    BY <1>1, <1>2 DEF CountInv

-------------------------------------------------------------------------------
(* The theorems.                                                               *)

LEMMA Inductive == Spec => []IInv
<1>1. Init => IInv
    BY TypeInit, LockInit, StepInit, DiskInit, CountInit DEF IInv
<1>2. IInv /\ [Next]_vars => IInv'
    <2> SUFFICES ASSUME IInv, [Next]_vars PROVE IInv'
        OBVIOUS
    <2>1. CountInv' /\ tasks' \in Nat
        BY CountStep DEF IInv
    <2>2. TypeOK' /\ LockInv' /\ StepInv'
        BY <2>1, TypeStep, LockStep, StepStep DEF IInv
    <2>3. QED
        BY <2>1, <2>2, DiskStep DEF IInv
<1>3. QED
    BY <1>1, <1>2, PTL DEF Spec

\* Every reachable state is well typed, for any number of tasks and credentials.
THEOREM TypeCorrect == Spec => []TypeOK
<1>1. IInv => TypeOK
    BY DEF IInv
<1>2. QED
    BY <1>1, Inductive, PTL

\* Whatever the crashes, recover finds the backup that the journal speaks of.
THEOREM RecoveryPossible == Spec => []NeverStuck
<1>1. IInv => NeverStuck
    BY DEF IInv, DiskInv
<1>2. QED
    BY <1>1, Inductive, PTL

\* Once the user was told that the account is switched, no crash undoes it.
THEOREM SwitchDurable == Spec => []SwitchedIsDurable
<1>1. IInv => SwitchedIsDurable
    BY DEF IInv, DiskInv
<1>2. QED
    BY <1>1, Inductive, PTL

\* Admission keeps logins and tasks apart.
THEOREM LoginExcludes == Spec => []LoginAlone
<1>1. IInv => LoginAlone
    BY DEF IInv, CountInv
<1>2. QED
    BY <1>1, Inductive, PTL

\* The credential does not change under a living codex exec process.
THEOREM AccountFixed == Spec => AccountFixedDuringExec
<1>1. ASSUME IInv, [Next]_vars
      PROVE  cli \cap cli' \cap {"exec"} # {} => dir'.auth = dir.auth
    <2>0. BridgeOK /\ DirOK /\ LockInv /\ StepInv /\ NeverStuck /\ TypeOK
        BY <1>1, TypeParts DEF IInv, DiskInv
    <2> SUFFICES ASSUME "exec" \in cli, "exec" \in cli' PROVE dir'.auth = dir.auth
        OBVIOUS
    <2>1. pc \in {"out", "run"}
        BY <2>0 DEF LockInv
    <2>2. CASE ClientStep \/ EnterStep \/ StopStep
        BY <2>0, <2>2, ClientKeeps, EnterKeeps, StopKeeps
    <2>3. CASE Recover \/ LoginStep
        BY <2>1, <2>3 DEF Recover, LoginStep, NothingPending, LinkRestore, ReplaceAuth, RemoveAuth,
            SyncRestored, DropJournal, SyncSettled, CleanUp, EmitCode, DeviceEnds, VerifyStage,
            BackupAuth, WriteJournal, SyncJournal, Install, SyncInstalled, Confirm, CommitJournal,
            SyncCommit, LoginEnds, CommitFails, Go
    <2>4. CASE OrphanEnds \/ PowerLoss
        BY <2>4 DEF OrphanEnds, PowerLoss
    <2>5. CASE UNCHANGED vars
        BY <2>5 DEF vars, dirVars
    <2>6. QED
        BY <1>1, <2>2, <2>3, <2>4, <2>5, StepKinds
<1>2. ASSUME IInv, [Next]_vars
      PROVE  [cli \cap cli' \cap {"exec"} # {} => dir'.auth = dir.auth]_vars
    BY <1>1, <1>2
<1>3. QED
    BY <1>2, Inductive, PTL DEF Spec, AccountFixedDuringExec

-------------------------------------------------------------------------------
(* The detailed transaction implements AccountStore.                           *)

LEMMA StoreInit == Init => Store!Init
<1> SUFFICES ASSUME Init PROVE Store!Init
    OBVIOUS
<1>1. TypeOK
    BY TypeInit
<1>2. Account(dir) \in Creds
    BY <1>1, AccountLemma DEF TypeOK
<1>3. Possible = {Account(dir)}
    BY DEF Init, Possible
<1>4. Confirmed = {}
    BY DEF Init, Confirmed
<1>5. QED
    BY <1>2, <1>3, <1>4 DEF Store!Init

LEMMA StoreStep ==
    ASSUME IInv, [Next]_vars
    PROVE  [Store!Next]_(Store!vars)
<1> USE DEF Possible, Store!vars
<1>0. /\ NeverStuck /\ DirOK /\ BridgeOK /\ StepInv /\ LockInv /\ TypeOK /\ OldAccount
      /\ \A d \in Dirs : Account(d) \in Creds /\ d.auth \in Creds
    BY TypeParts, AccountLemma DEF IInv, DiskInv, OldAccount, Dirs
<1>a. ASSUME UNCHANGED Possible, Confirmed' = {} \/ Confirmed' = Confirmed
      PROVE  [Store!Next]_(Store!vars)
    BY <1>a DEF Store!Next, Store!Withdraw
<1>b. ASSUME pc' # "commit" \/ UNCHANGED <<pc, dir>>
      PROVE  Confirmed' = {} \/ Confirmed' = Confirmed
    BY <1>b DEF Confirmed
<1>1. CASE ClientStep
    <2>1. UNCHANGED Possible /\ UNCHANGED <<pc, dir>>
        BY <1>1, ClientKeeps DEF Account
    <2>2. QED
        BY <2>1, <1>a, <1>b
<1>2. CASE EnterStep \/ StopStep
    <2>1. UNCHANGED Possible /\ pc' # "commit"
        BY <1>0, <1>2, EnterKeeps, StopKeeps DEF Account
    <2>2. QED
        BY <2>1, <1>a, <1>b
<1>3. CASE Writes
    <2>1. UNCHANGED Possible
        <3>1. /\ disk' = disk \cup {dir'} /\ Account(dir') = Account(dir) /\ dir \in disk
            BY <1>0, <1>3, WriteKeeps DEF DirOK
        <3>2. Possible' = {Account(d) : d \in disk'}
            BY DEF Account
        <3>3. QED
            BY <3>1, <3>2
    <2>2. pc' # "commit"
        BY <1>3 DEF Writes, LinkRestore, ReplaceAuth, RemoveAuth, DropJournal, CleanUp, BackupAuth,
            WriteJournal, Install, LoginEnds, Go, Exit
    <2>3. QED
        BY <2>1, <2>2, <1>a, <1>b
<1>4. CASE Syncs
    <2>1. Possible' = {Account(dir)} /\ Account(dir) \in Possible /\ Confirmed' = {}
        BY <1>0, <1>4, SyncKeeps DEF DirOK, Account, Confirmed
    <2>2. Store!Settle(Account(dir))
        BY <2>1 DEF Store!Settle
    <2>3. QED
        BY <1>0, <2>2 DEF Store!Next, DirOK
<1>5. CASE Confirm
    <2>1. UNCHANGED Possible /\ Confirmed' = {dir.auth}
        BY <1>5 DEF Confirm, Go, dirVars, Account, Confirmed
    <2>2. Store!Confirm(dir.auth)
        BY <2>1 DEF Store!Confirm
    <2>3. QED
        BY <1>0, <2>2 DEF Store!Next, DirOK
<1>6. CASE Quiet /\ ~Confirm
    <2>1. UNCHANGED Possible
        BY <1>6, QuietKeeps DEF Account
    <2>2. pc' # "commit"
        BY <1>6 DEF Quiet, NothingPending, EmitCode, DeviceEnds, VerifyStage, CommitFails, Go
    <2>3. QED
        BY <2>1, <2>2, <1>a, <1>b
<1>7. CASE CommitJournal
    <2>1. /\ pc = "commit" /\ pc' = "dropped" /\ disk' = disk \cup {dir'}
          /\ dir' \in Dirs /\ dir'.journal = "none" /\ dir'.auth = dir.auth
        BY <1>0, <1>7 DEF CommitJournal, Go, SetDir, DirOK, Dirs
    <2>2. Account(dir') = dir.auth
        BY <2>1, AccountLemma
    <2>3. Possible = {Account(dir)}
        BY <1>0, <2>1 DEF OldAccount, DirOK
    <2>4. Possible' = {Account(dir), dir.auth}
        <3>1. Possible' = {Account(d) : d \in disk'}
            BY DEF Account
        <3>2. QED
            BY <2>1, <2>2, <2>3, <3>1
    <2>5. Store!Switch(Account(dir), dir.auth)
        BY <2>1, <2>3, <2>4 DEF Store!Switch, Confirmed
    <2>6. QED
        BY <1>0, <2>5 DEF Store!Next, DirOK
<1>8. CASE OrphanEnds
    <2>1. UNCHANGED Possible /\ UNCHANGED <<pc, dir>>
        BY <1>8 DEF OrphanEnds, dirVars, Account
    <2>2. QED
        BY <2>1, <1>a, <1>b
<1>9. CASE PowerLoss
    <2>1. PICK d \in disk : dir' = d /\ disk' = {d}
        BY <1>9 DEF PowerLoss
    <2>2. Possible' = {Account(d)} /\ Account(d) \in Possible /\ Confirmed' = {}
        BY <1>9, <2>1 DEF PowerLoss, Confirmed, Account
    <2>3. Store!Settle(Account(d))
        BY <2>2 DEF Store!Settle
    <2>4. QED
        BY <1>0, <2>1, <2>3 DEF Store!Next, DirOK
<1>10. CASE UNCHANGED vars
    <2>1. UNCHANGED Possible /\ UNCHANGED <<pc, dir>>
        BY <1>10 DEF vars, dirVars, bridgeVars, Account
    <2>2. QED
        BY <2>1, <1>a, <1>b
<1>11. QED
    BY <1>1, <1>2, <1>3, <1>4, <1>5, <1>6, <1>7, <1>8, <1>9, <1>10, StepKinds, BridgeKinds DEF Quiet

\* Only a confirmed account becomes the runner's, and a crash in between leaves the
\* old account or the new one, for any number of logins and crashes.
THEOREM SwitchAtomic == Spec => StoreSpec
<1>1. Init => Store!Init
    BY StoreInit
<1>2. IInv /\ [Next]_vars => [Store!Next]_(Store!vars)
    BY StoreStep
<1>3. QED
    BY <1>1, <1>2, Inductive, PTL DEF Spec, StoreSpec, Store!Spec

-------------------------------------------------------------------------------
(* Every request ends.                                                         *)

\* Who waits for the bridge, waits for one that is heard and works for him; admission
\* belongs to a coroutine that is there to give it back.
RequestInv ==
    /\ login <=> loginPc # "none"
    /\ loginPc = "waiting" <=> heard /\ op = "login"
    /\ (\E t \in Tasks : exec[t] = "running") <=> heard /\ op = "task"
    /\ \A t, u \in Tasks : exec[t] = "running" /\ exec[u] = "running" => t = u
    /\ pc \in LoginSteps \cup {"run", "out"} => back = "enter"

\* The steps that a coroutine and a bridge have left.
LoginLeft == [none |-> 0, failed |-> 1, done |-> 2, waiting |-> 3, request |-> 4]
ExecLeft  == [none |-> 0, ended |-> 1, running |-> 2, queued |-> 3, entered |-> 4]
StepLeft  ==
    [recover |-> 24, replace |-> 23, restored |-> 22, settle |-> 21, settled |-> 20,
     clean |-> 19, device |-> 18, await |-> 17, verify |-> 16, backup |-> 15,
     journal |-> 14, journaled |-> 13, install |-> 12, installed |-> 11, confirm |-> 10,
     commit |-> 9, dropped |-> 8, finish |-> 7, run |-> 7, out |-> 0]
BridgeLeft == IF back = "abort" THEN StepLeft[pc] - 18 ELSE StepLeft[pc]

LEMMA RequestInit == Init => RequestInv
BY DEF Init, RequestInv, LoginSteps

\* A request that ends, answers everyone who waited for it.
LEMMA AllAnswered ==
    ASSUME ClientOK, RequestInv, NEW outcome \in {"done", "failed"}, EndRequest(outcome),
           heard' = FALSE, pc' \in LoginSteps \cup {"run", "out"} => back' = "enter"
    PROVE  RequestInv'
<1>1. \A t \in Tasks : exec'[t] # "running"
    BY DEF EndRequest, RequestInv, ClientOK
<1>2. loginPc' # "waiting" /\ (loginPc' # "none" <=> loginPc # "none") /\ login' = login
    BY DEF EndRequest, RequestInv
<1>3. QED
    BY <1>1, <1>2 DEF RequestInv

LEMMA RequestStep ==
    ASSUME TypeOK, LockInv, RequestInv, [Next]_vars
    PROVE  RequestInv'
<1>0. ClientOK /\ BridgeOK
    BY TypeParts
<1>1. CASE ClientStep
    <2>0. UNCHANGED <<op, pc, back>>
        BY <1>1, ClientKeeps
    <2>1. CASE GiveUp
        BY <1>0, <2>0, <2>1, AllAnswered DEF GiveUp, RequestInv
    <2>2. CASE ControllerRestarts
        BY <2>0, <2>2 DEF ControllerRestarts, RequestInv
    <2>3. ASSUME NEW t \in Tasks, TaskEnter(t) \/ TaskScheduled(t) \/ TaskRefused(t) \/ TaskExit(t)
          PROVE  RequestInv'
        <3>1. /\ exec[t] # "running" /\ exec'[t] # "running"
              /\ \A u \in Tasks \ {t} : exec'[u] = exec[u]
            BY <1>0, <2>3 DEF TaskEnter, TaskScheduled, TaskRefused, TaskExit, ClientOK
        <3>2. UNCHANGED <<login, loginPc, heard>>
            BY <2>3 DEF TaskEnter, TaskScheduled, TaskRefused, TaskExit, bridgeVars
        <3>3. QED
            BY <2>0, <3>1, <3>2 DEF RequestInv
    <2>4. CASE LoginEnter \/ LoginRefused \/ LoginReplies \/ LoginReplyFails \/ LoginApologises
        BY <2>0, <2>4 DEF LoginEnter, LoginRefused, LoginReplies, LoginReplyFails, LoginApologises,
            bridgeVars, RequestInv
    <2>5. QED
        BY <1>1, <2>1, <2>2, <2>3, <2>4 DEF ClientStep
<1>2. CASE EnterStep
    <2>0. op = "none" /\ heard' = TRUE /\ pc' = "recover" /\ pc' \notin LoginSteps \cup {"run", "out"}
        BY <1>2, EnterKeeps DEF LoginSteps
    <2>1. CASE LoginLocks
        BY <2>0, <2>1 DEF LoginLocks, Enter, RequestInv
    <2>2. CASE QueryLocks
        BY <2>0, <2>2 DEF QueryLocks, Enter, clientVars, RequestInv
    <2>3. ASSUME NEW t \in Tasks, TaskLocks(t) PROVE RequestInv'
        <3>1. /\ exec'[t] = "running" /\ \A u \in Tasks \ {t} : exec'[u] # "running"
              /\ op' = "task" /\ UNCHANGED <<login, loginPc>>
            BY <1>0, <2>3 DEF TaskLocks, Enter, ClientOK
        <3>2. QED
            BY <2>0, <3>1 DEF RequestInv
    <2>4. QED
        BY <1>2, <2>1, <2>2, <2>3 DEF EnterStep
<1>3. CASE StopStep
    <2>1. /\ heard' = FALSE /\ back' = "enter"
          /\ \E outcome \in {"done", "failed"} : EndRequest(outcome)
        BY <1>0, <1>3, StopKeeps
    <2>2. QED
        BY <1>0, <2>1, AllAnswered
<1>4. CASE CleanUp
    <2>1. CASE back = "abort" /\ Exit("failed")
        BY <1>0, <2>1, AllAnswered DEF Exit
    <2>2. CASE back = "enter" /\ UNCHANGED <<op, back, heard, clientVars>>
        BY <2>2 DEF clientVars, RequestInv
    <2>3. QED
        BY <1>4, <2>1, <2>2 DEF CleanUp
<1>5. CASE LoginEnds
    BY <1>0, <1>5, AllAnswered DEF LoginEnds, Exit
<1>6. CASE CommitFails
    BY <1>6 DEF CommitFails, clientVars, RequestInv, LoginSteps
<1>7. CASE (Recover \/ LoginStep) /\ ~CleanUp /\ ~LoginEnds /\ ~CommitFails
    <2>1. UNCHANGED <<op, back, heard, login, loginPc, exec>>
        BY <1>7 DEF Recover, LoginStep, NothingPending, LinkRestore, ReplaceAuth, RemoveAuth,
            SyncRestored, DropJournal, SyncSettled, EmitCode, DeviceEnds, VerifyStage, BackupAuth,
            WriteJournal, SyncJournal, Install, SyncInstalled, Confirm, CommitJournal, SyncCommit,
            Go, clientVars
    <2>2. pc' \in LoginSteps => pc \in LoginSteps
        BY <1>7 DEF Recover, LoginStep, NothingPending, LinkRestore, ReplaceAuth, RemoveAuth,
            SyncRestored, DropJournal, SyncSettled, EmitCode, DeviceEnds, VerifyStage, BackupAuth,
            WriteJournal, SyncJournal, Install, SyncInstalled, Confirm, CommitJournal, SyncCommit,
            Go, LoginSteps
    <2>3. pc' \notin {"run", "out"}
        BY <1>7 DEF Recover, LoginStep, NothingPending, LinkRestore, ReplaceAuth, RemoveAuth,
            SyncRestored, DropJournal, SyncSettled, EmitCode, DeviceEnds, VerifyStage, BackupAuth,
            WriteJournal, SyncJournal, Install, SyncInstalled, Confirm, CommitJournal, SyncCommit,
            Go
    <2>4. QED
        BY <2>1, <2>2, <2>3 DEF RequestInv
<1>8. CASE PowerLoss
    BY <1>8 DEF PowerLoss, RequestInv
<1>9. CASE OrphanEnds \/ UNCHANGED vars
    BY <1>9 DEF OrphanEnds, vars, bridgeVars, clientVars, RequestInv
<1>10. QED
    BY <1>1, <1>2, <1>3, <1>4, <1>5, <1>6, <1>7, <1>8, <1>9, StepKinds

\* The coroutines of /codex_login and of the tasks, and the bridge: begin, or come
\* nearer to the end.
FlowsGoOn ==
    /\ \/ loginPc' = loginPc \/ LoginLeft[loginPc'] < LoginLeft[loginPc]
       \/ loginPc = "none" /\ loginPc' = "request"
    /\ \A t \in Tasks : \/ exec'[t] = exec[t] \/ ExecLeft[exec'[t]] < ExecLeft[exec[t]]
                        \/ exec[t] = "none" /\ exec'[t] = "entered"

BridgeGoesOn ==
    \/ UNCHANGED <<op, pc, back>> \/ BridgeLeft' < BridgeLeft
    \/ op = "none" /\ pc' = "recover" /\ back' = "enter"

LEMMA EndRequestFlows ==
    ASSUME ClientOK, RequestInv, NEW outcome \in {"done", "failed"}, EndRequest(outcome)
    PROVE  FlowsGoOn
<1>1. \A t \in Tasks : exec'[t] = exec[t] \/ (exec[t] = "running" /\ exec'[t] = "ended")
    BY DEF EndRequest, ClientOK
<1>2. loginPc' = loginPc \/ (loginPc = "waiting" /\ loginPc' \in {"done", "failed"})
    BY DEF EndRequest, RequestInv
<1>3. QED
    BY <1>1, <1>2 DEF FlowsGoOn, LoginLeft, ExecLeft

LEMMA FlowsStep ==
    ASSUME TypeOK, RequestInv, [Next]_vars
    PROVE  FlowsGoOn
<1>0. ClientOK /\ BridgeOK
    BY TypeParts
<1>1. ASSUME NEW t \in Tasks,
             TaskEnter(t) \/ TaskScheduled(t) \/ TaskRefused(t) \/ TaskExit(t) \/ TaskLocks(t)
      PROVE  FlowsGoOn
    <2>1. /\ loginPc' = loginPc /\ \A u \in Tasks \ {t} : exec'[u] = exec[u]
          /\ \/ exec[t] = "none" /\ exec'[t] = "entered"
             \/ exec[t] = "entered" /\ exec'[t] = "queued"
             \/ exec[t] = "queued" /\ exec'[t] \in {"ended", "running"}
             \/ exec[t] \in {"entered", "ended"} /\ exec'[t] = "none"
        BY <1>0, <1>1 DEF TaskEnter, TaskScheduled, TaskRefused, TaskExit, TaskLocks, ClientOK
    <2>2. QED
        BY <2>1 DEF FlowsGoOn, ExecLeft
<1>2. CASE LoginEnter
    BY <1>0, <1>2 DEF LoginEnter, FlowsGoOn, RequestInv
<1>3. CASE LoginRefused \/ LoginReplies \/ LoginReplyFails \/ LoginApologises \/ LoginLocks
    <2>1. /\ exec' = exec
          /\ \/ loginPc = "request" /\ loginPc' \in {"failed", "waiting"}
             \/ loginPc = "done" /\ loginPc' \in {"none", "failed"}
             \/ loginPc = "failed" /\ loginPc' = "none"
        BY <1>3 DEF LoginRefused, LoginReplies, LoginReplyFails, LoginApologises, LoginLocks
    <2>2. QED
        BY <2>1 DEF FlowsGoOn, LoginLeft
<1>4. CASE GiveUp
    BY <1>0, <1>4, EndRequestFlows DEF GiveUp
<1>5. CASE StopStep
    BY <1>0, <1>5, StopKeeps, EndRequestFlows
<1>6. CASE ControllerRestarts \/ PowerLoss
    <2>1. loginPc' = "none" /\ \A t \in Tasks : exec'[t] = "none"
        BY <1>6 DEF ControllerRestarts, PowerLoss
    <2>2. loginPc # "none" => LoginLeft["none"] < LoginLeft[loginPc]
        BY <1>0 DEF ClientOK, LoginLeft
    <2>3. \A t \in Tasks : exec[t] # "none" => ExecLeft["none"] < ExecLeft[exec[t]]
        <3>1. \A e \in {"none", "entered", "queued", "running", "ended"} :
                 e # "none" => ExecLeft["none"] < ExecLeft[e]
            BY DEF ExecLeft
        <3>2. QED
            BY <1>0, <3>1 DEF ClientOK
    <2>4. QED
        BY <2>1, <2>2, <2>3 DEF FlowsGoOn
<1>7. CASE CleanUp \/ LoginEnds
    <2>1. CASE EndRequest("done") \/ EndRequest("failed")
        BY <1>0, <2>1, EndRequestFlows
    <2>2. CASE UNCHANGED <<loginPc, exec>>
        BY <2>2 DEF FlowsGoOn
    <2>3. QED
        BY <1>7, <2>1, <2>2 DEF CleanUp, LoginEnds, Exit, clientVars
<1>8. CASE (Recover \/ LoginStep) /\ ~CleanUp /\ ~LoginEnds
    BY <1>8 DEF Recover, LoginStep, NothingPending, LinkRestore, ReplaceAuth, RemoveAuth,
        SyncRestored, DropJournal, SyncSettled, EmitCode, DeviceEnds, VerifyStage, BackupAuth,
        WriteJournal, SyncJournal, Install, SyncInstalled, Confirm, CommitJournal, SyncCommit,
        CommitFails, clientVars, FlowsGoOn
<1>9. CASE QueryLocks \/ OrphanEnds \/ UNCHANGED vars
    BY <1>9 DEF QueryLocks, OrphanEnds, vars, clientVars, FlowsGoOn
<1>10. QED
    BY <1>1, <1>2, <1>3, <1>4, <1>5, <1>6, <1>7, <1>8, <1>9, StepKinds DEF ClientStep, EnterStep

\* The bridge's own steps, in the order of StepLeft.
LEMMA BridgeStep ==
    ASSUME TypeOK, LockInv, RequestInv, [Next]_vars
    PROVE  BridgeGoesOn
<1>0. BridgeOK /\ (pc # "out" => BridgeLeft > 0)
    <2>1. BridgeOK
        BY TypeParts
    <2>2. back = "abort" => pc \in RecoverSteps
        BY <2>1 DEF RequestInv, BridgeOK, Steps, OtherSteps, LoginSteps, RecoverSteps
    <2>3. \A p \in RecoverSteps : StepLeft[p] - 18 > 0
        BY DEF RecoverSteps, StepLeft
    <2>4. \A p \in Steps \ {"out"} : StepLeft[p] > 0
        BY DEF Steps, OtherSteps, StepLeft
    <2>5. QED
        BY <2>1, <2>2, <2>3, <2>4 DEF BridgeLeft, BridgeOK
<1>1. CASE ClientStep
    BY <1>1, ClientKeeps DEF BridgeGoesOn
<1>2. CASE EnterStep
    BY <1>2, EnterKeeps DEF BridgeGoesOn
<1>3. ASSUME pc' = "out", back' = "enter", op' = "none" PROVE BridgeGoesOn
    <2>1. BridgeLeft' = 0
        BY <1>3 DEF BridgeLeft, StepLeft
    <2>2. CASE pc = "out"
        BY <1>3, <2>2 DEF BridgeGoesOn, RequestInv, LockInv
    <2>3. CASE pc # "out"
        BY <1>0, <2>1, <2>3 DEF BridgeGoesOn
    <2>4. QED
        BY <2>2, <2>3
<1>4. CASE StopStep \/ PowerLoss
    BY <1>0, <1>3, <1>4, StopKeeps DEF PowerLoss
<1>5. CASE CleanUp
    <2>1. CASE Exit("failed")
        BY <1>3, <2>1 DEF Exit
    <2>2. CASE pc = "clean" /\ back = "enter" /\ back' = "enter" /\ pc' \in {"device", "run"}
        BY <2>2 DEF BridgeGoesOn, BridgeLeft, StepLeft
    <2>3. QED
        BY <1>5, <2>1, <2>2 DEF CleanUp
<1>6. CASE LoginEnds
    BY <1>3, <1>6 DEF LoginEnds, Exit
<1>7. CASE CommitFails
    <2>1. pc \in {"install", "installed", "confirm", "commit", "dropped"} /\ back = "enter"
        BY <1>7 DEF CommitFails, RequestInv, LoginSteps
    <2>2. pc' = "recover" /\ back' = "abort"
        BY <1>7 DEF CommitFails
    <2>3. QED
        BY <2>1, <2>2 DEF BridgeGoesOn, BridgeLeft, StepLeft
<1>8. CASE (Recover \/ LoginStep) /\ ~CleanUp /\ ~LoginEnds /\ ~CommitFails
    <2>1. back' = back
        BY <1>8 DEF Recover, LoginStep, NothingPending, LinkRestore, ReplaceAuth, RemoveAuth,
            SyncRestored, DropJournal, SyncSettled, EmitCode, DeviceEnds, VerifyStage, BackupAuth,
            WriteJournal, SyncJournal, Install, SyncInstalled, Confirm, CommitJournal, SyncCommit,
            Go
    <2>2. StepLeft[pc'] < StepLeft[pc] /\ StepLeft[pc'] \in Nat /\ StepLeft[pc] \in Nat
        BY <1>8 DEF Recover, LoginStep, NothingPending, LinkRestore, ReplaceAuth, RemoveAuth,
            SyncRestored, DropJournal, SyncSettled, EmitCode, DeviceEnds, VerifyStage, BackupAuth,
            WriteJournal, SyncJournal, Install, SyncInstalled, Confirm, CommitJournal, SyncCommit,
            Go, StepLeft
    <2>3. QED
        BY <2>1, <2>2 DEF BridgeGoesOn, BridgeLeft
<1>9. CASE OrphanEnds \/ UNCHANGED vars
    BY <1>9 DEF OrphanEnds, vars, bridgeVars, BridgeGoesOn
<1>10. QED
    BY <1>1, <1>2, <1>4, <1>5, <1>6, <1>7, <1>8, <1>9, StepKinds

\* Admission is held only by a coroutine that is on its way to give it back: a login or
\* an execution that waits, waits for a bridge that still answers and works for it, and
\* nothing sends coroutine or bridge back, recover within commit included, which is
\* entered once.  With the fairness of the event loop and with bridges that go on this
\* is LoginReleased, and the same of a task's slot (Admission, login_flow, request,
\* Engine.commit).
THEOREM AdmissionEnds ==
    Spec => /\ []RequestInv
            /\ [][FlowsGoOn /\ BridgeGoesOn]_vars
<1>1. IInv /\ RequestInv /\ [Next]_vars => RequestInv'
    BY RequestStep DEF IInv
<1>2. Spec => []RequestInv
    BY <1>1, RequestInit, Inductive, PTL DEF Spec
<1>3. IInv /\ RequestInv /\ [Next]_vars => [FlowsGoOn /\ BridgeGoesOn]_vars
    BY FlowsStep, BridgeStep DEF IInv
<1>4. QED
    BY <1>2, <1>3, Inductive, PTL DEF Spec
================================================================================
