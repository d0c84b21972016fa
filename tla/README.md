# Verification of my-ops

TLA+ models, TLC runs and TLAPS proofs for the programs in this repository. The
code is the reference: every definition names the lines it stands for in
`PROJECT.json` (`map`).

## 1. The system

The repository holds three programs and two host set-up scripts.

### tg-codex-agent

A Telegram bot (`app/bot.py`) through which one operator lets Codex work on the
projects below `/ops/apps`, reviews what Codex did, and publishes it to GitHub
through the clone `/root/my-ops`.

| part | state | operations |
|---|---|---|
| execution of tasks (`bot.py`, `task_manager.py`, `codex_runner.py`) | one JSON file per task (`status`, `approval_status`, `publish_state`, `git_commit`), Before and After snapshots, `/ops/apps`, `TASK_LOCK` | `/task`, coroutine `_execute_codex_task` |
| publication (`task_manager.py`, `full_publish.py`) | branch, index and working tree of the clone, backup of the project, origin/main | `/approve`, `/approve_full`, with retry of a push and roll back |
| rejection (`task_manager.py`) | `/ops/apps` | `/reject` |
| account switch (`account_core.py`, `runner_bridge.py`, `account_client.py`) | `auth.json`, backup, journal, stages, quota cut-off, `flock`; in the bot `Admission` | `/codex_login`, task, status, quota |
| quota monitor (`quota*.py`, `bot.py`) | alert state file | periodic job |

Interactions: commands run one at a time (updates are handled sequentially),
executions are coroutines of their own; both meet at the asyncio lock
`TASK_LOCK`, and work in threads while they hold it. The clone and GitHub are
shared with the operator and with other clones.

Hard behaviours: a decision is looked at before two awaits and again after them;
a publication is a sequence of files, Git commands and JSON writes without a
transaction, and can fail or be killed between any two; a push may succeed and
report an error; a roll back may fail; several tasks of one project overlap.

What makes it correct: what is committed is exactly what the task did and what
was scanned; an approved task is on GitHub; a failed publication leaves nothing
behind; one decision per task; a rejected task is undone; nobody keeps the lock.

### public-vpn-node

| part | state | operations |
|---|---|---|
| VPN manager (`app/vpngate_manager.py`) | `nodes.json`, state and UI files, `is_connecting`, `maintenance_lock`, `lock`, OpenVPN process, blacklist, test interfaces | connect, disconnect, automatic switch, node maintenance, background check, tests |
| runtime gate (`vpn_runtime.py`, `firewall.py`) | owner process, gate, state file, nft rules | begin, event, revoke, monitor |
| proxies (`proxy_server.py`, `ingress.py`, `ingress_guard.py`, `entrypoint.py`) | session slots, sockets | accept, bind to the tunnel |
| administration (`security.py`, page, scripts) | login sessions, configuration files | login, configuration, checks |

Hard behaviours: four kinds of threads share `is_connecting` with and without the lock;
node lists are read, kept over seconds and written back; the gate must close when the
tunnel, its owner or the monitor dies. Correctness: nobody blocks the others for good, no
OpenVPN process is lost, no traffic leaves outside a healthy tunnel, what the user
switched off stays off.

### tg-testcase-generator

| part | state | operations |
|---|---|---|
| job registry (`job_registry.py`, `acquisition.py`) | SQLite tables of jobs, receipts, outbox | register, claim, submit, acknowledge, retry, stop, recovery |
| processor and store (`processor.py`, `store.py`) | tasks with versions, leases and fencing tokens, staged artifacts | claim, heartbeat, parse, publish, recover |
| request path (`telegram_identity.py`, `controller_bridge.py`, `application.py`) | replay ledger with clock, request cache | reserve, handle, complete, collect |
| authority (`credential_registry.py`, `scope_policy.py`, `authorization.py`, `receiver*.py`) | policies, capabilities | authorize, revoke |
| documents (`notion_package.py`, `engine.py`, `review.py`, `excel.py`, ...) | none | parse, generate, export |

Hard behaviours: intents committed before calls whose outcome may be lost,
duplicated and late events, leases that expire under a working holder, crashes
between two databases. Correctness: a job runs once, a stale holder publishes
nothing, a request takes effect once and is answered the same way twice.

`Fill2ban.sh`, `bootstrap-init.sh` and the deploy scripts run once and keep no
state: not modelled.

## 2. Modules

| module | contents |
|---|---|
| `ProjectTree` | trees of files and the pure functions on two of them: snapshots, manifests, approval plans, full plans, secret scan, comparison with the live project |
| `TaskPublish` | tasks, their execution, `/approve`, `/approve_full`, `/reject`, the clone, GitHub, the environment; its properties |
| `TaskReview` | what the agent promises of a review, abstractly |
| `MCTaskPublish` | instances for TLC |
| `TaskPublishProofs` | the theorems about `TaskPublish` |
| `TaskStagingProofs` | the theorems about what `TaskPublish` stages, commits and leaves behind, and that its commands end |
| `AccountSwitch` | the credential transaction of `/codex_login`, the bridges, the lock and its inheritance, `Admission`; its properties |
| `AccountStore` | what the transaction promises, abstractly |
| `AccountSwitchProofs` | the theorems about `AccountSwitch` |
| `VpnRuntime` | the fail-closed gate of public-vpn-node: OpenVPN children and their log readers, devices, routes, nft rules, the start-up of the container, the proxies' sockets and slots; its properties |
| `ServingGate` | what that gate promises the manager and the proxies, abstractly |
| `VpnRuntimeProofs` | the theorems about `VpnRuntime` |
| `VpnManager` | the threads of `vpngate_manager.py` over `is_connecting`, its two locks, `nodes.json`, `ui_auth.json` and the serving process; its properties |
| `MCVpnManager` | its instance for TLC |
| `VpnManagerProofs` | the theorems about `VpnManager` |
| `AcquisitionStore` | the acquisition's side of a source: claims with leases and tokens, the stored package |
| `JobRegistry` | `AcquisitionStore` composed with the registry's jobs, the receiver's streams and acknowledgements, authority; its properties |
| `JobRegistryProofs` | the theorems about `JobRegistry` |
| `AcquisitionVerdict` | what the two databases promise together, abstractly |
| `CaseTask` | a task of the generator: its row, batches, packages, processing runs and processors, the engine's generation |
| `RequestPath` | `CaseTask` composed with ledgers, bridge, application and clock; the properties of both |
| `MCRequestPath` | its instance for TLC |
| `CaseContract` | what the generator promises the owner of a task, abstractly |
| `RequestPathProofs` | the theorems about `RequestPath` and `CaseTask` |
| `CaseContractProofs` | that `RequestPath` implements `CaseContract` |

### Correspondence of TaskPublish to the code

`status`, `approval`, `publishState`, `gitCommit`, `project` are fields of the
task's JSON file, `before` and `after` its snapshots; `live` is `/ops/apps`;
`head`, `index`, `work` are the branch, index and working tree of
`/root/my-ops`; `remote` is main on GitHub. `exec[t]` is the place of the task's
coroutine; `pc`, `command`, `target`, `plan`, `todo`, `backup` are those of the
one command handler and its thread; `lock` is `TASK_LOCK`.

Steps of `publish_task_to_git` in order: `BeginPublish` (checks, backup, mark
staging), `CheckStage` (plan, secret scan, live check, clean check), `CopyFile`
per path, `AddProject`, `Commit` (with `validate_staged_scope`), `RecordCommit`,
`Push`, `Verify`, `MarkPushed`, `MarkApproved`. Each place where the code can
raise has its action: `RefusePublish`, `StageFails` followed by `ResetHard`,
`RestoreBackup` or `RollbackFails`, `PushFails`, `FetchFails`, `VerifyFails`.
`RetryPush` is the retry mode. `/approve_full` takes the same steps with the plan
of `FullPlan`. `/reject` is `BeginReject`, `UndoFile` per path, `UndoFails`,
`MarkRejected`.

One action is one piece of code between two points where something else can
happen: another coroutine (at an await), another process (GitHub, the operator),
or the death of the controller (after each file, Git command or JSON write).
Checks that only read under `TASK_LOCK` are one step with what follows them.

Environment: `Crash` loses coroutines, lock and locals and repairs nothing, as the
restarted bot does; `AskFails` is a reply that cannot be sent; `ForeignPush` is
another clone; `OperatorPull` is `git pull --ff-only` in the idle clean clone,
without which a foreign commit would end all publication; `OperatorEdit` is an
edit of a deployed file.

Abstractions: directories and mode bits (a directory exists iff a file is below
it; the mode is part of the content); the wording of replies; Git objects (a
commit is its author and a number, with the set of its ancestors). Paths that
`.gitignore` names are not tracked when the system starts.

### Correspondence of AccountSwitch to the code

`dir` is what processes see of `auth.json`, `.tg-auth-backup`, `.tg-auth-restore`
and `.tg-login-pending`; a file is a number, two names with the same number are hard
links. `disk` is the set of states that a power loss may leave: operations on names
reach the disk in their order, `Engine.sync` makes all of them durable. `op`, `pc`
and `back` are the bridge that holds `operation.lock`, `cli` the codex processes that
inherited its descriptor, `heard` whether `request()` still waits for it. `login` and
`tasks` are `Admission`, `loginPc` and `exec` the coroutines that take and give back
its slots.

`NothingPending` to `CleanUp` are `recover`, line by line; `EmitCode`, `DeviceEnds`
and `VerifyStage` are `login` before `commit`; `BackupAuth` to `LoginEnds` are
`commit`, with `CommitFails` as its handler. `BridgeFails` is an exception anywhere
else, `BridgeDies` the death of the bridge with or without its codex process,
`OrphanEnds` the end of such a process. `GiveUp` is the end of `request()` while the
bridge lives on, which there is only where the device code cannot be delivered (or not in
time): its handler kills `runuser` only. Its timer does the same, and after that `request()`
goes on reading a pipe that the bridge holds, so it ends with the bridge. `LoginReplies`,
`LoginReplyFails` and `LoginApologises` are `login_flow`.

Abstractions: the content of a credential (a refresh of its tokens by codex is no
new account), `status` calls of the CLI (one step with what follows them), the value
of the quota cut-off and the quota snapshots, `unlink` and `link` of
`.tg-auth-restore` (one step: nothing reads that name in between). A credential file
is written once, up to `MaxCreds`.

### Correspondence of VpnRuntime to the code

`interface`, `owner`, `candidate`, `sockets` are the globals of `vpn_runtime.py`, `state`
its file; `step` is the activation that holds `LOCK` while it runs `ip` and `nft`. A
critical section under `LOCK` is one action; the activation (`SetupRoute`, `OpenRules`,
`Publish`, or `ActivationRaises` at any of them) is one action per command, because
kernel and children go on between them. `child` and `log` are the OpenVPN processes and
the lines they wrote that `reader` has not handed over, which may be old when it does:
`LateLine` is a line of a child that is not the owner (`event`'s first check). `Monitor`
is `monitor`, `GiveUp` and `Eof` are the ends of a reader, `Startup` is
`entrypoint.main`. `links`, `route`, `rules` and `guard` are the kernel's; `Tamper` is an
administrator's command, `Restart` the end of the container.
`phase` and `bound` are the proxy's threads: `Accept` takes a slot, `Open` is
`create_connection` with its `bind_socket`, `Resolved` a DNS query over the tunnel,
`EndSession` gives the slot back. `ingress.py` is a second listener with slots of its
own over the same `create_connection` and `relay`.

Seen as `ServingGate`, `live` are the running children and the gate is open while
`require_interface` would succeed (`GateOpen`), which depends on devices, routes and rules
that anybody may change. `GateSpec` says that only `publish` opens it.

Left out: the unlink of the record and the installation of the rules failing in the same
`revoke`; the age of the record and the reuse of a pid (both make `healthy` stricter).
An exception of `event` makes the reader revoke without looking at the owner, which
costs availability only and is modelled so.

### Correspondence of VpnManager to the code

`connecting`, `proc`, `activeId` are globals, `maint` is `maintenance_lock`, `locked` the
holder of `lock` where it keeps it over a wait (maintenance switches nodes inside it);
any other critical section of `lock` is one action. `th[t]` is a thread: its place, its
job (the collector, the checker's switch, a background switch, a request), and what it
read before it waited: the node, the child it started, the node list.
`Claim` to `Finally` are `connect_node`, `SwitchTo` to `SwitchClears` are
`auto_switch_node`, `MaintainStarts` to `MaintainEnds` are `maintain_valid_nodes` with
`test_multiple_nodes` in `TestAll` and `TestRequested`, `ProxyFails` and `FixedFails` are
the background checker, `AskConnect`, `AskTest` and `AskDisconnect` (then `OffStop`,
`OffClear`) are the requests of the page. A decision and its consequence are two actions
wherever the code looks without the lock: `Fallen` is maintenance finding no OpenVPN
process, `ReviveFixed` and `ReviveSwitch` what it does about it later.

Of the gate only `owner` is kept. Whether the gate of a living owner is open depends on
devices, routes, rules, late lines and the monitor (`VpnRuntime`), so `Require`
(`require_interface` and the latency test after it) and the checker may find it either way;
for an owner that does not live it is never open.

A file that cannot be written, a set of rules that cannot be installed and a configuration
that cannot be saved raise out of the step that does it (`Faults`). `ConnectBreaks` is an
exception inside the `try` of `connect_node`, with what its handler does by the place it
came from (`Handler`), `ClaimBreaks` a `set_state` that fails before the `try`, `StopRaises`
the rules failing in `stop_active_openvpn`; `JobBreaks` and `JobStopRaises` end the job of
the thread through the `finally` of maintenance, and `MaintainBusy` has a `set_state` of its
own. `stuck` is a history variable: the claim of `ClaimBreaks` has left `is_connecting` set,
for the next maintenance to clear.

`stolen` is a history variable: `is_connecting` was cleared, by maintenance or the checker,
under a running connect. Nothing is cut off after it. That a second connect may then begin
and lose the first one's process is finding 5; that the active node may then be missing in
`nodes.json` is excluded from `ActiveIsListed`, which says that this is the only way.
`FlagHeld`, `NobodyIsStuck` and `JobsAdvance` claim the same with and without it.

Servers outside `Nodes` are not followed: `Merge` lists any of the followed candidates, none
of them as well.

Left out: scores, texts and the blacklist of nodes (a node is listed, probed available,
marked active); the pool of test interfaces; the routing mode does not change while
threads run; the chain of background threads that a failing fetch may start without end
is bounded by the idle threads.

### Correspondence of JobRegistry and AcquisitionStore to the code

`cancelled`, `claims`, `stored` are the acquisition's database, `jobs` and `epoch` the
registry's; each commit of either is one action, and `op` is an operation between two of
them (`start_claim`: `StartClaim`, `PortClaim`, `Bind`, `PortFetching`, `Run`;
`schedule_retry`: `PortRetry`, `ScheduleRetry`). `Crash` ends it anywhere; what it leaves
is completed by `RecoverClaim` or `RecoverLost`. `streams` are packages under way to the
receiver, any of them late; `CommitStream` is the receiver's commit under the authority
guard with both re-checks, `ReplayStream` the same package again. `acks` are
acknowledgements of any age. `Event` is the row of the outbox: `ConsumeOutbox` may find it
any number of times. `recovery_plan` is `PlanStop`, `PlanReconcile`, `PlanCommitted`,
`PlanEnded`, `PlanRetry`, and no change when it advises to send again. `Publish` is
`publish` and `mutate_credential`, `Cancel` and `PropagateCancel` the two halves of a
cancel in `ControllerBridge.handle`.

Abstractions: a lease is live or not, the store's and the registry's copy apart; a
deadline has passed or not; a grant is the epoch it was given in; a package is its
digest; `job_attempts` is history. No conflicting receipt is modelled (the port refuses
receipts so far: `RECEIPT_PENDING`), and the finalised batch has one task. After a crash
between `claim_pending` and the port's claim, `recover_claim` may bind a new job to a
claim that an earlier, revoked job of the same worker left live; nothing follows from it.

### Correspondence of CaseTask and RequestPath to the code

`task` is the row of the task with its confirmation and sources, `batches`, `packages`,
`runs`, `staging`, `manifest` are the other tables, each transaction one action. `procs[p]`
is a processor between its transactions: `Claim`, `BeginParse` and `Stage` (the two of
`parse`, the inputs read without the lock in between), `Publish`; it may die anywhere, and
its lease may end under it. `gen` is `Engine.generate` between its two changes.
`Append` to `Cancel` are the operations of `Application._dispatch`, with the engine's
methods they call; `StartReview` to `GenerateFails` the calls of the engine that no
request makes.

`envelopes`, `replay` and `answers` are the gateway's ledger, the identity ledger and the
application's cache; `handlers[h]` is `ControllerBridge.handle` between its transactions.
`Reserve`, `Redeliver`, `Refuse` are the three outcomes of `reserve`. `Handle` is
`Application.handle` with its four ends: the cached answer, the request carried out,
rolled back to its savepoint and answered with a cached error, or `NotRun`, an error that
is not cached because it comes before the transaction or out of it (lines 75-76 and
114-115: an actor that is not the owner, a database that is locked or cannot be written).
`StopJobs` is the registry's stop after a cancel; `Complete` the ledger's record of the
result of this delivery, whatever another one was told (`Ended`; a second record that
differs is refused, and the delivery ends); `Leave` a delivery that is found completed,
whose grant was withdrawn, or that ends with an error outside `Application.handle`.
`Other` is every request that is not followed. `now` goes forward and back, `highWater` is
what `reserve` noted; `Collect` is `gc`. `applied` and the confirmation's `asked` are
history.

Seen as `CaseContract`, a request is fresh while its signed version is the task's, granted
once it was applied and refused once a cached answer says so; it is told what the ledger
would repeat. That it is told "rejected" promises nothing: after an error that is not
cached another delivery, already reserved, may carry it out. A request of which neither
the envelope nor an answer is left is one that nobody asked for.

Abstractions: one task; the user's design is empty or one of two versions; a source was
read or not; texts, files and snapshots are left out. Observed and not reported:
`gc` does not note its clock, so an envelope that was forgotten can be reserved again
once the clock was set back (`docs/PHASE2_STEP2C_B_STEP2_CONTRACT.md:60` says
`AUTH_INVALID`, and that an interrupted request is not run again); the application's cache
then answers, if it has an answer, and `AnswersHold` holds. An error that is not cached is
told as a rejection, although the request may have been or will be carried out
by another delivery (`docs/PROTOCOL_V1.md:72` says that the results of validated requests
are persisted). Nothing in
the repository clears `pending_messages` (the review processor is not written), so a
message blocks generation for good.

## 3. Runs

| run | instance | shows |
|---|---|---|
| `publish_shared` | 2 tasks, 2 projects (a task names either), 3 paths of which one is ignored, 1 content and absence, 2 commits, 1 crash or failed roll back, 1 outside event; symmetric tasks; 3.8 million states | the safety properties and the refinement of `TaskReview` |
| `publish_progress` | 2 tasks, 1 project, an ordinary and a blocked path, an ordinary and a secret content, no faults; 0.3 million states | commands and executions end, refused ones too |
| `publish_resume` | 2 tasks, 1 path | finding: a recorded commit that cannot be resumed |
| `publish_reject` | 2 tasks, 1 path | finding: a rejected task that is committed |
| `account_switch` | 2 tasks, the first credential and two logins, any number of errors, deaths and power losses; 0.3 million states | safety of the switch, the refinement of `AccountStore`, and that the login slot is given back |
| `vpn_runtime` | 2 children that use the same device name, 1 session on 1 slot, 2 devices created per start, 2 unread lines per child, any number of failures, tampering and restarts; 0.6 million states | the safety of the gate, the refinement of `ServingGate`, and that gates and sessions without a living owner end |
| `vpn_manager` | 1 node, 2 threads that take any job, 2 serving children at a time, 1 attempt of a switch, every write may fail, symmetric; 2.3 million states | the flag and the locks are given back, nobody is blocked for good, jobs get nearer to their end, the active node stays listed |
| `vpn_children` | 1 node, 2 threads, 2 serving children, no write fails | finding: an OpenVPN child that nobody will stop |
| `vpn_switch_off` | 1 node, 2 threads | finding: a connect after the user switched off |
| `job_registry` | 2 jobs, 1 source, 2 workers, 2 packages, 2 claims, 2 epochs, 1 package under way; 1.9 million states | the refinement of `AcquisitionVerdict`, the transition table, and the way that a job without a grant has to its end |
| `request_path` | 1 followed request (an append, a finish or a cancel) and any others, 2 handlers, 1 source in 2 batches, 2 processors, 8 versions, 2 claims of a batch, 2 times, symmetric; 1.3 million states | exactly-once answers, fencing, confirmed artifacts, finality of a cancel, the refinement of `CaseContract` |
| `account_reply` | 1 task, 1 login | finding: "the original credential is kept" after a switch |

Properties:

* `ApprovedIsPublished`: an approved task's recorded commit is its own and on
  origin/main.
* `CommittedIsSuccess`: only tasks that ended in success are committed, although a
  failing notification turns a success into a failure while a handler waits.
* `OneUnpushedCommit`: a push publishes one commit, also after crashes between
  commit and record.
* `CleanWhenIdle`: without a crash or failed roll back the clone is clean whenever
  no command holds the lock.
* `CommitIsTheTask`: a commit changes allowed paths of the task's own project to
  the After content only, whatever a crash left in the clone, and no path that the
  command had to publish (`Owed`) is missing.
* `RejectedIsUndone`: at the moment of rejection every changed path is back at its
  Before content.
* `ReviewSpec`: decisions are final and approval follows publication
  (`TaskReview`).
* `NeverStuck`: after any power loss `recover` finds the backup it needs.
* `SwitchedIsDurable`: after the reply of a success no crash brings another account.
* `StoreSpec`: only an account that was confirmed in its place becomes the runner's;
  until the switch is settled there is the old account or the new one (`AccountStore`).
* `AccountFixedDuringExec`: nobody replaces `auth.json` under a living `codex exec`,
  an orphan's included.
* `LoginAlone`, `LoginReleased`: no execution is admitted during a login, and every
  login's slot is given back.
* `SocketsOfTheGate`, `TrafficIsTheOwners`, `HealthyMeansReady`: no bound socket survives a
  revocation; once the owner's log is read what passes goes through the owner's own
  device; the health check believes a gate that is open, not a record that survived it.
* `GateSpec`: the gate opens only for the living owner of the moment, a new owner finds it
  shut, and no device, route or rule that comes back opens it (`ServingGate`).
* `GateCloses`: the monitor closes the gate of a dead owner, and a client whose socket was
  revoked gives its slot back.
* `ActiveIsListed`: the active node is in `nodes.json` while no connect is under way, unless
  `is_connecting` was cleared under one (`stolen`).
* `FlagHeld`: `is_connecting` has somebody who will clear it, but for a claim whose
  `set_state` failed (`stuck`); who holds `maintenance_lock` or `lock` is at a place from
  which it gives it back, after an exception too.
* `JobsAdvance`, `NobodyIsStuck`: each step of a thread brings its job nearer to its end,
  and a thread that is at work can take one, or waits for `lock` and its holder can.
* `CommitStaysConsumable`: an event of the outbox fits its job until it is consumed.
* `VerdictSpec`: a job is pronounced committed only with its package stored, stopped only
  without one, for good (`AcquisitionVerdict`).
* `TableKept`: what happens to a job's record is an edge of the transition table, also where
  an operation goes on after a commit of the other database.
* `LostJobSettles`: a job that lost its grant only goes down, and in each state
  `recovery_plan`, if it is called, has a commit for it.
* `AnswersHold`: a request changes the task once or not at all, its cached answer says which,
  and it is completed only if it did, a cancel only when the jobs are stopped too.
* `PublishedTruth`: what the task says of a source comes from the last claim of the batch
  with its current revision.
* `OutputIsConfirmed`: an artifact contains what was confirmed, nothing was pending, a
  formal one has no gap.
* `CancelledIsFinal`: nothing of a cancelled task changes any more.
* `OneHolder`, `SealedGoesOn`: one processor at most passes the checks for a batch, and a
  sealed batch that is not published has a holder whose next transaction passes, or may be
  claimed anew.
* `ContractSpec`: a request is carried out at most once, on the version its signer saw, and
  called completed only if it was; artifacts are what was confirmed (`CaseContract`).
* `WorkEnds`: every command and every scheduled execution ends.

Bounds and why they are enough: two tasks give every pair of overlaps (same project,
different projects, one waiting for the other); two commits let a task be committed after
another's or after a foreign one, which is what makes a push fail or a verification
differ; one fault followed by a full publication is what crash left-overs need; one
content and absence distinguish added, deleted and unchanged, and the two snapshots of a
task and of its predecessor. In `account_switch` faults are not bounded at all; two logins
let a second switch meet the left-overs of the first, and two tasks are an admitted one
and one that is refused. In `vpn_runtime` two children with one device name are a child
and its successor, the second device a restarted tunnel; the unread lines are an opening
and what follows it. In `vpn_manager` two threads are any two jobs that meet, a second
child is the one of a connect that overtakes another, and the states after a cleared flag
are explored with the others. In `job_registry` a source has a first and a second job,
each with a first and a second claim by the same or another worker, and the epoch changes
once between or under them. In `request_path` one source that is refreshed is in two
batches, a batch is claimed by a holder and its successor, each of which may die, give up
or lose its lease (after which `MaxFence` admits no third); followed requests are signed
below version `MaxFollowed`, and the rest of the history has the versions up to
`MaxVersion`. `publish_shared` has no blocked path and no secret content, so that part of
`CommitIsTheTask` is vacuous there; `publish_progress` has one of each, and the theorem
`CommitFaithful` covers both. Each property fails in the run when one definition is
changed the way a bug would change it (`mutants`). Deadlock is not checked: with all tasks
decided and the bounds used up the system rests.

Fairness of `account_switch`: the coroutine `login_flow` runs when it can, and the bridge goes
on (weak fairness of `LoginFlow` and `Bridge`). The bridge may be assumed to, because each of
its waits has a deadline of its own, after which it kills what it waits for and fails: that of
`capture` (`account_core.py:124`) and that of the device login (line 163). `request()` ends
when its bridge does; its own timer is not enough and nothing is assumed of it, of the user,
or of codex.

Fairness of `vpn_runtime`: an activation goes on, the monitor's thread runs, and `relay`
ends the session of a closed socket.

`vpn_manager`, `job_registry` and `request_path` assume no fairness. The repository has no
scheduler for `recovery_plan` and `Processor.process`, and the one adapter it has answers
every question for a receipt with `RECEIPT_PENDING` (`acquisition_adapter.py:130`), so a job
or a batch need not end here. What holds whoever calls, and whenever, is stated as safety:
each state has a step that leads on, and no step leads back (`NobodyIsStuck` and
`JobsAdvance`, `LostJobSettles`, `SealedGoesOn`). `LostJobSettles` says of a job that may
have sent its package only what a port that answers makes possible.

Fairness of `publish_progress`: the event loop and its threads run what is
ready (weak fairness of the handler's steps); `asyncio.Lock` wakes its waiters in
FIFO order, hence strong fairness of taking the lock; an execution ends because
the Codex call has a time limit. Nothing is assumed of users, GitHub, replies or
crashes. `StageFails`, `PushFails` and the like are steps of the handler, so
"ends" includes ending with an error.

## 4. Findings

1. `publish_resume`: when `git fetch` fails after `git push`
   (`task_manager.py:2066`) the task stays in `publish_state` committed, which the
   retry mode does not accept; the next `/approve` starts anew, finds nothing to
   commit and clears the state. The comment at line 2027 promises that recording the
   commit makes the push resumable. It goes no further: without a crash or failed roll
   back, what is on main and not on GitHub can be resumed (`PushResumable`), so the push
   that was lost to the retry had reached GitHub.
2. `publish_reject`: `/reject` accepts a task whose push failed; its reply
   (`bot.py:1463`) says that nothing was committed or pushed. The commit is in the task's
   own file (`CommitsRecorded`), unless the controller died before it was recorded.
3. `account_reply`: `login_flow` answers every exception with "原凭据保留" (the original
   credential is kept, `account_client.py:108`). The bridge, which `request()` does not
   reach when it gives up, may commit afterwards; a reply of success that cannot be
   sent is followed by this one; and a `sync` that fails after `journal.unlink`
   (`account_core.py:228`) cannot be undone by `recover`.
4. `vpn_switch_off`: what the user disconnected is connected again. `connect_node` sets
   `connection_enabled` (`vpngate_manager.py:1211`) although `auto_switch_node` or
   `maintain_valid_nodes` decided to call it before the disconnect; the acceptance guide
   (`docs/人工Docker验收.md:207`) says that nothing connects by itself afterwards.
5. `vpn_children`: the comment at `vpngate_manager.py:713` says that the lifecycle of OpenVPN
   children is managed by the process. Maintenance and the checker clear `is_connecting`
   without looking whose it is (lines 1318, 1334, 1348, 1410, 1481, 4546). Under a running
   connect that lets a second one begin; the later of the two to reach line 1252
   overwrites `active_openvpn_process`, and the other's child runs on with nobody to stop it.
   With `Faults` the same child is lost without a race: where `update_handshake_status`
   (line 817) cannot write the state file, the handler of `connect_node` stops
   `active_openvpn_process`, which is not yet that child (`ConnectBreaks`).

## 5. Proofs

`TaskPublishProofs` proves, for any set of tasks, projects, paths and contents, any
initial trees and any bounds, under `TreeAssumption` and `TaskAssumption` only:
`TypeCorrect`, `ApprovalSafe`, `CommitSafe`, `PushSafe`, `ReviewImplemented` and
`RejectionComplete`.

The inductive invariant `IInv` is `TypeOK` and five parts:

* `ControlInv`: who holds `TASK_LOCK` at which step, and that a command inside its
  critical section works on a successful, undecided task. Without it a failing
  execution could change the status of a task being published.
* `HistoryInv`: ancestors of `head` and `remote`, commit numbers below the counter,
  at most one commit ahead. A push then adds one commit, and a fast forward keeps
  what was published.
* `AuthorInv`: authors of commits are successful tasks or other clones.
* `RecordInv`: at each step after the commit the recorded commit is the tip of main
  and the task's own, and after a verification it is on origin/main.
* `ApprovedIsPublished` itself.

`Exclusive`, `WhoWrites` and `WhoLeadsTo` say which actions change which variables,
so that each part's step lemma treats only the actions that can disturb it.
`RejectionComplete` uses a second invariant (`UndoInvariance`): during an undo the paths
not in `todo` have their Before content. `ReviewImplemented` maps every step to a step of
`TaskReview` or a stutter, with `published` as the tasks that have a commit on
`remote`.

`TaskStagingProofs` proves, from the same assumptions, `LeavesClean` (`CleanWhenIdle`),
`CommitFaithful` (`CommitIsTheTask`), `PushResumable`, `CommitsRecorded` and, for finitely
many paths, `CommandEnds`. Its invariant `StageInv` adds to `IInv`:

* `SnapInv`: a task's snapshots hold only paths of its own project.
* `PlanInv`: what is planned may be published, and what the index holds of a planned path
  is HEAD's content or the After snapshot's.
* `TipInv`: the tip is the newest commit of its branch, and a task's commit on GitHub
  was made here; so a pull never brings in a task's commit.
* `CleanInv`: while the paths are staged and no fault has happened, `backup` holds the
  project's files and nothing else differs from the last commit. Without it a rollback
  could leave the working tree different from what it was.
* `WholeInv`: what is owed and was not planned is in HEAD already. The plan of
  `/approve_full` leaves out what the index says is published, and this is why it may.

`PushResumable` needs `ExtentInv`: a roll back, and what follows a verified push, find the
tip of main on GitHub; a commit that is ahead, outside the two steps that make and push it,
belongs to a task in `push_failed`. `CommandEnds` is the half of `WorkEnds` that is not
about scheduling: `CommandLeft` counts what the command under way can still do, with one
step for each path that is left to copy or to undo; it is below ten and the number of
paths, no step of a crash, another coroutine, GitHub or the operator raises it, and the
holder of `TASK_LOCK` is always one that is on its way to give it back.

`AccountSwitchProofs` proves, for any finite set of tasks and any `MaxCreds` of at least
one (`SwitchAssumption`): `TypeCorrect`, `RecoveryPossible` (`NeverStuck`),
`SwitchDurable` (`SwitchedIsDurable`), `SwitchAtomic` (`StoreSpec`), `AccountFixed`
(`AccountFixedDuringExec`), `LoginExcludes` (`LoginAlone`) and `AdmissionEnds`. Its `IInv`
is `TypeOK` and:

* `LockInv`: which operation is at which step, that codex exec keeps every other
  bridge out, and that nobody is told of a success while a login runs.
* `StepInv`: what the names say at each step, such as that the journal is there from
  its fsync to the commit, and that `.tg-auth-restore` is the backup before the rename.
* `DiskInv`: the same of everything a power loss may leave: one account while the
  journal is durable (`OldAccount`), the new one alone between the last fsync and the
  reply (`NewAccount`). Without it `SwitchedIsDurable` is not inductive.
* `CountInv`: `tasks` is the number of executions under way, so that zero means none.

The key lemma is `WriteKeeps`: every write of a name but the unlink of the journal in
`commit` leaves `Account(dir)` as it is.

`AdmissionEnds` is the half of `LoginReleased` that is not about scheduling, and says the
same of the slot of a task. `RequestInv`: the slot of a login is taken exactly while its
coroutine is there; who waits for the bridge is the one it works for, and `request()` still
listens. No step sends a coroutine back (`LoginLeft`, `ExecLeft`), and the bridge, which ends
with its own deadlines and not with the timer of `request()`, takes at
most 24 (`BridgeLeft`), although `commit` calls `recover` when it fails: after that it can
only give up.

`VpnRuntimeProofs` proves, for any children, device names and sessions (`RuntimeAssumption`):
`TypeCorrect`, `SocketsClosed` (`SocketsOfTheGate`), `HealthTold` (`HealthyMeansReady`),
`OwnersTraffic` (`TrafficIsTheOwners`), `GateKept` (`GateSpec`) and `DeadGateEnds`. Its
`IInv` is `TypeOK` and:

* `StepInv`: while an activation holds `LOCK` the gate is closed.
* `SockInv`: the registered sockets are the bound ones, and all have the one gate.
* `DownInv`, `RecordInv`: before `entrypoint` has reset the record nothing runs; then the
  record is this gate's, or the gate is closed and the rules name no device.
* `IndexInv`: no device has an index that is still to be given.
* `LogInv`, `OwnInv`: what unread lines say of the devices of their child, and that a gate
  or nomination is of a device the owner opened unless its log says otherwise. Without
  them a late line could nominate the successor's device.

For `GateKept` the question is not who shuts the gate but who opens it: `Usable` reads
links, routes and rules that almost every action changes. Each step but `Publish` is shown
to leave a gate that is not usable so (`Closing`, `Narrowing`, `Losing`): a new device never
has the index of the gate (`IndexInv`), and routes and rules are installed only by an
activation, during which there is no gate (`StepInv`). `StartedInv` adds that an owner has
been started, so a process that starts is not one the gate already belongs to.

`DeadGateEnds` is the half of `GateCloses` that is not about scheduling: an open gate leaves
`LOCK` free for the monitor (`OpenIsFree`), and that of a dead owner only closes; its record
is not renewed and no socket is bound to it meanwhile (`DeadStaysDead`). A client whose
socket was revoked gets no other one (`CutStaysCut`).

`VpnManagerProofs` proves, for any servers, threads, children and attempts, and with or
without `Faults` (`ManagerAssumption`): `TypeCorrect`, `ActiveListed` (`ActiveIsListed`),
`FlagReleased` (`FlagHeld`) and `EveryJobEnds` (`JobsAdvance`). Its `IInv` is `TypeOK`,
`FlagHeld` and:

* `LocalInv`: what a thread's own variables say of its place, such as that its child is
  in its hands only while it waits or adopts, and that its node is in the list it read.
* `MaintInv`: a thread inside maintenance, also while it connects or switches on its
  behalf, holds `maintenance_lock`; without it setting the flag again after a switch
  could leave it set for ever.
* `OneInv`: a connect under way has the flag, and is the only one.
* `TunnelInv`: between `stop_active_openvpn` and its success a connect finds no active
  process and no active node. Without it writing back an old list could drop the active node.
* `ListInv`: the active node is listed, or a connect is about to list or to clear it.

The last three serve `ActiveIsListed` alone and claim nothing once `stolen` is set, as it
does; `FlagHeld` and `JobsAdvance` rest on the first two and hold after it as well. `AllMove`
says once for all actions what a step makes of its thread (`AbandonMoves`: an exception that
ends a job), `WhoTunnel`, `WhoNodes` and `WhoFlags` who changes what is shared; the step
lemmas use only these.

In `EveryJobEnds`, `StepsLeft` counts what a thread can still do at most: `ConnectLeft` within
`connect_node`, `SwitchLeft` with the attempts `auto_switch_node` has left, and above them the
stages of `maintain_valid_nodes`. It is a natural number up to `60 * MaxTries + 72`, every
step of the thread makes it smaller, and no step of another thread touches it; so a thread
that takes steps at all is idle after that many. The proof needs `LocalInv` to know where a
call returns to. `FlagHeld`, then, says of each flag and lock that its holder is such a thread.

`JobRegistryProofs` proves, for any jobs, sources, workers and packages
(`StoreAssumption`, `RegistryAssumption`): `TypeCorrect`, `CommitConsumable`
(`CommitStaysConsumable`), `VerdictImplemented` (`VerdictSpec`), `OneJobAtWork`,
`TransitionsLegal` (`TableKept`), `SealsMatch` and `LostJobsSettle` (`LostJobSettles`).
Its `IInv` is `TypeOK`, `CommitStaysConsumable` and:

* `OpInv`: the state of the job whose operation holds the guard; without it a `Bind` or a
  `Run` after a commit could move a job that has been submitted.
* `AckInv`: an acknowledgement, of any age, is of a package that is stored.

The argument: every step that changes a job is an `Effect` of one of four kinds (it was not
submitted yet and is not committed now; it keeps what the row names and goes on
reconciling; it is committed and has a row; it ends and has no receipt), and only
`CommitStream` changes the store. `ConsumableStep` and `VerdictStep` need no other fact
about the actions.

`TransitionsLegal` is about the operations that are in two halves: `Bind` and `Run` follow a
commit of the acquisition's database and move the job without looking at its state again.
`Moves` says what any step makes of a job's record, and with `OpInv` each of these moves is
an edge of the table, so `_transition` cannot raise there. `OneJobAtWork` and `SealsMatch`
follow from the same description and from one of the claims.

`LostJobsSettle` is about jobs that are cancelled, late or of an older policy. With
`EpochInv` (no job is of a policy that is still to come) such a job stays so; `SettleLeft`
then orders the states by what is still possible, and `LostIsAnswered` shows that in each of
them `recovery_plan` has a commit to make, whatever it finds in the spool, once there is an
answer for the receipt. A job with a grant may be tried again as often as its bound allows,
and then waits for whoever calls; no claim is made of that.

`RequestPathProofs` proves, for any sources, batches, processors, requests and deliveries
(`CaseAssumption`, `RequestAssumption`): `TypeCorrect`, `AnswersCorrect` (`AnswersHold`),
`TruthPublished` (`PublishedTruth`), `OutputConfirmed` (`OutputIsConfirmed`),
`CancelFinal` (`CancelledIsFinal`), `ProcessingFenced` (`OneHolder`, `SealedGoesOn`) and
`ProcessingAdvances`. Its `IInv` has two halves that share only the task's
version. `CaseInv`, kept by every step of `CaseTask` (`CaseStep`), is its type, the two
invariants of it and:

* `ConfInv`: a confirmation is of the task's present contents. An edit withdraws it; every
  other step leaves the contents alone. Without it generation could be asked for one
  content and render another.
* `SourceInv`, `ListedInv`: a source is in its batch, and a batch that is not done is the
  current batch of all its sources. `refresh_notion_source` keeps this only because it is
  refused while anything is pending; it is why a publication never overwrites the status
  of a source that has moved on.
* `BatchInv`, `ProcInv`: nothing is claimed before its batch is finalized, so the sources
  of a batch at work no longer change.
* `StageInv`, `DoneInv`: what is staged or published covers exactly the batch's sources,
  what is published has the fence of its run, and nothing is staged for a cancelled task.

`PathInv` is the type of the ledgers, `AnswersHold`, `HandlerInv` (a delivery that
was told of a success has it in the cache, and has stopped the jobs if it says so; of one
that was told of an error nothing is known) and `EnvelopeInv` (only what was
signed is delivered). `PathIsCase` shows that each step of the path is a step of the task
or leaves it alone.

`ProcessingFenced` and `ProcessingAdvances` are about processors that die, give up and lose
their lease, also at the last claim that `MaxFence` admits. They add `ClaimInv`: no two
processors have the same token for a batch, and none has one from the future (`FenceInv`);
whoever passes the check finds the status and the staged result that its own earlier
transactions left (`HolderInv`), so `publish` does not raise for a rightful holder.

`CaseContractProofs` proves `ContractKept` (`ContractSpec`) from `IInv`, and `VersionInv`: no
envelope was signed on a version that the task has not reached. Every change of the task
raises its version, so none of the older requests is fresh after it; that is why the
second delivery of a request, or a request that another one overtook, cannot change the
task. The proof goes by tables: what each transaction makes of the task, of the ledgers and
of the cached answers is one lemma, and a step of `RequestPath` is mapped from these.

Model-checked only: `WorkEnds`, `LoginReleased` and `GateCloses`, which are liveness under
fairness, and `NobodyIsStuck`, which is about ENABLED: both are out of the prover's reach.
What can be said of them without is proved: each step leads on, nothing leads back, and who
waits, waits for somebody (`CommandEnds`, `AdmissionEnds`, `DeadGateEnds`, `EveryJobEnds`,
`FlagReleased`). Every other property of a passing run is a theorem. The theorems that state
no property of a run (`PushResumable`, `CommitsRecorded`, `CommandEnds`, `AdmissionEnds`,
`DeadGateEnds`, `OneJobAtWork`, `SealsMatch`, `ProcessingAdvances`) held on the instances of
the runs before they were proved.

## 6. Not modelled, and the plan

Modelled: the parts of section 1 that keep state and meet each other. Not modelled, and
why:

* the quota monitor (one periodic job that writes one file), installation and host set-up
  scripts (they run once);
* the page, login sessions and scripts of public-vpn-node: input and output around the
  manager; the 2900 lines of HTML and JavaScript in `vpngate_manager.py` are text;
* parsing, review and Excel export of the generator: text in, text out, within reach of
  unit tests;
* transport framing, path checks and schema migrations.

What is left to do, most important first:

1. Rejection with directories, ignored files and changes of type, which `ProjectTree`
   abstracts.
2. The pool of test interfaces and changes of the routing mode in `VpnManager`;
   `create_or_get_active` and several tasks in `RequestPath`.
