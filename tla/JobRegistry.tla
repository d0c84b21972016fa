------------------------------- MODULE JobRegistry -----------------------------
(*****************************************************************************)
(* The acquisition jobs of tg-testcase-generator: job_registry.py over its own *)
(* database, composed with the acquisition database (AcquisitionStore) and     *)
(* with the receiver that seals packages.  Every operation holds the shared    *)
(* authorization guard, but the two databases commit separately and neither    *)
(* knows what happened when the process dies between two commits.  A package   *)
(* streams in without the guard, for as long as it likes; its acknowledgement  *)
(* may come late, twice or never.                                              *)
(*                                                                             *)
(* op is the operation that holds the guard between two of its commits.        *)
(*****************************************************************************)
EXTENDS AcquisitionStore

CONSTANTS
    MaxEpoch,    \* bound: policies published
    MaxStreams   \* bound: submissions that arrive at the same time

ASSUME RegistryAssumption ==
    /\ MaxEpoch \in Nat \ {0} /\ MaxStreams \in Nat
    /\ None \notin [kind : STRING, job : Jobs] \cup [job : Jobs, pkg : Packages]
    /\ None \notin {"cancelled", "revoked", "expired"}

VARIABLES
    epoch,       \* current_policy.epoch
    jobs,        \* the jobs table; state "none" before a job is registered
    op,          \* guard.hold: None, or the operation and its job
    streams,     \* submissions whose HELLO was accepted
    acks         \* ACKs that were sent

vars == <<storeVars, epoch, jobs, op, streams, acks>>

Stopped  == {"cancelled", "revoked", "expired", "failed"}
Terminal == {"committed"} \cup Stopped

Edges ==
    [none          |-> {},
     registered    |-> {"claim_pending"} \cup Stopped,
     claim_pending |-> {"claimed", "reconciling"} \cup Stopped,
     claimed       |-> {"fetching", "retry_wait", "reconciling"} \cup Stopped,
     fetching      |-> {"prepared", "retry_wait", "reconciling"} \cup Stopped,
     retry_wait    |-> {"claim_pending", "reconciling"} \cup Stopped,
     prepared      |-> {"submitting", "reconciling"} \cup Stopped,
     submitting    |-> {"committed", "reconciling"},
     reconciling   |-> {"committed", "submitting", "retry_wait"} \cup Stopped,
     committed     |-> {}, cancelled |-> {}, revoked |-> {}, expired |-> {},
     failed        |-> {}]

\* late: the deadline is past.  live: job.lease_until is not.  cancel: cancel_state
\* is not none; the other last_errors are never set without ending the job.
JobRecords ==
    [state : DOMAIN Edges, src : Sources \cup {None}, epoch : Nat,
     worker : Workers \cup {None}, fence : Nat, live : BOOLEAN, late : BOOLEAN,
     cancel : BOOLEAN, pkg : Packages \cup {None}, receipt : Packages \cup {None}]

NoJob ==
    [state |-> "none", src |-> None, epoch |-> 0, worker |-> None, fence |-> 0,
     live |-> FALSE, late |-> FALSE, cancel |-> FALSE, pkg |-> None, receipt |-> None]

\* Type correctness of registry, receiver and acquisition store.
TypeOK ==
    /\ StoreTypeOK
    /\ epoch \in 1 .. MaxEpoch
    /\ jobs \in [Jobs -> JobRecords]
    /\ op \in [kind : {"claim", "bind", "fetch", "run", "retry"}, job : Jobs] \cup {None}
    /\ streams \subseteq [job : Jobs, pkg : Packages, fence : Nat, worker : Workers \cup {None}]
    /\ acks \subseteq [job : Jobs, pkg : Packages]
    /\ \A j \in Jobs : jobs[j].state # "none" => jobs[j].src \in Sources

Init ==
    /\ StoreInit
    /\ epoch = 1 /\ op = None /\ streams = {} /\ acks = {}
    /\ jobs = [j \in Jobs |-> NoJob]

-------------------------------------------------------------------------------
(* Operators.                                                                 *)

Free == op = None
At(j, kind) == op # None /\ op.job = j /\ op.kind = kind
Begin(j, kind) == op' = [kind |-> kind, job |-> j]
Continue(kind) == op' = [op EXCEPT !.kind = kind]
Done == op' = None

Save(j, job) == jobs' = [jobs EXCEPT ![j] = job]

\* _transition, the change of state alone.
Go(j, target) == target \in Edges[jobs[j].state]
To(j, target) == [jobs[j] EXCEPT !.state = target]

Claim(j) == claims[jobs[j].src]

Revoked(j) == jobs[j].epoch # epoch

\* check_job_authorization.
Authorized_AnyPolicy(j) ==    \* mutant: the policy of now is not asked
    /\ ~jobs[j].cancel /\ ~jobs[j].late
    /\ jobs[j].state \notin Stopped \cup {"none"}
Authorized(j) ==
    /\ ~Revoked(j) /\ ~jobs[j].cancel /\ ~jobs[j].late
    /\ jobs[j].state \notin Stopped \cup {"none"}

\* _check_claim: the job's own claim, still live.
Holds(j) ==
    /\ Claim(j).state # "none" /\ Claim(j).live
    /\ Claim(j).worker = jobs[j].worker /\ Claim(j).fence = jobs[j].fence

-------------------------------------------------------------------------------
(* Registration, authority, time.                                             *)

Fresh(j, s) ==
    [NoJob EXCEPT !.state = "registered", !.src = s, !.epoch = epoch]

\* register() makes a job; with a known semantic key it returns the old one.
Register(j, s) ==
    /\ Free /\ jobs[j].state = "none" /\ Open(s)
    /\ \A k \in Jobs : jobs[k].src = s => jobs[k].epoch # epoch
    /\ \A k \in Jobs : jobs[k].src = s => jobs[k].state \in Terminal
    /\ Save(j, Fresh(j, s))
    /\ UNCHANGED <<storeVars, epoch, op, streams, acks>>

\* publish() and mutate_credential(): each makes every older grant stale.
Publish ==
    /\ Free /\ epoch < MaxEpoch
    /\ epoch' = epoch + 1
    /\ UNCHANGED <<storeVars, jobs, op, streams, acks>>

\* ControllerBridge.handle for cancel: the acquisition store first ...
Cancel ==
    /\ Free /\ CancelTask
    /\ UNCHANGED <<epoch, jobs, op, streams, acks>>

\* Time: a lease expires in the store, or as the registry knows it (the two are
\* written apart), or the deadline passes, and the lease of the job with it.
LeaseEnds(s) == ExpireLease(s) /\ UNCHANGED <<epoch, jobs, op, streams, acks>>

KnownLeaseEnds(j) ==
    /\ jobs[j].live /\ Save(j, [jobs[j] EXCEPT !.live = FALSE])
    /\ UNCHANGED <<storeVars, epoch, op, streams, acks>>

DeadlinePasses(j) ==
    /\ jobs[j].state # "none" /\ ~jobs[j].late
    /\ Save(j, [jobs[j] EXCEPT !.late = TRUE, !.live = FALSE])
    /\ claims' = [claims EXCEPT ![jobs[j].src].live = @ /\ Claim(j).fence # jobs[j].fence]
    /\ UNCHANGED <<cancelled, stored, epoch, op, streams, acks>>

-------------------------------------------------------------------------------
(* A claim: intent, acquisition.claim, binding, fetching; each one durable.    *)

StartClaim(j, w) ==
    /\ Free /\ Authorized(j)
    /\ jobs[j].state \in {"registered", "retry_wait"}
    /\ Open(jobs[j].src)
    /\ jobs[j].state = "retry_wait" => ~Live(jobs[j].src)
    /\ Save(j, [To(j, "claim_pending") EXCEPT !.worker = w])
    /\ Begin(j, "claim")
    /\ UNCHANGED <<storeVars, epoch, streams, acks>>

PortClaim(j) ==
    /\ At(j, "claim") /\ Claimable(jobs[j].src)
    /\ TakeClaim(jobs[j].src, jobs[j].worker)
    /\ Continue("bind")
    /\ UNCHANGED <<cancelled, stored, epoch, jobs, streams, acks>>

\* acquisition.claim returns None.
ClaimRefused(j) ==
    /\ At(j, "claim") /\ ~Claimable(jobs[j].src)
    /\ Save(j, To(j, "reconciling")) /\ Done
    /\ UNCHANGED <<storeVars, epoch, streams, acks>>

\* _bind_claim: a claim the job has not had yet.
Bindable(j) ==
    /\ Claim(j).worker = jobs[j].worker /\ Claim(j).fence > jobs[j].fence
    /\ Claim(j).state \in {"claimed", "fetching"}

Bind(j) ==
    /\ At(j, "bind") /\ Bindable(j)
    /\ Save(j, [To(j, "claimed") EXCEPT !.fence = Claim(j).fence, !.live = TRUE])
    /\ Continue(IF Claim(j).state = "claimed" THEN "fetch" ELSE "run")
    /\ UNCHANGED <<storeVars, epoch, streams, acks>>

\* acquisition.transition(claim, fetching).
PortFetching(j) ==
    /\ At(j, "fetch") /\ MoveClaim(jobs[j].src, {"claimed"}, "fetching")
    /\ Continue("run")
    /\ UNCHANGED <<cancelled, stored, epoch, jobs, streams, acks>>

Run(j) ==
    /\ At(j, "run")
    /\ Save(j, To(j, "fetching")) /\ Done
    /\ UNCHANGED <<storeVars, epoch, streams, acks>>

\* recover_claim: what a crash left of a claim is completed, or reconciled.
RecoverClaim(j) ==
    /\ Free /\ Authorized(j) /\ Open(jobs[j].src)
    /\ Claim(j).worker = jobs[j].worker /\ Live(jobs[j].src)
    /\ Claim(j).state \in {"claimed", "fetching"}
    /\ \/ jobs[j].state = "claim_pending" /\ Bindable(j) /\ Begin(j, "bind")
       \/ /\ jobs[j].state = "claimed" /\ Claim(j).fence = jobs[j].fence
          /\ Begin(j, IF Claim(j).state = "claimed" THEN "fetch" ELSE "run")
    /\ UNCHANGED <<storeVars, epoch, jobs, streams, acks>>

RecoverLost(j) ==
    /\ Free /\ Authorized(j) /\ Open(jobs[j].src)
    /\ jobs[j].state \in {"claim_pending", "claimed"}
    /\ ~ (/\ Claim(j).worker = jobs[j].worker /\ Live(jobs[j].src)
          /\ Claim(j).state \in {"claimed", "fetching"})
    /\ Save(j, To(j, "reconciling"))
    /\ UNCHANGED <<storeVars, epoch, op, streams, acks>>

\* An error of the port ends the operation, and so does a crash.
Crash == ~Free /\ Done /\ UNCHANGED <<storeVars, epoch, jobs, streams, acks>>

-------------------------------------------------------------------------------
(* Heartbeat, retry and pin.                                                  *)

\* heartbeat: the port's renewal leaves a live claim live, the registry follows.
Heartbeat(j) ==
    /\ Free /\ Authorized(j) /\ Holds(j) /\ Open(jobs[j].src) /\ ~jobs[j].live
    /\ jobs[j].state \in {"claimed", "fetching", "prepared", "submitting"}
    /\ Claim(j).state \in {"claimed", "fetching"}
    /\ Save(j, [jobs[j] EXCEPT !.live = TRUE])
    /\ UNCHANGED <<storeVars, epoch, op, streams, acks>>

\* schedule_retry: a fetching claim is given up, a claimed one is waited for.
\* retry_at only puts the next claim off.
PortRetry(j) ==
    /\ Free /\ Authorized(j) /\ Holds(j) /\ jobs[j].state \in {"claimed", "fetching"}
    /\ MoveClaim(jobs[j].src, {"fetching"}, "retry_wait")
    /\ Begin(j, "retry")
    /\ UNCHANGED <<cancelled, stored, epoch, jobs, streams, acks>>

ScheduleRetry(j) ==
    /\ At(j, "retry")
    /\ Save(j, To(j, "retry_wait")) /\ Done
    /\ UNCHANGED <<storeVars, epoch, streams, acks>>

WaitForLease(j) ==
    /\ Free /\ Authorized(j) /\ Holds(j) /\ Claim(j).state = "claimed"
    /\ jobs[j].state = "claimed"
    /\ Save(j, To(j, "retry_wait"))
    /\ UNCHANGED <<storeVars, epoch, op, streams, acks>>

\* pin(): a package for good; a retry must bring the same one again.
Pin(j, p) ==
    /\ Free /\ Authorized(j) /\ jobs[j].state = "fetching"
    /\ \/ jobs[j].pkg = p
       \/ jobs[j].pkg = None /\ \A k \in Jobs : jobs[k].pkg # p
    /\ Save(j, [To(j, "prepared") EXCEPT !.pkg = p])
    /\ UNCHANGED <<storeVars, epoch, op, streams, acks>>

-------------------------------------------------------------------------------
(* Submission: what the sender records, and what the receiver does meanwhile.  *)

BeginSubmit(j) ==
    /\ Free /\ Authorized(j) /\ Holds(j) /\ Claim(j).state \in {"fetching", "sealed"}
    /\ jobs[j].pkg # None /\ Go(j, "submitting")
    /\ Save(j, To(j, "submitting"))
    /\ UNCHANGED <<storeVars, epoch, op, streams, acks>>

Uncertain(j) ==
    /\ Free /\ Go(j, "reconciling")
    /\ Save(j, To(j, "reconciling"))
    /\ UNCHANGED <<storeVars, epoch, op, streams, acks>>

\* receive() up to the package: receiver_binding, HELLO and _check.
OpenStream(j, p) ==
    /\ Free /\ Authorized(j) /\ Cardinality(streams) < MaxStreams
    /\ Claim(j).state \in {"fetching", "sealed"} /\ Claim(j).fence = jobs[j].fence
    /\ Live(jobs[j].src) /\ ~cancelled
    /\ streams' = streams \cup {[job |-> j, pkg |-> p, fence |-> Claim(j).fence,
                                 worker |-> Claim(j).worker]}
    /\ UNCHANGED <<storeVars, epoch, jobs, op, acks>>

\* _CommitBoundary: before and finish, under the guard until SQLite's COMMIT.
Acceptable_AnyState(m) ==    \* mutant: also a job that went back to retry_wait
    LET j == m.job
    IN  /\ Authorized(j) /\ ~cancelled /\ jobs[j].pkg = m.pkg
        /\ Claim(j).fence = jobs[j].fence /\ m.fence = jobs[j].fence
        /\ Claim(j).worker = jobs[j].worker /\ m.worker = jobs[j].worker
        /\ Live(jobs[j].src) /\ jobs[j].live
Acceptable(m) ==
    LET j == m.job
    IN  /\ Authorized(j) /\ ~cancelled /\ jobs[j].pkg = m.pkg
        /\ jobs[j].state \in {"submitting", "reconciling", "committed"}
        /\ Claim(j).fence = jobs[j].fence /\ m.fence = jobs[j].fence
        /\ Claim(j).worker = jobs[j].worker /\ m.worker = jobs[j].worker
        /\ Live(jobs[j].src) /\ jobs[j].live

Row(j) == [job |-> j, pkg |-> jobs[j].pkg, fence |-> jobs[j].fence, epoch |-> jobs[j].epoch]

Acknowledge(m) == acks' = acks \cup {[job |-> m.job, pkg |-> m.pkg]}

CommitStream(m) ==
    /\ Free /\ Acceptable(m)
    /\ jobs[m.job].state # "committed"
    /\ Claim(m.job).state = "fetching" /\ stored[jobs[m.job].src] = None
    /\ StorePackage(jobs[m.job].src, Row(m.job))
    /\ streams' = streams \ {m} /\ Acknowledge(m)
    /\ UNCHANGED <<cancelled, epoch, jobs, op>>

\* The same package again: boundary.before answers with the first receipt.
ReplayStream(m) ==
    /\ Free /\ Acceptable(m)
    /\ Claim(m.job).state = "sealed" /\ stored[jobs[m.job].src] = Row(m.job)
    /\ streams' = streams \ {m} /\ Acknowledge(m)
    /\ UNCHANGED <<storeVars, epoch, jobs, op>>

\* ERROR, or the connection ends.
DropStream(m) ==
    /\ streams' = streams \ {m}
    /\ UNCHANGED <<storeVars, epoch, jobs, op, acks>>

Known(j, p) == [To(j, "committed") EXCEPT !.receipt = p]

\* accept_ack, for an ACK of any age.
AcceptAck(a) ==
    /\ Free /\ Go(a.job, "committed") /\ jobs[a.job].pkg = a.pkg
    /\ Save(a.job, Known(a.job, a.pkg))
    /\ UNCHANGED <<storeVars, epoch, op, streams, acks>>

\* consume_outbox: every field of the event is the job's, or it is refused.
Event(j) == stored[jobs[j].src]
Matches(j) == Event(j) # None /\ Event(j) = Row(j)

ConsumeOutbox(j) ==
    /\ Free /\ jobs[j].state # "none" /\ Matches(j) /\ Go(j, "committed")
    /\ Save(j, Known(j, jobs[j].pkg))
    /\ UNCHANGED <<storeVars, epoch, op, streams, acks>>

-------------------------------------------------------------------------------
(* Stop and recovery.                                                         *)

\* stop(): what may have been submitted has to be reconciled before it ends.
EndState_Now(j, target) == target    \* mutant: ends at once
EndState(j, target) ==
    IF jobs[j].state \in {"submitting", "reconciling"} THEN "reconciling" ELSE target

Stop_Unguarded(j, target) ==    \* mutant: does not wait for the operation under way
    /\ jobs[j].state \notin Terminal \cup {"none"}
    /\ Save(j, [To(j, EndState(j, target)) EXCEPT !.cancel = @ \/ target = "cancelled"])
    /\ UNCHANGED <<storeVars, epoch, op, streams, acks>>
Stop(j, target) ==
    /\ Free /\ jobs[j].state \notin Terminal \cup {"none"}
    /\ Save(j, [To(j, EndState(j, target)) EXCEPT !.cancel = @ \/ target = "cancelled"])
    /\ UNCHANGED <<storeVars, epoch, op, streams, acks>>

\* ... then the registry's jobs, by the same request or by its retry.
PropagateCancel(j) == cancelled /\ Stop(j, "cancelled")

\* Why a job loses its grant.
Reason(j) ==
    IF jobs[j].cancel THEN "cancelled"
    ELSE IF Revoked(j) THEN "revoked" ELSE IF jobs[j].late THEN "expired" ELSE None

\* recovery_plan for a job that has nothing to reconcile and lost its grant.
MustStop(j) ==
    jobs[j].state \in {"registered", "retry_wait", "claim_pending", "claimed"} /\ ~Authorized(j)

PlanStop(j) == MustStop(j) /\ Stop(j, Reason(j))

\* Its first commit otherwise: nothing is sent while the job reconciles.
MustReconcile_Submitted(j) ==    \* mutant: trusts the worker with its pinned spool
    jobs[j].state \in {"fetching", "submitting"}
MustReconcile(j) == jobs[j].state \in {"fetching", "prepared", "submitting"}

PlanReconcile(j) ==
    /\ Free /\ MustReconcile(j)
    /\ Save(j, To(j, "reconciling"))
    /\ UNCHANGED <<storeVars, epoch, op, streams, acks>>

\* port.receipt, when it is neither pending nor fails: the row, or its absence. (The
\* repository's own adapter fails every time; then a job waits as it reconciles.)
ReceiptOf(j) == IF Event(j) # None /\ Event(j).job = j THEN Event(j).pkg ELSE None

FoundCommitted(j) ==
    /\ jobs[j].state = "reconciling"
    /\ ReceiptOf(j) # None /\ ReceiptOf(j) = jobs[j].pkg

PlanCommitted(j) ==
    /\ Free /\ FoundCommitted(j)
    /\ Save(j, Known(j, jobs[j].pkg))
    /\ UNCHANGED <<storeVars, epoch, op, streams, acks>>

\* The state a job without a package ends in, or None; spool: the spool is there.
Verdict(j, spool) ==
    IF Reason(j) = None /\ jobs[j].pkg # None /\ ~spool THEN "failed" ELSE Reason(j)

PlanEnded_AnyTarget(j, spool) ==    \* mutant: also without a reason to end
    /\ Free /\ jobs[j].state = "reconciling" /\ ReceiptOf(j) = None
    /\ Save(j, To(j, Verdict(j, spool)))
    /\ UNCHANGED <<storeVars, epoch, op, streams, acks>>
FoundNothing(j, spool) ==
    jobs[j].state = "reconciling" /\ ReceiptOf(j) = None /\ Verdict(j, spool) # None

PlanEnded(j, spool) ==
    /\ Free /\ FoundNothing(j, spool)
    /\ Save(j, To(j, Verdict(j, spool)))
    /\ UNCHANGED <<storeVars, epoch, op, streams, acks>>

\* With a pin and a live claim the advice is resend_same_spool: no change.
MayResend(j) == jobs[j].pkg # None /\ Holds(j) /\ Claim(j).state \in {"fetching", "sealed"}

PlanRetry(j) ==
    /\ Free /\ jobs[j].state = "reconciling" /\ ReceiptOf(j) = None
    /\ Verdict(j, TRUE) = None /\ ~MayResend(j)
    /\ Save(j, To(j, "retry_wait"))
    /\ UNCHANGED <<storeVars, epoch, op, streams, acks>>

-------------------------------------------------------------------------------
Claiming(j) ==
    \/ \E w \in Workers : StartClaim(j, w)
    \/ PortClaim(j) \/ ClaimRefused(j) \/ Bind(j) \/ PortFetching(j) \/ Run(j)
    \/ RecoverClaim(j) \/ RecoverLost(j)

Working(j) ==
    \/ Heartbeat(j) \/ PortRetry(j) \/ ScheduleRetry(j) \/ WaitForLease(j)
    \/ \E p \in Packages : Pin(j, p) \/ OpenStream(j, p)
    \/ BeginSubmit(j) \/ Uncertain(j) \/ ConsumeOutbox(j)

Recovering(j) ==
    \/ PropagateCancel(j) \/ PlanStop(j) \/ PlanReconcile(j) \/ PlanCommitted(j)
    \/ \E spool \in BOOLEAN : PlanEnded(j, spool)
    \/ PlanRetry(j)

Next ==
    \/ \E j \in Jobs, s \in Sources : Register(j, s)
    \/ Publish \/ Cancel \/ Crash
    \/ \E s \in Sources : LeaseEnds(s)
    \/ \E j \in Jobs : KnownLeaseEnds(j) \/ DeadlinePasses(j)
    \/ \E j \in Jobs : Claiming(j) \/ Working(j) \/ Recovering(j)
    \/ \E m \in streams : CommitStream(m) \/ ReplayStream(m) \/ DropStream(m)
    \/ \E a \in acks : AcceptAck(a)

Spec == Init /\ [][Next]_vars

-------------------------------------------------------------------------------
(* Properties.                                                                *)

\* Once the receiver has committed a package, the event in its outbox stays
\* consumable until the registry knows: the job still has the package, the
\* attempt and the policy that the event names, and a state in which
\* consume_outbox and recovery_plan can only find it committed.  (consume_outbox
\* refuses an event with one field off, and then nobody ever learns of it.)
CommitStaysConsumable ==
    \A s \in Sources : stored[s] # None =>
        LET j == stored[s].job
        IN  /\ jobs[j].src = s /\ stored[s] = Row(j)
            /\ jobs[j].state \in {"submitting", "reconciling", "committed"}

\* The two databases keep the promise of AcquisitionVerdict across crashes, late
\* and repeated ACKs and events, expired leases, cancellation and revocation.
VerdictOf(j) ==
    CASE jobs[j].state = "committed" -> "committed"
      [] jobs[j].state \in Stopped -> "stopped"
      [] OTHER -> "open"

Kept == [s \in Sources |-> IF stored[s] = None THEN None
                           ELSE [job |-> stored[s].job, pkg |-> stored[s].pkg]]

Abstract == INSTANCE AcquisitionVerdict
                WITH kept <- Kept, verdict <- [j \in Jobs |-> VerdictOf(j)]
VerdictSpec == Abstract!Spec

\* What a step may do to the record of a job.
Transition(j) ==
    /\ \/ jobs'[j].state = jobs[j].state
       \/ jobs'[j].state \in Edges[jobs[j].state]
       \/ jobs[j].state = "none" /\ jobs'[j].state = "registered"
    /\ jobs[j].state # "none" =>
          /\ jobs'[j].src = jobs[j].src /\ jobs'[j].epoch = jobs[j].epoch
          /\ jobs'[j].fence >= jobs[j].fence
          /\ jobs[j].pkg # None => jobs'[j].pkg = jobs[j].pkg

\* A job's record changes along the edges of the table alone, also where an operation
\* goes on after a commit of the other database and does not look at the state again:
\* _transition never raises there.  The attempt never gets older; source, policy and
\* pinned package stay for good (EDGES, _transition, _bind_claim, pin).
TableKept == [][\A j \in Jobs : Transition(j)]_vars

\* A job that lost its grant, because the deadline passed, the task was cancelled or a
\* newer policy is in force, has no way but down: it never gets a grant again, each change
\* of its state leaves it fewer, and in no state is recovery_plan without a commit for it,
\* once the port answers for the package it may have sent (recovery_plan, stop,
\* check_job_authorization).
Lost(j) == jobs[j].state # "none" /\ (jobs[j].cancel \/ Revoked(j) \/ jobs[j].late)

Underway(j) == jobs[j].state \notin Terminal \cup {"none"}

Answered(j) ==
    \/ MustStop(j) \/ MustReconcile(j) \/ FoundCommitted(j)
    \/ \A spool \in BOOLEAN : FoundNothing(j, spool)

LostIsAnswered == \A j \in Jobs : Lost(j) /\ Underway(j) => Answered(j)

SettleLeft ==
    [none |-> 0, registered |-> 3, claim_pending |-> 6, claimed |-> 5, fetching |-> 4,
     retry_wait |-> 3, prepared |-> 3, submitting |-> 3, reconciling |-> 2, committed |-> 1,
     cancelled |-> 1, revoked |-> 1, expired |-> 1, failed |-> 1]

GoesDown(j) ==
    jobs'[j].state = jobs[j].state \/ SettleLeft[jobs'[j].state] < SettleLeft[jobs[j].state]

\* The initial state has no job, so each state a step leads to is all of them.
LostGoesOn ==
    /\ \A j \in Jobs : Lost(j) => Lost(j)' /\ GoesDown(j)
    /\ LostIsAnswered'

LostJobSettles == [][LostGoesOn]_vars
===============================================================================
