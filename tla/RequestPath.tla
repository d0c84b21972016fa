------------------------------- MODULE RequestPath -----------------------------
(*****************************************************************************)
(* A user's request on its way to the task: the gateway's update ledger, the   *)
(* identity ledger, ControllerBridge, Application with its cache of answers,   *)
(* and the stop of the task's acquisition jobs.  Three databases commit one    *)
(* after the other, and a delivery may be repeated, run twice at a time, end   *)
(* between any two commits, or come back when the ledger forgot it.            *)
(*                                                                             *)
(* Requests are those whose bookkeeping is followed; any other request is      *)
(* Other.  The wall clock counts days and may be set back.                     *)
(*****************************************************************************)
EXTENDS CaseTask

CONSTANTS
    Requests, Handlers,
    Followed,      \* bound: the operations of these requests
    MaxFollowed,   \* bound: with one of them signed, no edit of a later version
    Retain,    \* days a record is retained
    MaxTime    \* bound on the clock

Envelopes == [op : Ops, version : Nat, at : 0 .. MaxTime]
Receipts  == [state : {"reserved", "completed", "rejected"}, until : Nat]
Answers   == {"ok", "error", "storage_error"}

ASSUME RequestAssumption ==
    /\ Retain \in Nat \ {0} /\ MaxTime \in Nat
    /\ None \notin Answers \cup Envelopes \cup Receipts

VARIABLES
    now,         \* the wall clock
    highWater,   \* clock_state
    envelopes,   \* gateway_updates: the action, the version it names, its day
    replay,      \* the identity ledger
    answers,     \* Application's requests table
    handlers,    \* deliveries being handled; ok: their result says so
    stopped,     \* the acquisition jobs of the task were stopped
    applied      \* how often a request changed the task (not in the code)

pathVars == <<now, highWater, envelopes, replay, answers, handlers, stopped, applied>>
vars == <<caseVars, pathVars>>

\* Type correctness of the task with its batches, and of the ledgers.
TypeOK ==
    /\ CaseTypeOK
    /\ now \in 0 .. MaxTime /\ highWater \in 0 .. MaxTime
    /\ envelopes \in [Requests -> Envelopes \cup {None}]
    /\ replay \in [Requests -> Receipts \cup {None}]
    /\ answers \in [Requests -> Answers \cup {None}]
    /\ handlers \in [Handlers -> [req : Requests, seen : {"reserved", "completed", "rejected"},
                                  step : {"reserved", "answered", "stopped"},
                                  ok : BOOLEAN] \cup {None}]
    /\ stopped \in BOOLEAN
    /\ applied \in [Requests -> 0 .. 2]

Init ==
    /\ CaseInit
    /\ now = 0 /\ highWater = 0 /\ stopped = FALSE
    /\ envelopes = [r \in Requests |-> None] /\ replay = [r \in Requests |-> None]
    /\ answers = [r \in Requests |-> None] /\ handlers = [h \in Handlers |-> None]
    /\ applied = [r \in Requests |-> 0]

-------------------------------------------------------------------------------
\* registry.guard: held from the dispatch of a request until its completion.
GuardFree == \A h \in Handlers : handlers[h] # None => handlers[h].step = "reserved"

End(h) == handlers' = [handlers EXCEPT ![h] = None]
Answered(h, ok) == handlers' = [handlers EXCEPT ![h].step = "answered", ![h].ok = ok]

Calm == task.version < MaxFollowed
Quiet == (\A r \in Requests : envelopes[r] = None) \/ Calm

\* GatewayLedger.envelope: signed once, for the task as the user sees it (bound: on
\* the first day).
Sign(r, op) ==
    /\ envelopes[r] = None /\ Calm /\ op \in Followed /\ now = 0
    /\ envelopes' = [envelopes EXCEPT ![r] = [op |-> op, version |-> task.version, at |-> now]]
    /\ UNCHANGED <<caseVars, now, highWater, replay, answers, handlers, stopped, applied>>

\* IdentityLedger.reserve: the clock is noted even if the delivery is refused.
NoteClock == highWater' = IF now > highWater THEN now ELSE highWater

Enter(h, r, state) ==
    handlers' = [handlers EXCEPT ![h] = [req |-> r, seen |-> state, step |-> "reserved",
                                            ok |-> FALSE]]

Reserve(h, r) ==
    /\ GuardFree /\ handlers[h] = None /\ envelopes[r] # None /\ replay[r] = None
    /\ now >= highWater /\ now = envelopes[r].at
    /\ NoteClock
    /\ replay' = [replay EXCEPT ![r] = [state |-> "reserved", until |-> now + Retain]]
    /\ Enter(h, r, "reserved")
    /\ UNCHANGED <<caseVars, now, envelopes, answers, stopped, applied>>

Redeliver(h, r) ==
    /\ GuardFree /\ handlers[h] = None /\ replay[r] # None
    /\ NoteClock
    /\ Enter(h, r, replay[r].state)
    /\ UNCHANGED <<caseVars, now, envelopes, replay, answers, stopped, applied>>

Refuse(r) ==
    /\ GuardFree /\ envelopes[r] # None /\ replay[r] = None
    /\ now < highWater \/ now # envelopes[r].at
    /\ NoteClock
    /\ UNCHANGED <<caseVars, now, envelopes, replay, answers, handlers, stopped, applied>>

\* Application.handle in one transaction: the cached answer, the operation with its
\* answer, or the error with its answer after ROLLBACK TO.
Cached(r) == answers[r] # None /\ UNCHANGED <<caseVars, answers, applied>>

Executed_AnyVersion(r) ==    \* mutant: the version the request names is not compared
    /\ answers[r] = None /\ Allowed(envelopes[r].op)
    /\ Dispatch(envelopes[r].op)
    /\ answers' = [answers EXCEPT ![r] = "ok"]
    /\ applied' = [applied EXCEPT ![r] = @ + 1]
Executed(r) ==
    /\ answers[r] = None
    /\ task.version = envelopes[r].version /\ Allowed(envelopes[r].op)
    /\ Dispatch(envelopes[r].op)
    /\ answers' = [answers EXCEPT ![r] = "ok"]
    /\ applied' = [applied EXCEPT ![r] = @ + 1]

\* A file or the database may fail whatever was asked.
Failed(r) ==
    /\ answers[r] = None
    /\ \/ /\ task.version # envelopes[r].version \/ ~Allowed(envelopes[r].op)
          /\ answers' = [answers EXCEPT ![r] = "error"]
       \/ answers' = [answers EXCEPT ![r] = "storage_error"]
    /\ UNCHANGED <<caseVars, applied>>

\* An error before the transaction, or one that ends it without a commit, of a lock or
\* of the database, is a result too; no answer is cached for it.
NotRun == UNCHANGED <<caseVars, answers, applied>>

Handle(h) ==
    /\ handlers[h] # None /\ handlers[h].step = "reserved" /\ GuardFree
    /\ handlers[h].seen = "reserved"
    /\ LET r == handlers[h].req
       IN  \/ Cached(r) /\ Answered(h, answers[r] = "ok")
           \/ Executed(r) /\ Answered(h, TRUE)
           \/ (Failed(r) \/ NotRun) /\ Answered(h, FALSE)
    /\ UNCHANGED <<now, highWater, envelopes, replay, stopped>>

\* A cancel that was granted: registry.stop for each job of the task.
Stops(h) == envelopes[handlers[h].req].op = "cancel" /\ handlers[h].ok

StopJobs(h) ==
    /\ handlers[h] # None /\ handlers[h].step = "answered" /\ Stops(h)
    /\ stopped' = TRUE /\ handlers' = [handlers EXCEPT ![h].step = "stopped"]
    /\ UNCHANGED <<caseVars, now, highWater, envelopes, replay, answers, applied>>

\* IdentityLedger.complete with the result of this delivery. It changes nothing if
\* another one completed the request, whether with the same result or with another one
\* (REQUEST_CONFLICT), nor if the record was collected (AUTH_INVALID).
Ended(r, ok) ==
    IF replay[r] # None /\ replay[r].state = "reserved"
    THEN [replay EXCEPT ![r].state = IF ok THEN "completed" ELSE "rejected"]
    ELSE replay

Complete_BeforeStop(h) ==    \* mutant: completes a cancel and stops the jobs afterwards
    /\ handlers[h] # None /\ handlers[h].step \in {"answered", "stopped"}
    /\ replay' = Ended(handlers[h].req, handlers[h].ok) /\ End(h)
    /\ UNCHANGED <<caseVars, now, highWater, envelopes, answers, stopped, applied>>
Complete(h) ==
    /\ handlers[h] # None /\ handlers[h].step \in {"answered", "stopped"}
    /\ Stops(h) => handlers[h].step = "stopped"
    /\ replay' = Ended(handlers[h].req, handlers[h].ok) /\ End(h)
    /\ UNCHANGED <<caseVars, now, highWater, envelopes, answers, stopped, applied>>

\* A delivery that ends where it is: it found the request completed (the cached answer,
\* or RECEIPT_PENDING or REQUEST_CONFLICT where its result was none), its grant was
\* withdrawn, or an error outside Application.handle ended it.
Leave(h) ==
    /\ handlers[h] # None /\ End(h)
    /\ UNCHANGED <<caseVars, now, highWater, envelopes, replay, answers, stopped, applied>>

\* The service restarts and recovers the store before it accepts work.
Restart ==
    /\ Recover /\ handlers' = [h \in Handlers |-> None]
    /\ UNCHANGED <<now, highWater, envelopes, replay, answers, stopped, applied>>

\* gc(): with the clock as it is, which it does not note.
Collect(r) ==
    /\ GuardFree /\ replay[r] # None /\ replay[r].state # "reserved" /\ now >= replay[r].until
    /\ replay' = [replay EXCEPT ![r] = None]
    /\ UNCHANGED <<caseVars, now, highWater, envelopes, answers, handlers, stopped, applied>>

SetClock(t) ==
    /\ t = now + 1 \/ t < now
    /\ now' = t
    /\ UNCHANGED <<caseVars, highWater, envelopes, replay, answers, handlers, stopped, applied>>

\* Another request, at the version it names.
Other(op) == GuardFree /\ Bounded /\ Quiet /\ Allowed(op) /\ Dispatch(op) /\ UNCHANGED pathVars

-------------------------------------------------------------------------------
Next ==
    \/ (Quiet /\ Engine) /\ UNCHANGED pathVars
    \/ Processing /\ UNCHANGED pathVars
    \/ \E op \in Ops : Other(op) \/ \E r \in Requests : Sign(r, op)
    \/ \E r \in Requests : Refuse(r) \/ Collect(r)
    \/ \E h \in Handlers :
          \/ \E r \in Requests : Reserve(h, r) \/ Redeliver(h, r)
          \/ Handle(h) \/ StopJobs(h) \/ Complete(h) \/ Leave(h)
    \/ Restart
    \/ \E t \in 0 .. MaxTime : SetClock(t)

Spec == Init /\ [][Next]_vars

-------------------------------------------------------------------------------
(* Properties.                                                                *)

\* Whatever is repeated, concurrent, interrupted or forgotten by the ledger: a request
\* changes the task at most once, its cached answer says whether it did, and the ledger
\* calls it completed only when all of it is durable, for a cancel the end of the
\* acquisition jobs included (ControllerBridge.handle, Application.handle,
\* IdentityLedger). A request the ledger calls rejected may have been carried out.
AnswersHold ==
    \A r \in Requests :
        /\ applied[r] = IF answers[r] = "ok" THEN 1 ELSE 0
        /\ replay[r] # None /\ replay[r].state = "completed" =>
              answers[r] = "ok" /\ (envelopes[r].op = "cancel" => stopped)

\* What the task says of a source is what the last claim of the batch with its
\* current revision published, and nothing before that: not the result of a late
\* holder, nor of a batch that was refreshed away (Processor._check, publish,
\* refresh_notion_source).
PublishedTruth ==
    \A s \in Added(task) :
        LET b == task.src[s].batch
        IN  IF manifest[b] = None THEN task.src[s].status = "pending"
            ELSE /\ task.src[s].status = manifest[b].res[s]
                 /\ manifest[b].fence = runs[b].fence /\ runs[b].status = "done"

\* An artifact contains what its owner confirmed, no more and no less, although
\* it is rendered two transactions later; nothing sent before was still waiting
\* to be processed, and a formal one has no gap (gate, Engine.generate, confirm).
OutputIsConfirmed ==
    \A o \in outputs :
        /\ o.made = o.asked /\ o.made.design # 0 /\ ~o.made.msgs
        /\ \A s \in Sources : o.made.srcs[s] # "pending"
        /\ o.mode = "formal" =>
              ~o.made.p0 /\ \A s \in Sources : o.made.srcs[s] \in {"none", "read"}

\* A cancelled task stays as it is, and nothing of it is staged, published or
\* rendered any more, whoever was at work (_check, _discard_cancelled_staging).
CancelledIsFinal ==
    [][task.state = "cancelled" =>
          /\ UNCHANGED <<task, packages, manifest, outputs>>
          /\ \A b \in Batches : staging'[b] = None]_vars

\* One processor at most passes the check of a transaction for a batch, though leases
\* end with their holders at work and workers share an id (Processor.claim, _check).
OneHolder == \A p, q \in Procs : Holds(p) /\ Holds(q) /\ procs[p].batch = procs[q].batch => p = q

\* A batch that is sealed, and not published, is never stuck, whoever died or came late:
\* it may be claimed anew, at once or when the lease of one who is gone ends, or it has
\* a holder whose next transaction passes its checks, its last one finding what the
\* holder staged (Processor.claim, _check, stage, publish).
On(p, b) == procs[p] # None /\ procs[p].batch = b
Untaken(b) ==
    ~runs[b].live \/ \A p \in Procs : On(p, b) => procs[p].fence # runs[b].fence
SealedGoesOn ==
    \A b \in Batches :
        Sealed(b) /\ runs[b].status # "done" /\ task.state # "cancelled" =>
            \/ Untaken(b)
            \/ \E p \in Procs :
                  /\ On(p, b) /\ Holds(p)
                  /\ procs[p].step = "staged" =>
                        /\ runs[b].status = "processing"
                        /\ staging[b] = [fence |-> procs[p].fence, res |-> procs[p].res]

\* What the owner is promised, in terms of the stores (CaseContract): a request is
\* carried out at most once and only on the version it names, it is called completed
\* only if it was carried out, and the jobs of a cancel are stopped before that is said.
Standing ==
    IF task.conf = None THEN {} ELSE {[mode |-> task.conf.mode, contents |-> task.conf.asked]}

Artifacts == {[mode |-> o.mode, contents |-> o.made] : o \in outputs}

Asks(op) == IF op \in Modes THEN "confirm" ELSE IF op = "cancel" THEN "cancel" ELSE "edit"
Asked ==
    [r \in Requests |-> IF envelopes[r] = None THEN "nothing" ELSE Asks(envelopes[r].op)]

Fresh == {r \in Requests : envelopes[r] # None /\ envelopes[r].version = task.version}

Became == [ok |-> "granted", error |-> "refused", storage_error |-> "failed"]
Outcome == [r \in Requests |-> IF answers[r] = None THEN "open" ELSE Became[answers[r]]]

Word == [reserved |-> "nothing", completed |-> "granted", rejected |-> "refused"]
Told == [r \in Requests |-> IF replay[r] = None THEN "nothing" ELSE Word[replay[r].state]]

Contract == INSTANCE CaseContract WITH
    shown <- Content(task), confirmed <- Standing, made <- Artifacts,
    cancelled <- task.state = "cancelled", asks <- Asked, fresh <- Fresh,
    outcome <- Outcome, told <- Told

\* Every step of the request path is one the contract allows (Application.handle,
\* IdentityLedger, Engine).
ContractSpec == Contract!Spec
===============================================================================
