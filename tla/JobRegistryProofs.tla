---------------------------- MODULE JobRegistryProofs ---------------------------
(*****************************************************************************)
(* Proofs about JobRegistry, for any number of jobs, sources, workers and       *)
(* packages: what the receiver committed stays consumable, the two databases    *)
(* implement AcquisitionVerdict, one job at most works for a source, every      *)
(* change keeps to the transition table, and a job that lost its grant settles. *)
(*****************************************************************************)
EXTENDS JobRegistry, TLAPS

\* The state of the job whose operation holds the guard.
OpInv ==
    op # None =>
        /\ op.kind \in {"claim", "bind"} => jobs[op.job].state = "claim_pending"
        /\ op.kind \in {"fetch", "run"}  => jobs[op.job].state = "claimed"
        /\ op.kind = "retry" => jobs[op.job].state \in {"claimed", "fetching"}

\* An acknowledgement is of a package that is stored.
AckInv ==
    \A a \in acks : \E s \in Sources : stored[s] # None /\ stored[s].job = a.job

IInv == TypeOK /\ OpInv /\ CommitStaysConsumable /\ AckInv

-------------------------------------------------------------------------------
(* The job record, and how a step changes it.                                  *)

States == {"none", "registered", "claim_pending", "claimed", "fetching", "retry_wait",
           "prepared", "submitting", "reconciling", "committed", "cancelled", "revoked",
           "expired", "failed"}

LEMMA EdgeStates == DOMAIN Edges = States
BY DEF Edges, States

\* What _transition admits.
LEMMA GoFrom ==
    ASSUME TypeOK, NEW j \in Jobs
    PROVE  /\ Go(j, "submitting") => jobs[j].state \in {"prepared", "reconciling"}
           /\ Go(j, "committed") => jobs[j].state \in {"submitting", "reconciling"}
           /\ Go(j, "reconciling") => jobs[j].state \in
                 {"claim_pending", "claimed", "fetching", "retry_wait", "prepared", "submitting"}
<1>1. jobs[j].state \in States
    BY EdgeStates DEF TypeOK, JobRecords
<1>2. QED
    BY <1>1, EdgeStates DEF Go, Edges, States, Stopped

LEMMA Records ==
    ASSUME TypeOK, NEW j \in Jobs
    PROVE  /\ jobs[j] \in JobRecords
           /\ jobs[j].state \in States
           /\ jobs[j].state # "none" => jobs[j].src \in Sources
           /\ \A t \in States : To(j, t) \in JobRecords /\ To(j, t).src = jobs[j].src
<1>1. jobs[j] \in JobRecords
    BY DEF TypeOK
<1>2. \A t \in States : To(j, t) \in JobRecords /\ To(j, t).src = jobs[j].src
    BY <1>1, EdgeStates DEF JobRecords, To
<1>3. QED
    BY <1>1, <1>2, EdgeStates DEF TypeOK, JobRecords

\* The row of a claim that there is.
LEMMA ClaimType ==
    ASSUME TypeOK, NEW j \in Jobs, jobs[j].state # "none"
    PROVE  Claim(j) \in [state : ClaimStates, fence : Nat, worker : Workers \cup {None},
                         live : BOOLEAN]
BY DEF TypeOK, StoreTypeOK, Claim

\* The jobs, as TypeOK has them.
JobsOK == /\ jobs \in [Jobs -> JobRecords]
          /\ \A j \in Jobs : jobs[j].state # "none" => jobs[j].src \in Sources

LEMMA SaveType ==
    ASSUME TypeOK, NEW j \in Jobs, NEW rec \in JobRecords, Save(j, rec),
           rec.state # "none" => rec.src \in Sources
    PROVE  /\ JobsOK'
           /\ jobs'[j] = rec /\ \A k \in Jobs \ {j} : jobs'[k] = jobs[k]
BY DEF TypeOK, JobsOK, Save

\* The changes of one job: what it keeps, and where it may go.
Changed(j, targets) ==
    /\ JobsOK' /\ \A k \in Jobs \ {j} : jobs'[k] = jobs[k]
    /\ jobs'[j].src = jobs[j].src /\ jobs'[j].epoch = jobs[j].epoch
    /\ jobs'[j].state \in targets

LEMMA ToType ==
    ASSUME TypeOK, NEW j \in Jobs, NEW t \in States, t # "none", jobs[j].state # "none",
           Save(j, To(j, t))
    PROVE  /\ Changed(j, {t})
           /\ jobs'[j].pkg = jobs[j].pkg /\ jobs'[j].fence = jobs[j].fence
<1>1. To(j, t) \in JobRecords /\ To(j, t).src \in Sources
    BY Records
<1>2. JobsOK' /\ jobs'[j] = To(j, t) /\ \A k \in Jobs \ {j} : jobs'[k] = jobs[k]
    BY <1>1, SaveType
<1>3. /\ To(j, t).state = t /\ To(j, t).src = jobs[j].src /\ To(j, t).epoch = jobs[j].epoch
      /\ To(j, t).pkg = jobs[j].pkg /\ To(j, t).fence = jobs[j].fence
    BY Records DEF To, JobRecords
<1>4. QED
    BY <1>2, <1>3 DEF Changed

-------------------------------------------------------------------------------
(* Types.                                                                      *)

LEMMA TypeInit == Init => TypeOK
<1> SUFFICES ASSUME Init PROVE TypeOK
    OBVIOUS
<1>1. NoJob \in JobRecords
    BY EdgeStates DEF NoJob, JobRecords, States
<1>2. StoreTypeOK
    BY StoreAssumption DEF Init, StoreInit, StoreTypeOK, ClaimStates
<1>3. epoch \in 1 .. MaxEpoch
    BY RegistryAssumption DEF Init
<1>4. \A j \in Jobs : jobs[j].state = "none"
    BY DEF Init, NoJob
<1>5. QED
    BY <1>1, <1>2, <1>3, <1>4 DEF Init, TypeOK

LEMMA RegisterType ==
    ASSUME TypeOK, NEW j \in Jobs, NEW s \in Sources, Register(j, s)
    PROVE  TypeOK' /\ jobs'[j] = Fresh(j, s) /\ \A k \in Jobs \ {j} : jobs'[k] = jobs[k]
<1>1. Fresh(j, s) \in JobRecords /\ Fresh(j, s).src \in Sources
    <2>1. epoch \in Nat
        BY DEF TypeOK
    <2>2. "registered" \in DOMAIN Edges
        BY EdgeStates DEF States
    <2>3. NoJob \in JobRecords
        BY EdgeStates DEF NoJob, JobRecords, States
    <2>4. QED
        BY <2>1, <2>2, <2>3 DEF Fresh, JobRecords
<1>2. JobsOK' /\ jobs'[j] = Fresh(j, s) /\ \A k \in Jobs \ {j} : jobs'[k] = jobs[k]
    BY <1>1, SaveType DEF Register
<1>3. QED
    BY <1>2 DEF TypeOK, StoreTypeOK, JobsOK, Register, storeVars

\* Steps that change one job's state alone, and op.
LEMMA OnlyState ==
    ASSUME TypeOK, NEW j \in Jobs, NEW t \in States, t # "none", jobs[j].state # "none",
           Save(j, To(j, t)), UNCHANGED <<storeVars, epoch, streams, acks>>,
           op' = op \/ op' = None
    PROVE  TypeOK'
<1>1. JobsOK'
    BY ToType DEF Changed
<1>2. QED
    BY <1>1 DEF TypeOK, StoreTypeOK, JobsOK, storeVars

LEMMA EnvironmentType ==
    ASSUME TypeOK,
           Publish \/ Cancel \/ Crash \/ (\E s \in Sources : LeaseEnds(s))
    PROVE  TypeOK'
<1>1. CASE Publish
    BY <1>1, RegistryAssumption DEF TypeOK, StoreTypeOK, Publish, storeVars
<1>2. CASE Cancel
    BY <1>2 DEF TypeOK, StoreTypeOK, Cancel, CancelTask, ClaimStates
<1>3. CASE Crash
    BY <1>3 DEF TypeOK, StoreTypeOK, Crash, Done, storeVars
<1>4. ASSUME NEW s \in Sources, LeaseEnds(s) PROVE TypeOK'
    BY <1>4 DEF TypeOK, StoreTypeOK, LeaseEnds, ExpireLease
<1>5. QED
    BY <1>1, <1>2, <1>3, <1>4

LEMMA KnownType ==
    ASSUME TypeOK, NEW j \in Jobs, NEW p \in Packages \cup {None}, jobs[j].state # "none",
           Save(j, Known(j, p)), UNCHANGED <<storeVars, epoch, op, streams, acks>>
    PROVE  /\ TypeOK' /\ Changed(j, {"committed"})
           /\ jobs'[j].pkg = jobs[j].pkg /\ jobs'[j].fence = jobs[j].fence
<1>1. To(j, "committed") \in JobRecords /\ To(j, "committed").src \in Sources
    BY Records DEF States
<1>2. Known(j, p) \in JobRecords /\ Known(j, p).src \in Sources
    BY <1>1 DEF Known, JobRecords
<1>3. JobsOK' /\ jobs'[j] = Known(j, p) /\ \A k \in Jobs \ {j} : jobs'[k] = jobs[k]
    BY <1>2, SaveType
<1>4. /\ Known(j, p).state = "committed" /\ Known(j, p).src = jobs[j].src
      /\ Known(j, p).epoch = jobs[j].epoch
      /\ Known(j, p).pkg = jobs[j].pkg /\ Known(j, p).fence = jobs[j].fence
    BY Records DEF Known, To, JobRecords
<1>5. TypeOK'
    BY <1>3 DEF TypeOK, StoreTypeOK, JobsOK, storeVars
<1>6. QED
    BY <1>3, <1>4, <1>5 DEF Changed

LEMMA StopType ==
    ASSUME TypeOK, NEW j \in Jobs, NEW t \in Stopped, Stop(j, t)
    PROVE  /\ TypeOK' /\ Changed(j, {EndState(j, t)})
           /\ jobs'[j].pkg = jobs[j].pkg /\ jobs'[j].fence = jobs[j].fence
<1> DEFINE to  == To(j, EndState(j, t))
           rec == [to EXCEPT !.cancel = @ \/ t = "cancelled"]
<1>1. EndState(j, t) \in States /\ EndState(j, t) # "none" /\ jobs[j].state # "none"
    BY DEF EndState, Stopped, States, Stop
<1>2. to \in JobRecords /\ to.src \in Sources
    BY <1>1, Records
<1>3. rec \in JobRecords /\ rec.src \in Sources
    BY <1>2 DEF JobRecords
<1>4. JobsOK' /\ jobs'[j] = rec /\ \A k \in Jobs \ {j} : jobs'[k] = jobs[k]
    BY <1>3, SaveType DEF Stop
<1>5. /\ rec.state = EndState(j, t) /\ rec.src = jobs[j].src /\ rec.epoch = jobs[j].epoch
      /\ rec.pkg = jobs[j].pkg /\ rec.fence = jobs[j].fence
    BY Records DEF To, JobRecords
<1>6. TypeOK'
    BY <1>4 DEF TypeOK, StoreTypeOK, JobsOK, Stop, storeVars
<1>7. QED
    BY <1>4, <1>5, <1>6 DEF Changed

\* A job that lost its grant and has not ended can say why.
LEMMA ReasonGiven ==
    ASSUME NEW j \in Jobs, ~Authorized(j), jobs[j].state \notin Stopped \cup {"none"}
    PROVE  Reason(j) \in {"cancelled", "revoked", "expired"}
BY DEF Authorized, Reason

\* Time for one job: state, source, package, attempt and epoch stay.
Ages(j) ==
    /\ Changed(j, {jobs[j].state})
    /\ jobs'[j].pkg = jobs[j].pkg /\ jobs'[j].fence = jobs[j].fence

LEMMA TimeType ==
    ASSUME TypeOK, NEW j \in Jobs, KnownLeaseEnds(j) \/ DeadlinePasses(j) \/ Heartbeat(j)
    PROVE  TypeOK' /\ Ages(j)
<1>1. CASE KnownLeaseEnds(j)
    <2>1. [jobs[j] EXCEPT !.live = FALSE] \in JobRecords
        BY DEF TypeOK, JobRecords
    <2>2. /\ JobsOK' /\ jobs'[j] = [jobs[j] EXCEPT !.live = FALSE]
          /\ \A k \in Jobs \ {j} : jobs'[k] = jobs[k]
        BY <1>1, <2>1, SaveType DEF TypeOK, KnownLeaseEnds, JobRecords
    <2>3. QED
        BY <1>1, <2>2 DEF TypeOK, StoreTypeOK, JobsOK, KnownLeaseEnds, storeVars, Ages,
                          Changed, JobRecords
<1>2. CASE DeadlinePasses(j)
    <2>1. [jobs[j] EXCEPT !.late = TRUE, !.live = FALSE] \in JobRecords
        BY DEF TypeOK, JobRecords
    <2>2. /\ JobsOK' /\ jobs'[j] = [jobs[j] EXCEPT !.late = TRUE, !.live = FALSE]
          /\ \A k \in Jobs \ {j} : jobs'[k] = jobs[k]
        BY <1>2, <2>1, SaveType DEF TypeOK, DeadlinePasses, JobRecords
    <2>3. StoreTypeOK'
        BY <1>2 DEF TypeOK, StoreTypeOK, DeadlinePasses
    <2>4. QED
        BY <1>2, <2>2, <2>3 DEF TypeOK, JobsOK, DeadlinePasses, Ages, Changed, JobRecords
<1>3. CASE Heartbeat(j)
    <2>1. [jobs[j] EXCEPT !.live = TRUE] \in JobRecords
        BY DEF TypeOK, JobRecords
    <2>2. /\ JobsOK' /\ jobs'[j] = [jobs[j] EXCEPT !.live = TRUE]
          /\ \A k \in Jobs \ {j} : jobs'[k] = jobs[k]
        BY <1>3, <2>1, SaveType DEF TypeOK, Heartbeat, JobRecords
    <2>3. QED
        BY <1>3, <2>2 DEF TypeOK, StoreTypeOK, JobsOK, Heartbeat, storeVars, Ages, Changed,
                          JobRecords
<1>4. QED
    BY <1>1, <1>2, <1>3

LEMMA ClaimingType ==
    ASSUME TypeOK, OpInv, NEW j \in Jobs, Claiming(j)
    PROVE  TypeOK'
<1>1. ASSUME NEW w \in Workers, StartClaim(j, w) PROVE TypeOK'
    <2>1. [To(j, "claim_pending") EXCEPT !.worker = w] \in JobRecords
        BY Records DEF JobRecords, States
    <2>2. /\ [To(j, "claim_pending") EXCEPT !.worker = w].src \in Sources
        BY <1>1, Records DEF JobRecords, States, StartClaim
    <2>3. JobsOK'
        BY <1>1, <2>1, <2>2, SaveType DEF StartClaim
    <2>4. QED
        BY <1>1, <2>3 DEF TypeOK, StoreTypeOK, JobsOK, StartClaim, Begin, storeVars
<1>2. CASE PortClaim(j)
    <2>1. jobs[j].state = "claim_pending" /\ jobs[j].src \in Sources
        BY <1>2, Records DEF PortClaim, At, OpInv
    <2>2. StoreTypeOK'
        BY <1>2, <2>1 DEF TypeOK, StoreTypeOK, PortClaim, TakeClaim, JobRecords, ClaimStates
    <2>3. QED
        BY <1>2, <2>2 DEF TypeOK, PortClaim, Continue, At
<1>3. CASE ClaimRefused(j)
    BY <1>3, OnlyState DEF ClaimRefused, Done, At, OpInv, States
<1>4. CASE Bind(j)
    <2>1. jobs[j].state = "claim_pending"
        BY <1>4 DEF Bind, At, OpInv
    <2> DEFINE rec == [To(j, "claimed") EXCEPT !.fence = Claim(j).fence, !.live = TRUE]
    <2>2. rec \in JobRecords /\ rec.src \in Sources
        <3>1. Claim(j).fence \in Nat
            BY <2>1, ClaimType
        <3>2. To(j, "claimed") \in JobRecords /\ To(j, "claimed").src \in Sources
            BY <2>1, Records DEF States
        <3>3. QED
            BY <3>1, <3>2 DEF JobRecords
    <2>3. JobsOK'
        BY <1>4, <2>2, SaveType DEF Bind
    <2>4. op' \in [kind : {"claim", "bind", "fetch", "run", "retry"}, job : Jobs]
        BY <1>4 DEF TypeOK, Bind, Continue, At
    <2>5. QED
        BY <1>4, <2>3, <2>4 DEF TypeOK, StoreTypeOK, JobsOK, Bind, storeVars
<1>5. CASE PortFetching(j)
    <2>1. jobs[j].state = "claimed" /\ jobs[j].src \in Sources
        BY <1>5, Records DEF PortFetching, At, OpInv
    <2>2. StoreTypeOK'
        BY <1>5, <2>1 DEF TypeOK, StoreTypeOK, PortFetching, MoveClaim, ClaimStates
    <2>3. QED
        BY <1>5, <2>2 DEF TypeOK, PortFetching, Continue, At
<1>6. CASE Run(j)
    BY <1>6, OnlyState DEF Run, Done, At, OpInv, States
<1>7. CASE RecoverClaim(j)
    BY <1>7 DEF TypeOK, StoreTypeOK, RecoverClaim, Begin, storeVars
<1>8. CASE RecoverLost(j)
    BY <1>8, OnlyState DEF RecoverLost, States
<1>9. QED
    BY <1>1, <1>2, <1>3, <1>4, <1>5, <1>6, <1>7, <1>8 DEF Claiming

LEMMA WorkingType ==
    ASSUME TypeOK, OpInv, NEW j \in Jobs, Working(j)
    PROVE  TypeOK'
<1>1. CASE Heartbeat(j)
    BY <1>1, TimeType
<1>2. CASE PortRetry(j)
    <2>1. jobs[j].src \in Sources
        BY <1>2, Records DEF PortRetry
    <2>2. StoreTypeOK'
        BY <1>2, <2>1 DEF TypeOK, StoreTypeOK, PortRetry, MoveClaim, ClaimStates
    <2>3. QED
        BY <1>2, <2>2 DEF TypeOK, PortRetry, Begin
<1>3. CASE ScheduleRetry(j)
    BY <1>3, OnlyState DEF ScheduleRetry, Done, At, OpInv, States
<1>4. CASE WaitForLease(j)
    BY <1>4, OnlyState DEF WaitForLease, States
<1>5. ASSUME NEW p \in Packages, Pin(j, p) PROVE TypeOK'
    <2>1. [To(j, "prepared") EXCEPT !.pkg = p] \in JobRecords
        BY Records DEF JobRecords, States
    <2>2. [To(j, "prepared") EXCEPT !.pkg = p].src \in Sources
        BY <1>5, Records DEF JobRecords, States, Pin
    <2>3. JobsOK'
        BY <1>5, <2>1, <2>2, SaveType DEF Pin
    <2>4. QED
        BY <1>5, <2>3 DEF TypeOK, StoreTypeOK, JobsOK, Pin, storeVars
<1>6. ASSUME NEW p \in Packages, OpenStream(j, p) PROVE TypeOK'
    <2>1. Claim(j).fence \in Nat /\ Claim(j).worker \in Workers \cup {None}
        <3>1. jobs[j].state # "none"
            BY <1>6 DEF OpenStream, Authorized
        <3>2. QED
            BY <3>1, ClaimType
    <2>2. QED
        <3>1. [job |-> j, pkg |-> p, fence |-> Claim(j).fence, worker |-> Claim(j).worker]
                 \in [job : Jobs, pkg : Packages, fence : Nat, worker : Workers \cup {None}]
            BY <2>1
        <3>2. QED
            BY <1>6, <3>1 DEF TypeOK, StoreTypeOK, OpenStream, storeVars
<1>7. CASE BeginSubmit(j)
    BY <1>7, GoFrom, OnlyState DEF BeginSubmit, States
<1>8. CASE Uncertain(j)
    BY <1>8, GoFrom, OnlyState DEF Uncertain, States
<1>9. CASE ConsumeOutbox(j)
    <2>1. jobs[j].pkg \in Packages \cup {None}
        BY Records DEF JobRecords
    <2>2. QED
        BY <1>9, <2>1, KnownType DEF ConsumeOutbox
<1>10. QED
    BY <1>1, <1>2, <1>3, <1>4, <1>5, <1>6, <1>7, <1>8, <1>9 DEF Working

LEMMA RecoveringType ==
    ASSUME TypeOK, NEW j \in Jobs, Recovering(j)
    PROVE  TypeOK'
<1>1. CASE PropagateCancel(j)
    BY <1>1, StopType DEF PropagateCancel, Stopped
<1>2. CASE PlanStop(j)
    BY <1>2, StopType, ReasonGiven DEF PlanStop, MustStop, Stopped
<1>3. CASE PlanReconcile(j)
    BY <1>3, OnlyState DEF PlanReconcile, MustReconcile, States
<1>4. CASE PlanCommitted(j)
    <2>1. jobs[j].pkg \in Packages \cup {None}
        BY Records DEF JobRecords
    <2>2. QED
        BY <1>4, <2>1, KnownType DEF PlanCommitted, FoundCommitted
<1>5. ASSUME NEW spool \in BOOLEAN, PlanEnded(j, spool) PROVE TypeOK'
    <2>1. Verdict(j, spool) \in Stopped
        BY <1>5 DEF PlanEnded, FoundNothing, Verdict, Reason, Stopped
    <2>2. QED
        BY <1>5, <2>1, OnlyState DEF PlanEnded, FoundNothing, Stopped, States
<1>6. CASE PlanRetry(j)
    BY <1>6, OnlyState DEF PlanRetry, States
<1>7. QED
    BY <1>1, <1>2, <1>3, <1>4, <1>5, <1>6 DEF Recovering

LEMMA StreamType ==
    ASSUME TypeOK, NEW m \in streams, CommitStream(m) \/ ReplayStream(m) \/ DropStream(m)
    PROVE  TypeOK'
<1>1. m.job \in Jobs /\ m.pkg \in Packages
    BY DEF TypeOK
<1>2. Acknowledge(m) => acks' \subseteq [job : Jobs, pkg : Packages]
    BY <1>1 DEF TypeOK, Acknowledge
<1>3. CASE CommitStream(m)
    <2>1. jobs[m.job].state # "none" /\ jobs[m.job].pkg = m.pkg
        BY <1>3 DEF CommitStream, Acceptable
    <2>2. Row(m.job) \in [job : Jobs, pkg : Packages, fence : Nat, epoch : Nat]
        BY <1>1, <2>1 DEF TypeOK, Row, JobRecords
    <2>3. StoreTypeOK'
        <3>1. jobs[m.job].src \in Sources
            BY <1>1, <2>1, Records
        <3>2. cancelled' \in BOOLEAN /\ stored' \in
                 [Sources -> [job : Jobs, pkg : Packages, fence : Nat, epoch : Nat] \cup {None}]
            BY <1>3, <2>2 DEF TypeOK, StoreTypeOK, CommitStream, StorePackage
        <3>3. claims' = [claims EXCEPT ![jobs[m.job].src].state = "sealed"]
            BY <1>3 DEF CommitStream, StorePackage
        <3>4. QED
            BY <3>1, <3>2, <3>3 DEF TypeOK, StoreTypeOK, ClaimStates
    <2>4. QED
        BY <1>2, <1>3, <2>3 DEF TypeOK, CommitStream
<1>4. CASE ReplayStream(m)
    BY <1>2, <1>4 DEF TypeOK, StoreTypeOK, ReplayStream, storeVars
<1>5. CASE DropStream(m)
    BY <1>5 DEF TypeOK, StoreTypeOK, DropStream, storeVars
<1>6. QED
    BY <1>3, <1>4, <1>5

LEMMA TypeStep ==
    ASSUME TypeOK, OpInv, [Next]_vars
    PROVE  TypeOK'
<1>1. ASSUME NEW a \in acks, AcceptAck(a) PROVE TypeOK'
    <2>1. a.job \in Jobs /\ a.pkg \in Packages
        BY DEF TypeOK
    <2>2. QED
        BY <1>1, <2>1, GoFrom, KnownType DEF AcceptAck
<1>2. CASE UNCHANGED vars
    BY <1>2 DEF TypeOK, StoreTypeOK, vars, storeVars
<1>3. QED
    BY <1>1, <1>2, RegisterType, EnvironmentType, TimeType, ClaimingType, WorkingType,
       RecoveringType, StreamType DEF Next

-------------------------------------------------------------------------------
(* What a step does to the jobs.                                               *)

HasRow(j) == \E s \in Sources : stored[s] # None /\ stored[s].job = j

Others(j) == \A k \in Jobs \ {j} : jobs'[k] = jobs[k]

\* The fields that the receiver's row names.
SameRow(j) ==
    /\ jobs'[j].src = jobs[j].src /\ jobs'[j].pkg = jobs[j].pkg
    /\ jobs'[j].fence = jobs[j].fence /\ jobs'[j].epoch = jobs[j].epoch

\* Nothing of the job was submitted.
Early(j) ==
    /\ jobs[j].state \notin {"submitting", "reconciling"} \cup Terminal
    /\ jobs'[j].state # "committed"

Keeps(j) ==
    /\ SameRow(j)
    /\ \/ jobs'[j].state = jobs[j].state
       \/ jobs[j].state \notin Terminal /\ jobs'[j].state \in {"submitting", "reconciling"}

Commits(j) ==
    /\ SameRow(j) /\ jobs[j].state \in {"submitting", "reconciling"}
    /\ jobs'[j].state = "committed" /\ HasRow(j)

Ends(j) ==
    /\ jobs[j].state = "reconciling" /\ ReceiptOf(j) = None
    /\ jobs'[j].state \in {"retry_wait"} \cup Stopped

Effect(j) == Others(j) /\ (Early(j) \/ Keeps(j) \/ Commits(j) \/ Ends(j))

LEMMA ToEffect ==
    ASSUME TypeOK, NEW j \in Jobs, NEW t \in States, t # "none", jobs[j].state # "none",
           Save(j, To(j, t))
    PROVE  Others(j) /\ SameRow(j) /\ jobs'[j].state = t
BY ToType DEF Changed, Others, SameRow

LEMMA StopEffect ==
    ASSUME TypeOK, NEW j \in Jobs, NEW t \in Stopped, Stop(j, t)
    PROVE  Effect(j)
<1>1. Others(j) /\ SameRow(j) /\ jobs'[j].state = EndState(j, t)
    BY StopType DEF Changed, Others, SameRow
<1>2. jobs[j].state \notin Terminal
    BY DEF Stop
<1>3. CASE jobs[j].state \in {"submitting", "reconciling"}
    BY <1>1, <1>2, <1>3 DEF EndState, Effect, Keeps
<1>4. CASE jobs[j].state \notin {"submitting", "reconciling"}
    BY <1>1, <1>2, <1>4 DEF EndState, Effect, Early, Stopped
<1>5. QED
    BY <1>3, <1>4

LEMMA ClaimingEffect ==
    ASSUME TypeOK, OpInv, NEW j \in Jobs, Claiming(j)
    PROVE  jobs' = jobs \/ Effect(j)
<1>1. ASSUME NEW w \in Workers, StartClaim(j, w) PROVE Effect(j)
    BY <1>1, Records DEF TypeOK, StartClaim, Save, To, JobRecords, Effect, Others, Early,
                         Terminal, Stopped
<1>2. CASE ClaimRefused(j)
    <2>1. jobs[j].state = "claim_pending"
        BY <1>2 DEF ClaimRefused, At, OpInv
    <2>2. QED
        BY <1>2, <2>1, ToEffect DEF ClaimRefused, States, Effect, Keeps, Terminal, Stopped
<1>3. CASE Bind(j)
    <2>1. jobs[j].state = "claim_pending"
        BY <1>3 DEF Bind, At, OpInv
    <2>2. QED
        BY <1>3, <2>1 DEF TypeOK, Bind, Save, To, JobRecords, Effect, Others, Early, Terminal,
                          Stopped
<1>4. CASE Run(j)
    <2>1. jobs[j].state = "claimed"
        BY <1>4 DEF Run, At, OpInv
    <2>2. QED
        BY <1>4, <2>1, ToEffect DEF Run, States, Effect, Early, Terminal, Stopped
<1>5. CASE RecoverLost(j)
    BY <1>5, ToEffect DEF RecoverLost, States, Effect, Keeps, Terminal, Stopped
<1>6. QED
    BY <1>1, <1>2, <1>3, <1>4, <1>5 DEF Claiming, PortClaim, PortFetching, RecoverClaim

LEMMA WorkingEffect ==
    ASSUME TypeOK, OpInv, NEW j \in Jobs, Working(j)
    PROVE  jobs' = jobs \/ Effect(j)
<1>1. CASE Heartbeat(j)
    BY <1>1, TimeType DEF Ages, Changed, Effect, Others, Keeps, SameRow
<1>2. CASE ScheduleRetry(j)
    <2>1. jobs[j].state \in {"claimed", "fetching"}
        BY <1>2 DEF ScheduleRetry, At, OpInv
    <2>2. QED
        BY <1>2, <2>1, ToEffect DEF ScheduleRetry, States, Effect, Early, Terminal, Stopped
<1>3. CASE WaitForLease(j)
    BY <1>3, ToEffect DEF WaitForLease, States, Effect, Early, Terminal, Stopped
<1>4. ASSUME NEW p \in Packages, Pin(j, p) PROVE Effect(j)
    BY <1>4 DEF TypeOK, Pin, Save, To, JobRecords, Effect, Others, Early, Terminal, Stopped
<1>5. CASE BeginSubmit(j)
    <2>1. jobs[j].state \in {"prepared", "reconciling"}
        BY <1>5, GoFrom DEF BeginSubmit
    <2>2. QED
        BY <1>5, <2>1, ToEffect DEF BeginSubmit, States, Effect, Keeps, Terminal, Stopped
<1>6. CASE Uncertain(j)
    <2>1. jobs[j].state \in
             {"claim_pending", "claimed", "fetching", "retry_wait", "prepared", "submitting"}
        BY <1>6, GoFrom DEF Uncertain
    <2>2. QED
        BY <1>6, <2>1, ToEffect DEF Uncertain, States, Effect, Keeps, Terminal, Stopped
<1>7. CASE ConsumeOutbox(j)
    <2>1. jobs[j].state \in {"submitting", "reconciling"} /\ jobs[j].src \in Sources
        BY <1>7, GoFrom, Records DEF ConsumeOutbox
    <2>2. HasRow(j)
        BY <1>7, <2>1 DEF ConsumeOutbox, Matches, Event, Row, HasRow
    <2>3. jobs[j].pkg \in Packages \cup {None}
        BY Records DEF JobRecords
    <2>4. QED
        BY <1>7, <2>1, <2>2, <2>3, KnownType
           DEF ConsumeOutbox, Changed, Effect, Others, Commits, SameRow
<1>8. QED
    BY <1>1, <1>2, <1>3, <1>4, <1>5, <1>6, <1>7 DEF Working, PortRetry, OpenStream

LEMMA RecoveringEffect ==
    ASSUME TypeOK, NEW j \in Jobs, Recovering(j)
    PROVE  Effect(j)
<1>1. CASE PropagateCancel(j)
    BY <1>1, StopEffect DEF PropagateCancel, Stopped
<1>2. CASE PlanStop(j)
    BY <1>2, StopEffect, ReasonGiven DEF PlanStop, MustStop, Stopped
<1>3. CASE PlanReconcile(j)
    BY <1>3, ToEffect DEF PlanReconcile, MustReconcile, States, Effect, Keeps, Terminal, Stopped
<1>4. CASE PlanCommitted(j)
    <2>1. jobs[j].state = "reconciling" /\ jobs[j].src \in Sources
        BY <1>4, Records DEF PlanCommitted, FoundCommitted
    <2>2. HasRow(j)
        BY <1>4, <2>1 DEF PlanCommitted, FoundCommitted, ReceiptOf, Event, HasRow
    <2>3. jobs[j].pkg \in Packages \cup {None}
        BY Records DEF JobRecords
    <2>4. QED
        BY <1>4, <2>1, <2>2, <2>3, KnownType
           DEF PlanCommitted, FoundCommitted, Changed, Effect, Others, Commits, SameRow
<1>5. ASSUME NEW spool \in BOOLEAN, PlanEnded(j, spool) PROVE Effect(j)
    <2>1. Verdict(j, spool) \in Stopped
        BY <1>5 DEF PlanEnded, FoundNothing, Verdict, Reason, Stopped
    <2>2. QED
        BY <1>5, <2>1, ToEffect DEF PlanEnded, FoundNothing, Stopped, States, Effect, Ends
<1>6. CASE PlanRetry(j)
    BY <1>6, ToEffect DEF PlanRetry, States, Effect, Ends
<1>7. QED
    BY <1>1, <1>2, <1>3, <1>4, <1>5, <1>6 DEF Recovering

LEMMA JobsStep ==
    ASSUME TypeOK, OpInv, AckInv, [Next]_vars
    PROVE  jobs' = jobs \/ \E j \in Jobs : Effect(j)
<1>1. ASSUME NEW j \in Jobs, NEW s \in Sources, Register(j, s) PROVE Effect(j)
    BY <1>1, RegisterType DEF Register, Fresh, NoJob, Effect, Others, Early, Terminal, Stopped
<1>2. ASSUME NEW j \in Jobs, KnownLeaseEnds(j) \/ DeadlinePasses(j) PROVE Effect(j)
    BY <1>2, TimeType DEF Ages, Changed, Effect, Others, Keeps, SameRow
<1>3. ASSUME NEW a \in acks, AcceptAck(a) PROVE \E j \in Jobs : Effect(j)
    <2>1. a.job \in Jobs /\ a.pkg \in Packages
        BY DEF TypeOK
    <2>2. HasRow(a.job)
        BY DEF AckInv, HasRow
    <2>3. jobs[a.job].state \in {"submitting", "reconciling"}
        BY <1>3, <2>1, GoFrom DEF AcceptAck
    <2>4. QED
        BY <1>3, <2>1, <2>2, <2>3, KnownType
           DEF AcceptAck, Changed, Effect, Others, Commits, SameRow
<1>4. ASSUME NEW s \in Sources, LeaseEnds(s) PROVE jobs' = jobs
    BY <1>4 DEF LeaseEnds
<1>5. ASSUME NEW m \in streams, CommitStream(m) \/ ReplayStream(m) \/ DropStream(m)
      PROVE  jobs' = jobs
    BY <1>5 DEF CommitStream, ReplayStream, DropStream
<1>6. CASE Publish \/ Cancel \/ Crash \/ UNCHANGED vars
    BY <1>6 DEF Publish, Cancel, Crash, vars
<1>7. QED
    BY <1>1, <1>2, <1>3, <1>4, <1>5, <1>6, ClaimingEffect, WorkingEffect, RecoveringEffect
       DEF Next

\* The store only gains packages.
LEMMA StoreStep ==
    ASSUME [Next]_vars
    PROVE  UNCHANGED stored \/ \E m \in streams : CommitStream(m)
<1>1. ASSUME NEW j \in Jobs, Claiming(j) \/ Working(j) \/ Recovering(j)
      PROVE  UNCHANGED stored
    BY <1>1 DEF Claiming, StartClaim, PortClaim, ClaimRefused, Bind, PortFetching, Run,
                RecoverClaim, RecoverLost, Working, Heartbeat, PortRetry, ScheduleRetry,
                WaitForLease, Pin, OpenStream, BeginSubmit, Uncertain, ConsumeOutbox,
                Recovering, PropagateCancel, PlanStop, Stop, PlanReconcile, PlanCommitted,
                PlanEnded, PlanRetry, storeVars
<1>2. ASSUME NEW j \in Jobs, KnownLeaseEnds(j) \/ DeadlinePasses(j) PROVE UNCHANGED stored
    BY <1>2 DEF KnownLeaseEnds, DeadlinePasses, storeVars
<1>3. ASSUME NEW j \in Jobs, NEW s \in Sources, Register(j, s) \/ LeaseEnds(s)
      PROVE  UNCHANGED stored
    BY <1>3 DEF Register, LeaseEnds, ExpireLease, storeVars
<1>4. ASSUME NEW s \in Sources, LeaseEnds(s) PROVE UNCHANGED stored
    BY <1>4 DEF LeaseEnds, ExpireLease
<1>5. ASSUME NEW m \in streams, ReplayStream(m) \/ DropStream(m) PROVE UNCHANGED stored
    BY <1>5 DEF ReplayStream, DropStream, storeVars
<1>6. ASSUME NEW a \in acks, AcceptAck(a) PROVE UNCHANGED stored
    BY <1>6 DEF AcceptAck, storeVars
<1>7. CASE Publish \/ Cancel \/ Crash \/ UNCHANGED vars
    BY <1>7 DEF Publish, Cancel, CancelTask, Crash, vars, storeVars
<1>8. QED
    BY <1>1, <1>2, <1>3, <1>4, <1>5, <1>6, <1>7 DEF Next

-------------------------------------------------------------------------------
(* The invariant is inductive.                                                 *)

\* Committing a package: the source had none, and the job waits for its verdict.
LEMMA Stores ==
    ASSUME TypeOK, NEW m \in streams, CommitStream(m)
    PROVE  /\ m.job \in Jobs /\ m.pkg \in Packages /\ jobs[m.job].src \in Sources
           /\ jobs' = jobs /\ jobs[m.job].state \in {"submitting", "reconciling"}
           /\ jobs[m.job].pkg = m.pkg
           /\ stored[jobs[m.job].src] = None
           /\ stored' = [stored EXCEPT ![jobs[m.job].src] = Row(m.job)]
           /\ Row(m.job) # None /\ Row(m.job).job = m.job /\ Row(m.job).pkg = m.pkg
<1>1. m.job \in Jobs /\ m.pkg \in Packages
    BY DEF TypeOK
<1>2. jobs[m.job].pkg = m.pkg /\ jobs[m.job].state \in {"submitting", "reconciling"}
    BY DEF CommitStream, Acceptable
<1>3. jobs[m.job].src \in Sources
    BY <1>1, <1>2, Records
<1>4. Row(m.job) \in [job : Jobs, pkg : Packages, fence : Nat, epoch : Nat]
    BY <1>1, <1>2, Records DEF Row, JobRecords
<1>5. Row(m.job) # None
    BY <1>4, StoreAssumption
<1>6. Row(m.job).job = m.job /\ Row(m.job).pkg = m.pkg
    BY <1>2 DEF Row
<1>7. QED
    BY <1>1, <1>2, <1>3, <1>5, <1>6 DEF CommitStream, StorePackage

\* A row is its job's only one, at the job's source; the receipt is its package.
LEMMA RowOf ==
    ASSUME TypeOK, CommitStaysConsumable, NEW s \in Sources, stored[s] # None
    PROVE  /\ stored[s].job \in Jobs /\ jobs[stored[s].job].src = s
           /\ stored[s] = Row(stored[s].job)
           /\ jobs[stored[s].job].state \in {"submitting", "reconciling", "committed"}
           /\ ReceiptOf(stored[s].job) # None
<1>1. stored[s] \in [job : Jobs, pkg : Packages, fence : Nat, epoch : Nat]
    BY DEF TypeOK, StoreTypeOK
<1>2. stored[s].job \in Jobs /\ stored[s].pkg \in Packages
    BY <1>1
<1>3. /\ jobs[stored[s].job].src = s /\ stored[s] = Row(stored[s].job)
      /\ jobs[stored[s].job].state \in {"submitting", "reconciling", "committed"}
    BY DEF CommitStaysConsumable
<1>4. ReceiptOf(stored[s].job) = stored[s].pkg
    BY <1>3 DEF ReceiptOf, Event
<1>5. QED
    BY <1>2, <1>3, <1>4, StoreAssumption

\* A row that the registry can consume.
Consumable(s, j) ==
    /\ jobs[j].src = s /\ stored[s] = Row(j)
    /\ jobs[j].state \in {"submitting", "reconciling", "committed"}

LEMMA ConsumableStep ==
    ASSUME IInv, [Next]_vars
    PROVE  CommitStaysConsumable'
<1>1. TypeOK /\ OpInv /\ CommitStaysConsumable /\ AckInv
    BY DEF IInv
<1>2. SUFFICES ASSUME NEW s \in Sources, stored'[s] # None, NEW j, j = stored'[s].job
               PROVE  Consumable(s, j)'
    BY DEF CommitStaysConsumable, Consumable
<1>3. CASE UNCHANGED stored
    <2>1. j \in Jobs /\ Consumable(s, j) /\ ReceiptOf(j) # None
        BY <1>1, <1>2, <1>3, RowOf DEF Consumable
    <2>2. CASE jobs'[j] = jobs[j]
        BY <1>3, <2>1, <2>2 DEF Consumable, Row
    <2>3. CASE Effect(j)
        <3>1. SameRow(j) /\ jobs'[j].state \in {"submitting", "reconciling", "committed"}
            BY <2>1, <2>3 DEF Consumable, Effect, Early, Keeps, Commits, Ends, Terminal
        <3>2. QED
            BY <1>3, <2>1, <3>1 DEF Consumable, Row, SameRow
    <2>4. \A i \in Jobs \ {j} : Effect(i) => jobs'[j] = jobs[j]
        BY <2>1 DEF Effect, Others
    <2>5. QED
        BY <1>1, <2>2, <2>3, <2>4, JobsStep
<1>4. ASSUME NEW m \in streams, CommitStream(m) PROVE Consumable(s, j)'
    <2> DEFINE t == jobs[m.job].src
    <2>1. /\ jobs' = jobs /\ t \in Sources /\ stored' = [stored EXCEPT ![t] = Row(m.job)]
          /\ Row(m.job).job = m.job /\ jobs[m.job].state \in {"submitting", "reconciling"}
        BY <1>1, <1>4, Stores
    <2>2. stored'[t] = Row(m.job) /\ (s # t => stored'[s] = stored[s])
        BY <1>1, <2>1 DEF TypeOK, StoreTypeOK
    <2>3. CASE s = t
        BY <1>2, <2>1, <2>2, <2>3 DEF Consumable, Row
    <2>4. CASE s # t
        <3>1. Consumable(s, j)
            BY <1>1, <1>2, <2>2, <2>4, RowOf DEF Consumable
        <3>2. QED
            BY <2>1, <2>2, <2>4, <3>1 DEF Consumable, Row
    <2>5. QED
        BY <2>3, <2>4
<1>5. QED
    BY <1>3, <1>4, StoreStep

\* Nothing but its own steps touches the job of a running operation.
LEMMA OpKept ==
    ASSUME TypeOK, OpInv, op' = op,
           Free \/ \A j \in Jobs : jobs'[j].state = jobs[j].state
    PROVE  OpInv'
BY DEF TypeOK, OpInv, Free

LEMMA OpEnds ==
    ASSUME op' = None
    PROVE  OpInv'
BY DEF OpInv

LEMMA OpStep ==
    ASSUME TypeOK, OpInv, [Next]_vars
    PROVE  OpInv'
<1>1. ASSUME NEW j \in Jobs, Claiming(j) PROVE OpInv'
    <2>1. ASSUME NEW w \in Workers, StartClaim(j, w) PROVE OpInv'
        <3>1. jobs'[j].state = "claim_pending"
            BY <2>1 DEF TypeOK, StartClaim, Save, To, JobRecords
        <3>2. QED
            BY <2>1, <3>1 DEF StartClaim, Begin, OpInv
    <2>2. CASE PortClaim(j)
        BY <2>2 DEF TypeOK, PortClaim, At, Continue, OpInv
    <2>3. CASE ClaimRefused(j) \/ Run(j)
        BY <2>3, OpEnds DEF ClaimRefused, Run, Done
    <2>4. CASE Bind(j)
        <3>1. jobs'[j].state = "claimed"
            BY <2>4 DEF TypeOK, Bind, Save, To, JobRecords
        <3>2. op'.kind \in {"fetch", "run"} /\ op'.job = j
            BY <2>4 DEF TypeOK, Bind, At, Continue
        <3>3. QED
            BY <3>1, <3>2 DEF OpInv
    <2>5. CASE PortFetching(j)
        BY <2>5 DEF TypeOK, PortFetching, At, Continue, OpInv
    <2>6. CASE RecoverClaim(j)
        BY <2>6 DEF RecoverClaim, Begin, OpInv
    <2>7. CASE RecoverLost(j)
        BY <2>7, OpKept DEF RecoverLost
    <2>8. QED
        BY <1>1, <2>1, <2>2, <2>3, <2>4, <2>5, <2>6, <2>7 DEF Claiming
<1>2. ASSUME NEW j \in Jobs, Working(j) PROVE OpInv'
    <2>1. CASE PortRetry(j)
        BY <2>1 DEF PortRetry, Begin, OpInv
    <2>2. CASE ScheduleRetry(j)
        BY <2>2, OpEnds DEF ScheduleRetry, Done
    <2>3. QED
        BY <1>2, <2>1, <2>2, OpKept
           DEF Working, Heartbeat, WaitForLease, Pin, OpenStream, BeginSubmit, Uncertain,
               ConsumeOutbox
<1>3. ASSUME NEW j \in Jobs, Recovering(j) PROVE OpInv'
    BY <1>3, OpKept DEF Recovering, PropagateCancel, PlanStop, Stop, PlanReconcile,
                        PlanCommitted, PlanEnded, PlanRetry
<1>4. ASSUME NEW j \in Jobs, KnownLeaseEnds(j) \/ DeadlinePasses(j) PROVE OpInv'
    <2>1. \A k \in Jobs : jobs'[k].state = jobs[k].state
        BY <1>4, TimeType DEF Ages, Changed
    <2>2. op' = op
        BY <1>4 DEF KnownLeaseEnds, DeadlinePasses
    <2>3. QED
        BY <2>1, <2>2, OpKept
<1>5. ASSUME NEW j \in Jobs, NEW s \in Sources, Register(j, s) PROVE OpInv'
    BY <1>5, OpKept DEF Register
<1>6. ASSUME NEW s \in Sources, LeaseEnds(s) PROVE OpInv'
    BY <1>6, OpKept DEF LeaseEnds
<1>7. ASSUME NEW m \in streams, CommitStream(m) \/ ReplayStream(m) \/ DropStream(m)
      PROVE  OpInv'
    BY <1>7, OpKept DEF CommitStream, ReplayStream, DropStream
<1>8. ASSUME NEW a \in acks, AcceptAck(a) PROVE OpInv'
    BY <1>8, OpKept DEF AcceptAck
<1>9. CASE Publish \/ Cancel \/ UNCHANGED vars
    BY <1>9, OpKept DEF Publish, Cancel, vars
<1>10. CASE Crash
    BY <1>10, OpEnds DEF Crash, Done
<1>11. QED
    BY <1>1, <1>2, <1>3, <1>4, <1>5, <1>6, <1>7, <1>8, <1>9, <1>10 DEF Next

LEMMA AckStep ==
    ASSUME TypeOK, AckInv, [Next]_vars
    PROVE  AckInv'
<1>1. \A s \in Sources : stored[s] # None => stored'[s] = stored[s]
    <2>1. ASSUME NEW m \in streams, CommitStream(m), NEW s \in Sources, stored[s] # None
          PROVE  stored'[s] = stored[s]
        BY <2>1, Stores DEF TypeOK, StoreTypeOK
    <2>2. QED
        BY <2>1, StoreStep
<1>2. CASE UNCHANGED acks
    BY <1>1, <1>2 DEF AckInv
<1>3. ASSUME NEW m \in streams, CommitStream(m) PROVE AckInv'
    <2>1. /\ jobs[m.job].src \in Sources /\ stored'[jobs[m.job].src] = Row(m.job)
          /\ Row(m.job) # None /\ Row(m.job).job = m.job
        BY <1>3, Stores DEF TypeOK, StoreTypeOK
    <2>2. acks' = acks \cup {[job |-> m.job, pkg |-> m.pkg]}
        BY <1>3 DEF CommitStream, Acknowledge
    <2>3. QED
        BY <1>1, <2>1, <2>2 DEF AckInv
<1>4. ASSUME NEW m \in streams, ReplayStream(m) PROVE AckInv'
    <2>1. m.job \in Jobs /\ jobs[m.job].state # "none"
        BY <1>4 DEF TypeOK, ReplayStream, Acceptable
    <2>2. jobs[m.job].src \in Sources
        BY <2>1, Records
    <2>3. stored[jobs[m.job].src] = Row(m.job) /\ Row(m.job).job = m.job
        BY <1>4 DEF ReplayStream, Row
    <2>4. Row(m.job) # None
        <3>1. jobs[m.job].pkg = m.pkg /\ m.pkg \in Packages
            BY <1>4 DEF TypeOK, ReplayStream, Acceptable
        <3>2. Row(m.job) \in [job : Jobs, pkg : Packages, fence : Nat, epoch : Nat]
            BY <2>1, <3>1, Records DEF Row, JobRecords
        <3>3. QED
            BY <3>2, StoreAssumption
    <2>5. acks' = acks \cup {[job |-> m.job, pkg |-> m.pkg]}
        BY <1>4 DEF ReplayStream, Acknowledge
    <2>6. QED
        BY <1>1, <2>2, <2>3, <2>4, <2>5 DEF AckInv
<1>5. \/ UNCHANGED acks
      \/ \E m \in streams : CommitStream(m) \/ ReplayStream(m)
    <2>1. ASSUME NEW j \in Jobs, Claiming(j) \/ Working(j) \/ Recovering(j)
          PROVE  UNCHANGED acks
        BY <2>1 DEF Claiming, StartClaim, PortClaim, ClaimRefused, Bind, PortFetching, Run,
                    RecoverClaim, RecoverLost, Working, Heartbeat, PortRetry, ScheduleRetry,
                    WaitForLease, Pin, OpenStream, BeginSubmit, Uncertain, ConsumeOutbox,
                    Recovering, PropagateCancel, PlanStop, Stop, PlanReconcile, PlanCommitted,
                    PlanEnded, PlanRetry
    <2>2. ASSUME NEW j \in Jobs, KnownLeaseEnds(j) \/ DeadlinePasses(j) PROVE UNCHANGED acks
        BY <2>2 DEF KnownLeaseEnds, DeadlinePasses
    <2>3. ASSUME NEW j \in Jobs, NEW s \in Sources, Register(j, s) PROVE UNCHANGED acks
        BY <2>3 DEF Register
    <2>4. ASSUME NEW s \in Sources, LeaseEnds(s) PROVE UNCHANGED acks
        BY <2>4 DEF LeaseEnds
    <2>5. ASSUME NEW m \in streams, DropStream(m) PROVE UNCHANGED acks
        BY <2>5 DEF DropStream
    <2>6. ASSUME NEW a \in acks, AcceptAck(a) PROVE UNCHANGED acks
        BY <2>6 DEF AcceptAck
    <2>7. CASE Publish \/ Cancel \/ Crash \/ UNCHANGED vars
        BY <2>7 DEF Publish, Cancel, Crash, vars
    <2>8. QED
        BY <2>1, <2>2, <2>3, <2>4, <2>5, <2>6, <2>7 DEF Next
<1>6. QED
    BY <1>2, <1>3, <1>4, <1>5

LEMMA InvInit == Init => IInv
<1>1. Init => OpInv /\ AckInv
    BY DEF Init, OpInv, AckInv
<1>2. Init => CommitStaysConsumable
    BY DEF Init, StoreInit, CommitStaysConsumable
<1>3. QED
    BY <1>1, <1>2, TypeInit DEF IInv

LEMMA InvStep == IInv /\ [Next]_vars => IInv'
BY TypeStep, OpStep, ConsumableStep, AckStep DEF IInv

LEMMA Inductive == Spec => []IInv
BY InvInit, InvStep, PTL DEF Spec

\* For any number of jobs, sources, workers and packages, registry, receiver and
\* store keep to their types: no operation writes a job without a source, a state
\* outside the transition table's, or a row without a package.
THEOREM TypeCorrect == Spec => []TypeOK
<1>1. IInv => TypeOK
    BY DEF IInv
<1>2. QED
    BY <1>1, Inductive, PTL

\* Whatever the processes, their crashes and the network do: a package that the
\* receiver committed keeps naming its job's package, attempt and policy, and the
\* job stays where consume_outbox and recovery_plan can only find it committed.
THEOREM CommitConsumable == Spec => []CommitStaysConsumable
<1>1. IInv => CommitStaysConsumable
    BY DEF IInv
<1>2. QED
    BY <1>1, Inductive, PTL

-------------------------------------------------------------------------------
(* The two databases implement AcquisitionVerdict.                             *)

Verdicts == [j \in Jobs |-> VerdictOf(j)]

LEMMA VerdictValue ==
    ASSUME NEW j \in Jobs
    PROVE  /\ jobs[j].state = "committed" => VerdictOf(j) = "committed"
           /\ jobs[j].state \in Stopped => VerdictOf(j) = "stopped"
           /\ jobs[j].state \notin Terminal => VerdictOf(j) = "open"
BY DEF VerdictOf, Stopped, Terminal

LEMMA PackageOf ==
    ASSUME TypeOK, NEW j \in Jobs
    PROVE  Abstract!HasPackage(j) <=> HasRow(j)
<1>1. ASSUME NEW s \in Sources, stored[s] # None
      PROVE  Kept[s] # None /\ Kept[s].job = stored[s].job
    <2>1. stored[s].job \in Jobs /\ stored[s].pkg \in Packages
        BY <1>1 DEF TypeOK, StoreTypeOK
    <2>2. QED
        BY <1>1, <2>1, RegistryAssumption DEF Kept
<1>2. \A s \in Sources : stored[s] = None => Kept[s] = None
    BY DEF Kept
<1>3. QED
    BY <1>1, <1>2 DEF Abstract!HasPackage, HasRow

\* A job without a row, as far as one that is over, or that has no receipt, goes.
LEMMA NoRow ==
    ASSUME TypeOK, CommitStaysConsumable, NEW j \in Jobs,
           \/ jobs[j].state \notin {"submitting", "reconciling", "committed"}
           \/ ReceiptOf(j) = None
    PROVE  ~HasRow(j)
BY RowOf DEF HasRow

LEMMA StoringStep ==
    ASSUME TypeOK, CommitStaysConsumable, NEW m \in streams, CommitStream(m)
    PROVE  Abstract!Next
<1> DEFINE j == m.job
           t == jobs[j].src
<1>1. /\ j \in Jobs /\ m.pkg \in Packages /\ t \in Sources /\ jobs' = jobs
      /\ jobs[j].state \in {"submitting", "reconciling"} /\ stored[t] = None
      /\ stored' = [stored EXCEPT ![t] = Row(j)]
      /\ Row(j) # None /\ Row(j).job = j /\ Row(j).pkg = m.pkg
    BY Stores
<1>2. Kept[t] = None
    BY <1>1 DEF Kept
<1>3. Verdicts[j] = "open"
    BY <1>1, VerdictValue DEF Verdicts, Terminal, Stopped
<1>4. ~Abstract!HasPackage(j)
    BY <1>1, RowOf, PackageOf DEF HasRow
<1>5. Kept' = [Kept EXCEPT ![t] = [job |-> j, pkg |-> m.pkg]]
    <2>1. stored'[t] = Row(j) /\ \A s \in Sources \ {t} : stored'[s] = stored[s]
        BY <1>1 DEF TypeOK, StoreTypeOK
    <2>2. QED
        BY <1>1, <2>1 DEF Kept
<1>6. Verdicts' = Verdicts
    BY <1>1 DEF Verdicts, VerdictOf
<1>7. Abstract!Keep(t, j, m.pkg)
    BY <1>2, <1>3, <1>4, <1>5, <1>6 DEF Abstract!Keep, Verdicts
<1>8. QED
    BY <1>1, <1>7 DEF Abstract!Next

LEMMA EffectStep ==
    ASSUME TypeOK, TypeOK', CommitStaysConsumable, UNCHANGED stored, NEW j \in Jobs, Effect(j)
    PROVE  Abstract!Next \/ UNCHANGED <<Kept, Verdicts>>
<1>1. Kept' = Kept
    BY DEF Kept
<1>2. Verdicts' = [Verdicts EXCEPT ![j] = VerdictOf(j)']
    <2>1. \A k \in Jobs \ {j} : VerdictOf(k)' = VerdictOf(k)
        BY DEF Effect, Others, VerdictOf
    <2>2. QED
        BY <2>1 DEF Verdicts
<1>3. Verdicts[j] = VerdictOf(j) /\ (VerdictOf(j)' = VerdictOf(j) => Verdicts' = Verdicts)
    BY <1>2 DEF Verdicts
<1>4. /\ jobs'[j].state = "committed" => VerdictOf(j)' = "committed"
      /\ jobs'[j].state \in Stopped => VerdictOf(j)' = "stopped"
      /\ jobs'[j].state \notin Terminal => VerdictOf(j)' = "open"
    BY DEF VerdictOf, Stopped, Terminal
<1>5. CASE Keeps(j)
    <2>1. VerdictOf(j)' = VerdictOf(j)
        <3>1. CASE jobs'[j].state = jobs[j].state
            BY <3>1 DEF VerdictOf
        <3>2. CASE jobs[j].state \notin Terminal
                   /\ jobs'[j].state \in {"submitting", "reconciling"}
            BY <1>4, <3>2, VerdictValue DEF Terminal, Stopped
        <3>3. QED
            BY <1>5, <3>1, <3>2 DEF Keeps
    <2>2. QED
        BY <1>1, <1>3, <2>1
<1>6. CASE Commits(j)
    <2>1. VerdictOf(j) = "open" /\ VerdictOf(j)' = "committed" /\ Abstract!HasPackage(j)
        BY <1>4, <1>6, VerdictValue, PackageOf DEF Commits, Terminal, Stopped
    <2>2. Abstract!Commit(j)
        BY <1>1, <1>2, <1>3, <2>1 DEF Abstract!Commit, Verdicts
    <2>3. QED
        BY <2>2 DEF Abstract!Next
<1>7. CASE Early(j) \/ Ends(j)
    <2>1. jobs[j].state \notin Terminal /\ jobs'[j].state # "committed"
        BY <1>7 DEF Early, Ends, Terminal, Stopped
    <2>2. ~Abstract!HasPackage(j)
        BY <1>7, NoRow, PackageOf DEF Early, Ends, Terminal
    <2>3. VerdictOf(j) = "open"
        BY <2>1, VerdictValue
    <2>4. CASE jobs'[j].state \in Stopped
        <3>1. Abstract!Stop(j)
            BY <1>1, <1>2, <1>3, <1>4, <2>2, <2>3, <2>4 DEF Abstract!Stop, Verdicts
        <3>2. QED
            BY <3>1 DEF Abstract!Next
    <2>5. CASE jobs'[j].state \notin Stopped
        BY <1>1, <1>3, <1>4, <2>1, <2>3, <2>5 DEF Terminal
    <2>6. QED
        BY <2>4, <2>5
<1>8. QED
    BY <1>5, <1>6, <1>7 DEF Effect

LEMMA VerdictInit == Init => Abstract!Init
<1>1. Init => Kept = [s \in Sources |-> None]
    BY DEF Init, StoreInit, Kept
<1>2. Init => Verdicts = [j \in Jobs |-> "open"]
    BY DEF Init, NoJob, Verdicts, VerdictOf, Stopped
<1>3. QED
    BY <1>1, <1>2 DEF Abstract!Init, Verdicts

LEMMA VerdictStep ==
    ASSUME IInv, IInv', [Next]_vars
    PROVE  [Abstract!Next]_<<Kept, Verdicts>>
<1>1. TypeOK /\ OpInv /\ AckInv /\ CommitStaysConsumable /\ TypeOK'
    BY DEF IInv
<1>2. ASSUME NEW m \in streams, CommitStream(m) PROVE Abstract!Next
    BY <1>1, <1>2, StoringStep
<1>3. CASE UNCHANGED stored
    <2>1. CASE jobs' = jobs
        BY <1>3, <2>1 DEF Kept, Verdicts, VerdictOf
    <2>2. CASE \E j \in Jobs : Effect(j)
        BY <1>1, <1>3, <2>2, EffectStep
    <2>3. QED
        BY <1>1, <2>1, <2>2, JobsStep
<1>4. QED
    BY <1>2, <1>3, StoreStep

\* The registry and the acquisition database, which commit one after the other and
\* may die in between, together implement AcquisitionVerdict: a job is pronounced
\* committed only when its own package is stored, stopped only when it is not and
\* never will be, and no verdict is revised.
THEOREM VerdictImplemented == Spec => VerdictSpec
<1>1. IInv /\ IInv' /\ [Next]_vars => [Abstract!Next]_<<Kept, Verdicts>>
    BY VerdictStep
<1>2. IInv /\ IInv' /\ [Next]_vars => [Abstract!Next]_(Abstract!vars)
    BY <1>1 DEF Verdicts, Abstract!vars
<1>3. QED
    BY <1>2, VerdictInit, Inductive, PTL DEF Spec, VerdictSpec, Abstract!Spec

-------------------------------------------------------------------------------
(* What one operation may do to a job, and who works for a source.             *)

\* A change of a job that is registered: along an edge of the table, by an attempt
\* that is not older, with the package it had or with one that no other job has.
Moves(j) ==
    /\ jobs'[j].src = jobs[j].src /\ jobs'[j].epoch = jobs[j].epoch
    /\ jobs'[j].state = jobs[j].state \/ jobs'[j].state \in Edges[jobs[j].state]
    /\ jobs'[j].fence >= jobs[j].fence
    /\ \/ jobs'[j].pkg = jobs[j].pkg
       \/ jobs[j].pkg = None /\ \A k \in Jobs : jobs[k].pkg # jobs'[j].pkg

Registers(j) ==
    /\ jobs[j].state = "none" /\ jobs'[j] = Fresh(j, jobs'[j].src)
    /\ \A k \in Jobs : jobs[k].src = jobs'[j].src => jobs[k].state \in Terminal

LEMMA AlongEdge ==
    ASSUME TypeOK, NEW j \in Jobs, NEW t \in States, t # "none", jobs[j].state # "none",
           Save(j, To(j, t)), t \in Edges[jobs[j].state]
    PROVE  Others(j) /\ Moves(j)
<1>1. Changed(j, {t}) /\ jobs'[j].pkg = jobs[j].pkg /\ jobs'[j].fence = jobs[j].fence
    BY ToType
<1>2. jobs[j].fence \in Nat
    BY Records DEF JobRecords
<1>3. QED
    BY <1>1, <1>2 DEF Changed, Others, Moves

\* The table, as the operations use it.
LEMMA EdgesFrom ==
    /\ "claim_pending" \in Edges["registered"] /\ "claim_pending" \in Edges["retry_wait"]
    /\ {"claimed", "reconciling"} \subseteq Edges["claim_pending"]
    /\ {"fetching", "retry_wait", "reconciling"} \subseteq Edges["claimed"]
    /\ {"prepared", "retry_wait", "reconciling"} \subseteq Edges["fetching"]
    /\ {"submitting", "reconciling"} \subseteq Edges["prepared"]
    /\ {"committed", "reconciling"} \subseteq Edges["submitting"]
    /\ {"committed", "retry_wait"} \cup Stopped \subseteq Edges["reconciling"]
    /\ \A t \in States \ ({"none", "submitting", "reconciling"} \cup Terminal) :
           Stopped \subseteq Edges[t]
    /\ \A t \in Terminal \cup {"none"} : Edges[t] = {}
BY EdgeStates DEF Edges, States, Stopped, Terminal

LEMMA StopMoves ==
    ASSUME TypeOK, NEW j \in Jobs, NEW t \in Stopped, Stop(j, t)
    PROVE  Others(j) /\ Moves(j)
<1>1. /\ Changed(j, {EndState(j, t)})
      /\ jobs'[j].pkg = jobs[j].pkg /\ jobs'[j].fence = jobs[j].fence
    BY StopType
<1>2. jobs[j].fence \in Nat /\ jobs[j].state \in States
    BY Records DEF JobRecords
<1>3. jobs[j].state \notin Terminal \cup {"none"}
    BY DEF Stop
<1>4. EndState(j, t) = jobs[j].state \/ EndState(j, t) \in Edges[jobs[j].state]
    BY <1>2, <1>3, EdgesFrom DEF EndState
<1>5. QED
    BY <1>1, <1>2, <1>4 DEF Changed, Others, Moves

LEMMA CommitMoves ==
    ASSUME TypeOK, NEW j \in Jobs, NEW p \in Packages \cup {None}, jobs[j].state # "none",
           Save(j, Known(j, p)), UNCHANGED <<storeVars, epoch, op, streams, acks>>,
           "committed" \in Edges[jobs[j].state]
    PROVE  Others(j) /\ Moves(j)
<1>1. /\ Changed(j, {"committed"}) /\ jobs'[j].pkg = jobs[j].pkg
      /\ jobs'[j].fence = jobs[j].fence
    BY KnownType
<1>2. jobs[j].fence \in Nat
    BY Records DEF JobRecords
<1>3. QED
    BY <1>1, <1>2 DEF Changed, Others, Moves

LEMMA ClaimingMoves ==
    ASSUME TypeOK, OpInv, NEW j \in Jobs, Claiming(j)
    PROVE  jobs' = jobs \/ (Others(j) /\ Moves(j))
<1>1. ASSUME NEW w \in Workers, StartClaim(j, w) PROVE Others(j) /\ Moves(j)
    <2>1. /\ jobs'[j] = [To(j, "claim_pending") EXCEPT !.worker = w]
          /\ \A k \in Jobs \ {j} : jobs'[k] = jobs[k]
        BY <1>1 DEF TypeOK, StartClaim, Save
    <2>2. /\ jobs'[j].state = "claim_pending" /\ jobs'[j].src = jobs[j].src
          /\ jobs'[j].epoch = jobs[j].epoch /\ jobs'[j].fence = jobs[j].fence
          /\ jobs'[j].pkg = jobs[j].pkg /\ jobs[j].fence \in Nat
        BY <2>1, Records DEF To, JobRecords
    <2>3. "claim_pending" \in Edges[jobs[j].state]
        BY <1>1, EdgesFrom DEF StartClaim
    <2>4. QED
        BY <2>1, <2>2, <2>3 DEF Others, Moves
<1>2. CASE ClaimRefused(j)
    <2>1. jobs[j].state = "claim_pending" /\ Save(j, To(j, "reconciling"))
        BY <1>2 DEF ClaimRefused, At, OpInv
    <2>2. QED
        BY <2>1, AlongEdge, EdgesFrom DEF States
<1>3. CASE Bind(j)
    <2>1. jobs[j].state = "claim_pending"
        BY <1>3 DEF Bind, At, OpInv
    <2>2. /\ jobs'[j] = [To(j, "claimed") EXCEPT !.fence = Claim(j).fence, !.live = TRUE]
          /\ \A k \in Jobs \ {j} : jobs'[k] = jobs[k]
        BY <1>3 DEF TypeOK, Bind, Save
    <2>3. /\ jobs'[j].state = "claimed" /\ jobs'[j].src = jobs[j].src
          /\ jobs'[j].epoch = jobs[j].epoch /\ jobs'[j].fence = Claim(j).fence
          /\ jobs'[j].pkg = jobs[j].pkg
        BY <2>2, Records DEF To, JobRecords
    <2>4. jobs[j].fence \in Nat /\ Claim(j).fence \in Nat /\ Claim(j).fence > jobs[j].fence
        BY <1>3, <2>1, Records, ClaimType DEF JobRecords, Bind, Bindable
    <2>5. QED
        BY <2>1, <2>2, <2>3, <2>4, EdgesFrom DEF Others, Moves
<1>4. CASE Run(j)
    <2>1. jobs[j].state = "claimed" /\ Save(j, To(j, "fetching"))
        BY <1>4 DEF Run, At, OpInv
    <2>2. QED
        BY <2>1, AlongEdge, EdgesFrom DEF States
<1>5. CASE RecoverLost(j)
    <2>1. jobs[j].state \in {"claim_pending", "claimed"} /\ Save(j, To(j, "reconciling"))
        BY <1>5 DEF RecoverLost
    <2>2. QED
        BY <2>1, AlongEdge, EdgesFrom DEF States
<1>6. QED
    BY <1>1, <1>2, <1>3, <1>4, <1>5 DEF Claiming, PortClaim, PortFetching, RecoverClaim

LEMMA WorkingMoves ==
    ASSUME TypeOK, OpInv, NEW j \in Jobs, Working(j)
    PROVE  jobs' = jobs \/ (Others(j) /\ Moves(j))
<1>1. CASE Heartbeat(j)
    <2>1. Ages(j) /\ jobs[j].fence \in Nat
        BY <1>1, TimeType, Records DEF JobRecords
    <2>2. QED
        BY <2>1 DEF Ages, Changed, Others, Moves
<1>2. CASE ScheduleRetry(j)
    <2>1. jobs[j].state \in {"claimed", "fetching"} /\ Save(j, To(j, "retry_wait"))
        BY <1>2 DEF ScheduleRetry, At, OpInv
    <2>2. QED
        BY <2>1, AlongEdge, EdgesFrom DEF States
<1>3. CASE WaitForLease(j)
    <2>1. jobs[j].state = "claimed" /\ Save(j, To(j, "retry_wait"))
        BY <1>3 DEF WaitForLease
    <2>2. QED
        BY <2>1, AlongEdge, EdgesFrom DEF States
<1>4. ASSUME NEW p \in Packages, Pin(j, p) PROVE Others(j) /\ Moves(j)
    <2>1. /\ jobs'[j] = [To(j, "prepared") EXCEPT !.pkg = p]
          /\ \A k \in Jobs \ {j} : jobs'[k] = jobs[k]
        BY <1>4 DEF TypeOK, Pin, Save
    <2>2. /\ jobs'[j].state = "prepared" /\ jobs'[j].src = jobs[j].src
          /\ jobs'[j].epoch = jobs[j].epoch /\ jobs'[j].fence = jobs[j].fence
          /\ jobs'[j].pkg = p /\ jobs[j].fence \in Nat
        BY <2>1, Records DEF To, JobRecords
    <2>3. "prepared" \in Edges[jobs[j].state]
        BY <1>4, EdgesFrom DEF Pin
    <2>4. p = jobs[j].pkg \/ (jobs[j].pkg = None /\ \A k \in Jobs : jobs[k].pkg # p)
        BY <1>4 DEF Pin
    <2>5. QED
        BY <2>1, <2>2, <2>3, <2>4 DEF Others, Moves
<1>5. CASE BeginSubmit(j)
    BY <1>5, GoFrom, AlongEdge DEF BeginSubmit, Go, States
<1>6. CASE Uncertain(j)
    BY <1>6, GoFrom, AlongEdge DEF Uncertain, Go, States
<1>7. CASE ConsumeOutbox(j)
    <2>1. jobs[j].pkg \in Packages \cup {None}
        BY Records DEF JobRecords
    <2>2. QED
        BY <1>7, <2>1, CommitMoves DEF ConsumeOutbox, Go
<1>8. QED
    BY <1>1, <1>2, <1>3, <1>4, <1>5, <1>6, <1>7 DEF Working, PortRetry, OpenStream

LEMMA RecoveringMoves ==
    ASSUME TypeOK, NEW j \in Jobs, Recovering(j)
    PROVE  Others(j) /\ Moves(j)
<1>1. CASE PropagateCancel(j)
    BY <1>1, StopMoves DEF PropagateCancel, Stopped
<1>2. CASE PlanStop(j)
    BY <1>2, StopMoves, ReasonGiven DEF PlanStop, MustStop, Stopped
<1>3. CASE PlanReconcile(j)
    <2>1. /\ jobs[j].state \in {"fetching", "prepared", "submitting"}
          /\ Save(j, To(j, "reconciling"))
        BY <1>3 DEF PlanReconcile, MustReconcile
    <2>2. QED
        BY <2>1, AlongEdge, EdgesFrom DEF States
<1>4. CASE PlanCommitted(j)
    <2>1. jobs[j].pkg \in Packages \cup {None}
        BY Records DEF JobRecords
    <2>2. jobs[j].state = "reconciling" /\ "committed" \in Edges["reconciling"]
        BY <1>4, EdgesFrom DEF PlanCommitted, FoundCommitted
    <2>3. QED
        BY <1>4, <2>1, <2>2, CommitMoves DEF PlanCommitted, FoundCommitted
<1>5. ASSUME NEW spool \in BOOLEAN, PlanEnded(j, spool) PROVE Others(j) /\ Moves(j)
    <2>1. Verdict(j, spool) \in Stopped /\ jobs[j].state = "reconciling"
        BY <1>5 DEF PlanEnded, FoundNothing, Verdict, Reason, Stopped
    <2>2. Verdict(j, spool) \in Edges["reconciling"]
        BY <2>1, EdgesFrom
    <2>3. QED
        BY <1>5, <2>1, <2>2, AlongEdge DEF PlanEnded, FoundNothing, Stopped, States
<1>6. CASE PlanRetry(j)
    <2>1. jobs[j].state = "reconciling" /\ Save(j, To(j, "retry_wait"))
        BY <1>6 DEF PlanRetry
    <2>2. QED
        BY <2>1, AlongEdge, EdgesFrom DEF States
<1>7. QED
    BY <1>1, <1>2, <1>3, <1>4, <1>5, <1>6 DEF Recovering

LEMMA MovesStep ==
    ASSUME TypeOK, OpInv, [Next]_vars
    PROVE  jobs' = jobs \/ \E j \in Jobs : Others(j) /\ (Moves(j) \/ Registers(j))
<1>1. ASSUME NEW j \in Jobs, NEW s \in Sources, Register(j, s)
      PROVE  Others(j) /\ Registers(j)
    <2>1. jobs'[j] = Fresh(j, s) /\ Fresh(j, s).src = s
        BY <1>1, RegisterType DEF Fresh, NoJob
    <2>2. QED
        BY <1>1, <2>1, RegisterType DEF Register, Others, Registers
<1>2. ASSUME NEW j \in Jobs, KnownLeaseEnds(j) \/ DeadlinePasses(j)
      PROVE  Others(j) /\ Moves(j)
    <2>1. Ages(j) /\ jobs[j].fence \in Nat
        BY <1>2, TimeType, Records DEF JobRecords
    <2>2. QED
        BY <2>1 DEF Ages, Changed, Others, Moves
<1>3. ASSUME NEW a \in acks, AcceptAck(a) PROVE \E j \in Jobs : Others(j) /\ Moves(j)
    <2>1. a.job \in Jobs /\ a.pkg \in Packages
        BY DEF TypeOK
    <2>2. jobs[a.job].state \in {"submitting", "reconciling"}
        BY <1>3, <2>1, GoFrom DEF AcceptAck
    <2>3. Others(a.job) /\ Moves(a.job)
        BY <1>3, <2>1, <2>2, CommitMoves DEF AcceptAck, Go
    <2>4. QED
        BY <2>1, <2>3
<1>4. ASSUME NEW s \in Sources, LeaseEnds(s) PROVE jobs' = jobs
    BY <1>4 DEF LeaseEnds
<1>5. ASSUME NEW m \in streams, CommitStream(m) \/ ReplayStream(m) \/ DropStream(m)
      PROVE  jobs' = jobs
    BY <1>5 DEF CommitStream, ReplayStream, DropStream
<1>6. CASE Publish \/ Cancel \/ Crash \/ UNCHANGED vars
    BY <1>6 DEF Publish, Cancel, Crash, vars
<1>7. QED
    BY <1>1, <1>2, <1>3, <1>4, <1>5, <1>6, ClaimingMoves, WorkingMoves, RecoveringMoves
       DEF Next

\* Whatever policy, worker or crash comes between, one job at most works for a source,
\* and a package on disk belongs to one job.
OneJobPerSource ==
    \A j, k \in Jobs : j # k /\ Underway(j) /\ Underway(k) => jobs[j].src # jobs[k].src
PinsApart ==
    \A j, k \in Jobs : j # k /\ jobs[j].pkg # None => jobs[j].pkg # jobs[k].pkg

LEMMA ApartStep ==
    ASSUME TypeOK, OpInv, OneJobPerSource, PinsApart, [Next]_vars
    PROVE  OneJobPerSource' /\ PinsApart'
<1>1. CASE jobs' = jobs
    BY <1>1 DEF OneJobPerSource, PinsApart, Underway
<1>2. ASSUME NEW i \in Jobs, Others(i), Moves(i) PROVE OneJobPerSource' /\ PinsApart'
    <2>1. Underway(i)' => Underway(i)
        <3>1. jobs[i].state \in Terminal \cup {"none"} => Edges[jobs[i].state] = {}
            BY EdgesFrom
        <3>2. QED
            BY <1>2, <3>1 DEF Moves, Underway
    <2>2. OneJobPerSource'
        BY <1>2, <2>1 DEF OneJobPerSource, Underway, Others, Moves
    <2>3. PinsApart'
        BY <1>2 DEF PinsApart, Others, Moves
    <2>4. QED
        BY <2>2, <2>3
<1>3. ASSUME NEW i \in Jobs, Others(i), Registers(i) PROVE OneJobPerSource' /\ PinsApart'
    <2>1. jobs'[i].pkg = None
        BY <1>3 DEF Registers, Fresh, NoJob
    <2>2. PinsApart'
        BY <1>3, <2>1 DEF PinsApart, Others
    <2>3. \A k \in Jobs \ {i} : jobs'[k].src = jobs'[i].src => ~Underway(k)'
        BY <1>3 DEF Registers, Others, Underway
    <2>4. OneJobPerSource'
        BY <1>3, <2>3 DEF OneJobPerSource, Underway, Others
    <2>5. QED
        BY <2>2, <2>4
<1>4. QED
    BY <1>1, <1>2, <1>3, MovesStep

\* At most one job of a source is under way, whatever is stopped, revoked and begun
\* again in between, and no two jobs have pinned the same package (register, pin).
THEOREM OneJobAtWork == Spec => [](OneJobPerSource /\ PinsApart)
<1>1. Init => OneJobPerSource /\ PinsApart
    BY DEF Init, NoJob, OneJobPerSource, PinsApart, Underway
<1>2. IInv /\ OneJobPerSource /\ PinsApart /\ [Next]_vars => OneJobPerSource' /\ PinsApart'
    BY ApartStep DEF IInv
<1>3. QED
    BY <1>1, <1>2, Inductive, PTL DEF Spec

\* Every change of a job's record, in any number of jobs, keeps to the table (EDGES,
\* _transition).
THEOREM TransitionsLegal == Spec => TableKept
<1>1. ASSUME IInv, [Next]_vars, NEW j \in Jobs PROVE Transition(j)
    <2>1. TypeOK /\ OpInv /\ jobs[j].fence \in Nat
        BY <1>1, Records DEF IInv, JobRecords
    <2>2. CASE jobs'[j] = jobs[j]
        BY <2>1, <2>2 DEF Transition
    <2>3. CASE Moves(j)
        BY <2>3 DEF Moves, Transition
    <2>4. CASE Registers(j)
        BY <2>4 DEF Registers, Fresh, NoJob, Transition
    <2>5. QED
        BY <1>1, <2>1, <2>2, <2>3, <2>4, MovesStep DEF Others
<1>2. IInv /\ [Next]_vars => [\A j \in Jobs : Transition(j)]_vars
    BY <1>1
<1>3. QED
    BY <1>2, Inductive, PTL DEF Spec, TableKept

-------------------------------------------------------------------------------
(* The claim of a stored package.                                              *)

\* A source's claim is sealed exactly when its package is stored, by the attempt that
\* stored it: no cancellation abandons it and no later attempt is begun.
SealedIsStored ==
    \A s \in Sources :
        /\ claims[s].state = "sealed" <=> stored[s] # None
        /\ stored[s] # None => claims[s].fence = stored[s].fence

\* What happens to the claim of a source while nothing is stored.
ClaimStays(s) ==
    /\ claims'[s].state = "sealed" <=> claims[s].state = "sealed"
    /\ claims[s].state = "sealed" => claims'[s].fence = claims[s].fence

LEMMA MoveStays ==
    ASSUME TypeOK, NEW t \in Sources, NEW from, NEW target, MoveClaim(t, from, target),
           "sealed" \notin from, target # "sealed"
    PROVE  \A s \in Sources : ClaimStays(s)
BY DEF TypeOK, StoreTypeOK, MoveClaim, ClaimStays

LEMMA ClaimStep ==
    ASSUME TypeOK, OpInv, [Next]_vars
    PROVE  (\E m \in streams : CommitStream(m)) \/ \A s \in Sources : ClaimStays(s)
<1>1. ASSUME NEW j \in Jobs, PortClaim(j) PROVE \A s \in Sources : ClaimStays(s)
    <2>1. jobs[j].src \in Sources
        BY <1>1, Records DEF PortClaim, At, OpInv
    <2>2. QED
        BY <1>1, <2>1 DEF TypeOK, StoreTypeOK, PortClaim, TakeClaim, Claimable, ClaimStays
<1>2. ASSUME NEW j \in Jobs, PortFetching(j) PROVE \A s \in Sources : ClaimStays(s)
    <2>1. jobs[j].src \in Sources
        BY <1>2, Records DEF PortFetching, At, OpInv
    <2>2. QED
        BY <1>2, <2>1, MoveStays DEF PortFetching
<1>3. ASSUME NEW j \in Jobs, PortRetry(j) PROVE \A s \in Sources : ClaimStays(s)
    <2>1. jobs[j].src \in Sources
        BY <1>3, Records DEF PortRetry
    <2>2. QED
        BY <1>3, <2>1, MoveStays DEF PortRetry
<1>4. ASSUME NEW j \in Jobs, DeadlinePasses(j) PROVE \A s \in Sources : ClaimStays(s)
    <2>1. jobs[j].src \in Sources
        BY <1>4, Records DEF DeadlinePasses
    <2>2. QED
        BY <1>4, <2>1 DEF TypeOK, StoreTypeOK, DeadlinePasses, ClaimStays
<1>5. ASSUME NEW t \in Sources, LeaseEnds(t) PROVE \A s \in Sources : ClaimStays(s)
    BY <1>5 DEF TypeOK, StoreTypeOK, LeaseEnds, ExpireLease, ClaimStays
<1>6. CASE Cancel
    BY <1>6 DEF TypeOK, StoreTypeOK, Cancel, CancelTask, ClaimStays
<1>7. CASE UNCHANGED claims
    BY <1>7 DEF ClaimStays
<1>8. ASSUME NEW j \in Jobs, Claiming(j), ~PortClaim(j), ~PortFetching(j)
      PROVE  UNCHANGED claims
    BY <1>8 DEF Claiming, StartClaim, ClaimRefused, Bind, Run, RecoverClaim, RecoverLost,
                storeVars
<1>9. ASSUME NEW j \in Jobs, Working(j), ~PortRetry(j) PROVE UNCHANGED claims
    BY <1>9 DEF Working, Heartbeat, ScheduleRetry, WaitForLease, Pin, OpenStream, BeginSubmit,
                Uncertain, ConsumeOutbox, storeVars
<1>10. ASSUME NEW j \in Jobs, Recovering(j) PROVE UNCHANGED claims
    BY <1>10 DEF Recovering, PropagateCancel, PlanStop, Stop, PlanReconcile, PlanCommitted,
                 PlanEnded, PlanRetry, storeVars
<1>11. ASSUME NEW j \in Jobs, NEW s \in Sources, Register(j, s) PROVE UNCHANGED claims
    BY <1>11 DEF Register, storeVars
<1>12. ASSUME NEW j \in Jobs, KnownLeaseEnds(j) PROVE UNCHANGED claims
    BY <1>12 DEF KnownLeaseEnds, storeVars
<1>13. ASSUME NEW m \in streams, ReplayStream(m) \/ DropStream(m) PROVE UNCHANGED claims
    BY <1>13 DEF ReplayStream, DropStream, storeVars
<1>14. ASSUME NEW a \in acks, AcceptAck(a) PROVE UNCHANGED claims
    BY <1>14 DEF AcceptAck, storeVars
<1>15. CASE Publish \/ Crash \/ UNCHANGED vars
    BY <1>15, <1>7 DEF Publish, Crash, vars, storeVars
<1>16. QED
    BY <1>1, <1>2, <1>3, <1>4, <1>5, <1>6, <1>7, <1>8, <1>9, <1>10, <1>11, <1>12, <1>13,
       <1>14, <1>15 DEF Next

LEMMA SealedStep ==
    ASSUME TypeOK, OpInv, SealedIsStored, [Next]_vars
    PROVE  SealedIsStored'
<1>1. ASSUME NEW m \in streams, CommitStream(m) PROVE SealedIsStored'
    <2> DEFINE t == jobs[m.job].src
    <2>1. /\ t \in Sources /\ Row(m.job) # None
          /\ stored' = [stored EXCEPT ![t] = Row(m.job)]
        BY <1>1, Stores
    <2>2. Row(m.job).fence = claims[t].fence
        BY <1>1 DEF CommitStream, Acceptable, Claim, Row
    <2>3. claims' = [claims EXCEPT ![t].state = "sealed"]
        BY <1>1 DEF CommitStream, StorePackage
    <2>4. QED
        BY <2>1, <2>2, <2>3 DEF TypeOK, StoreTypeOK, SealedIsStored
<1>2. CASE UNCHANGED stored /\ \A s \in Sources : ClaimStays(s)
    BY <1>2 DEF SealedIsStored, ClaimStays
<1>3. QED
    BY <1>1, <1>2, StoreStep, ClaimStep

\* Cancelling the task, a lease that runs out and a worker that claims again leave the
\* claim of a stored package alone, and nothing else is ever sealed
\* (_commit_staged, _discard_cancelled_staging, the adapter's claim).
THEOREM SealsMatch == Spec => []SealedIsStored
<1>1. Init => SealedIsStored
    BY DEF Init, StoreInit, SealedIsStored
<1>2. IInv /\ SealedIsStored /\ [Next]_vars => SealedIsStored'
    BY SealedStep DEF IInv
<1>3. QED
    BY <1>1, <1>2, Inductive, PTL DEF Spec

-------------------------------------------------------------------------------
(* A job that lost its grant.                                                  *)

EpochInv == \A j \in Jobs : jobs[j].state # "none" => jobs[j].epoch <= epoch

LEMMA LostReason ==
    ASSUME NEW j \in Jobs
    PROVE  jobs[j].state # "none" => (Lost(j) <=> Reason(j) # None)
BY RegistryAssumption DEF Lost, Reason

LEMMA LostAnswered ==
    ASSUME TypeOK, CommitStaysConsumable
    PROVE  LostIsAnswered
<1> SUFFICES ASSUME NEW j \in Jobs, Lost(j), Underway(j) PROVE Answered(j)
    BY DEF LostIsAnswered
<1>1. jobs[j].state \in {"registered", "claim_pending", "claimed", "fetching", "retry_wait",
                         "prepared", "submitting", "reconciling"}
    BY Records DEF States, Underway, Terminal, Stopped
<1>2. ~Authorized(j)
    BY DEF Lost, Authorized
<1>3. CASE jobs[j].state = "reconciling"
    <2>1. CASE ReceiptOf(j) # None
        <3>1. Event(j) # None /\ Event(j).job = j /\ ReceiptOf(j) = Event(j).pkg
            BY <2>1 DEF ReceiptOf
        <3>2. jobs[j].src \in Sources
            BY <1>3, Records
        <3>3. stored[jobs[j].src] = Row(j)
            BY <3>1, <3>2, RowOf DEF Event
        <3>4. QED
            BY <1>3, <2>1, <3>1, <3>3
               DEF Event, Row, Answered, MustStop, MustReconcile, FoundCommitted, FoundNothing
    <2>2. CASE ReceiptOf(j) = None
        <3>1. Reason(j) # None
            BY LostReason DEF Lost
        <3>2. \A spool \in BOOLEAN : Verdict(j, spool) = Reason(j)
            BY <3>1 DEF Verdict
        <3>3. QED
            BY <1>3, <2>2, <3>1, <3>2
               DEF Answered, MustStop, MustReconcile, FoundCommitted, FoundNothing
    <2>3. QED
        BY <2>1, <2>2
<1>4. QED
    BY <1>1, <1>2, <1>3 DEF Answered, MustStop, MustReconcile, FoundCommitted, FoundNothing

\* What a step does to a job without a grant: it stays without, and goes down.
LostGoes(j) ==
    Lost(j) => /\ jobs'[j].state # "none" /\ jobs'[j].epoch = jobs[j].epoch
               /\ jobs[j].cancel => jobs'[j].cancel
               /\ jobs[j].late => jobs'[j].late
               /\ GoesDown(j)

LEMMA SavedIs ==
    ASSUME TypeOK, NEW j \in Jobs, NEW rec, Save(j, rec)
    PROVE  jobs'[j] = rec /\ Others(j)
BY DEF TypeOK, Save, Others

LEMMA ToGoes ==
    ASSUME TypeOK, NEW j \in Jobs, NEW t \in States, t # "none", Save(j, To(j, t)),
           t = jobs[j].state \/ SettleLeft[t] < SettleLeft[jobs[j].state]
    PROVE  LostGoes(j) /\ Others(j)
<1>1. jobs'[j] = To(j, t) /\ Others(j)
    BY SavedIs
<1>2. /\ To(j, t).state = t /\ To(j, t).epoch = jobs[j].epoch
      /\ To(j, t).cancel = jobs[j].cancel /\ To(j, t).late = jobs[j].late
    BY Records DEF To, JobRecords
<1>3. QED
    BY <1>1, <1>2 DEF LostGoes, GoesDown

LEMMA KnownGoes ==
    ASSUME TypeOK, NEW j \in Jobs, NEW p, Save(j, Known(j, p)),
           jobs[j].state \in {"submitting", "reconciling"}
    PROVE  LostGoes(j) /\ Others(j)
<1>1. jobs'[j] = Known(j, p) /\ Others(j)
    BY SavedIs
<1>2. /\ Known(j, p).state = "committed" /\ Known(j, p).epoch = jobs[j].epoch
      /\ Known(j, p).cancel = jobs[j].cancel /\ Known(j, p).late = jobs[j].late
    BY Records DEF Known, To, JobRecords
<1>3. QED
    BY <1>1, <1>2 DEF LostGoes, GoesDown, SettleLeft

LEMMA StopGoes ==
    ASSUME TypeOK, NEW j \in Jobs, NEW t \in Stopped, Stop(j, t)
    PROVE  LostGoes(j) /\ Others(j)
<1> DEFINE to  == To(j, EndState(j, t))
           rec == [to EXCEPT !.cancel = @ \/ t = "cancelled"]
<1>1. jobs'[j] = rec /\ Others(j)
    BY SavedIs DEF Stop
<1>2. /\ rec.state = EndState(j, t) /\ rec.epoch = jobs[j].epoch
      /\ jobs[j].cancel => rec.cancel
      /\ rec.late = jobs[j].late
    BY Records DEF To, JobRecords
<1>3. jobs[j].state \in {"registered", "claim_pending", "claimed", "fetching", "retry_wait",
                         "prepared", "submitting", "reconciling"}
    BY Records DEF States, Stop, Terminal, Stopped
<1>4. /\ EndState(j, t) # "none"
      /\ EndState(j, t) = jobs[j].state \/ SettleLeft[EndState(j, t)] < SettleLeft[jobs[j].state]
    BY <1>3 DEF EndState, Stopped, SettleLeft
<1>5. QED
    BY <1>1, <1>2, <1>4 DEF LostGoes, GoesDown

LEMMA TimeGoes ==
    ASSUME TypeOK, NEW j \in Jobs, KnownLeaseEnds(j) \/ DeadlinePasses(j) \/ Heartbeat(j)
    PROVE  LostGoes(j) /\ Others(j)
<1>1. Ages(j) /\ Others(j)
    BY TimeType DEF Ages, Changed, Others
<1>2. jobs'[j].cancel = jobs[j].cancel /\ (jobs[j].late => jobs'[j].late)
    <2>1. jobs[j] \in JobRecords
        BY Records
    <2>2. CASE KnownLeaseEnds(j)
        <3>1. jobs'[j] = [jobs[j] EXCEPT !.live = FALSE]
            BY <2>2, SavedIs DEF KnownLeaseEnds
        <3>2. QED
            BY <2>1, <3>1 DEF JobRecords
    <2>3. CASE DeadlinePasses(j)
        <3>1. jobs'[j] = [jobs[j] EXCEPT !.late = TRUE, !.live = FALSE]
            BY <2>3, SavedIs DEF DeadlinePasses
        <3>2. QED
            BY <2>1, <3>1 DEF JobRecords
    <2>4. CASE Heartbeat(j)
        <3>1. jobs'[j] = [jobs[j] EXCEPT !.live = TRUE]
            BY <2>4, SavedIs DEF Heartbeat
        <3>2. QED
            BY <2>1, <3>1 DEF JobRecords
    <2>5. QED
        BY <2>2, <2>3, <2>4
<1>3. QED
    BY <1>1, <1>2 DEF Ages, Changed, LostGoes, GoesDown, Lost

\* A job that is authorized has not lost its grant.
LEMMA GrantHeld ==
    ASSUME NEW j \in Jobs, Authorized(j)
    PROVE  ~Lost(j)
BY DEF Authorized, Lost

LEMMA ClaimingGoes ==
    ASSUME TypeOK, OpInv, NEW j \in Jobs, Claiming(j)
    PROVE  jobs' = jobs \/ (Others(j) /\ LostGoes(j))
<1>1. ASSUME NEW w \in Workers, StartClaim(j, w) PROVE Others(j) /\ LostGoes(j)
    BY <1>1, GrantHeld, SavedIs DEF StartClaim, LostGoes
<1>2. CASE ClaimRefused(j)
    <2>1. jobs[j].state = "claim_pending" /\ Save(j, To(j, "reconciling"))
        BY <1>2 DEF ClaimRefused, At, OpInv
    <2>2. QED
        BY <2>1, ToGoes DEF States, SettleLeft
<1>3. CASE Bind(j)
    <2> DEFINE rec == [To(j, "claimed") EXCEPT !.fence = Claim(j).fence, !.live = TRUE]
    <2>1. jobs[j].state = "claim_pending" /\ jobs'[j] = rec /\ Others(j)
        BY <1>3, SavedIs DEF Bind, At, OpInv
    <2>2. /\ rec.state = "claimed" /\ rec.epoch = jobs[j].epoch
          /\ rec.cancel = jobs[j].cancel /\ rec.late = jobs[j].late
        BY Records DEF To, JobRecords
    <2>3. QED
        BY <2>1, <2>2 DEF LostGoes, GoesDown, SettleLeft
<1>4. CASE Run(j)
    <2>1. jobs[j].state = "claimed" /\ Save(j, To(j, "fetching"))
        BY <1>4 DEF Run, At, OpInv
    <2>2. QED
        BY <2>1, ToGoes DEF States, SettleLeft
<1>5. CASE RecoverLost(j)
    <2>1. jobs[j].state \in {"claim_pending", "claimed"} /\ Save(j, To(j, "reconciling"))
        BY <1>5 DEF RecoverLost
    <2>2. QED
        BY <2>1, ToGoes DEF States, SettleLeft
<1>6. QED
    BY <1>1, <1>2, <1>3, <1>4, <1>5 DEF Claiming, PortClaim, PortFetching, RecoverClaim

LEMMA WorkingGoes ==
    ASSUME TypeOK, OpInv, NEW j \in Jobs, Working(j)
    PROVE  jobs' = jobs \/ (Others(j) /\ LostGoes(j))
<1>1. CASE Heartbeat(j)
    BY <1>1, TimeGoes
<1>2. CASE ScheduleRetry(j)
    <2>1. jobs[j].state \in {"claimed", "fetching"} /\ Save(j, To(j, "retry_wait"))
        BY <1>2 DEF ScheduleRetry, At, OpInv
    <2>2. QED
        BY <2>1, ToGoes DEF States, SettleLeft
<1>3. CASE WaitForLease(j)
    BY <1>3, GrantHeld, SavedIs DEF WaitForLease, LostGoes
<1>4. ASSUME NEW p \in Packages, Pin(j, p) PROVE Others(j) /\ LostGoes(j)
    BY <1>4, GrantHeld, SavedIs DEF Pin, LostGoes
<1>5. CASE BeginSubmit(j)
    BY <1>5, GrantHeld, SavedIs DEF BeginSubmit, LostGoes
<1>6. CASE Uncertain(j)
    <2>1. /\ Save(j, To(j, "reconciling"))
          /\ jobs[j].state \in
                {"claim_pending", "claimed", "fetching", "retry_wait", "prepared", "submitting"}
        BY <1>6, GoFrom DEF Uncertain
    <2>2. QED
        BY <2>1, ToGoes DEF States, SettleLeft
<1>7. CASE ConsumeOutbox(j)
    BY <1>7, GoFrom, KnownGoes DEF ConsumeOutbox
<1>8. QED
    BY <1>1, <1>2, <1>3, <1>4, <1>5, <1>6, <1>7 DEF Working, PortRetry, OpenStream

LEMMA RecoveringGoes ==
    ASSUME TypeOK, NEW j \in Jobs, Recovering(j)
    PROVE  Others(j) /\ LostGoes(j)
<1>1. CASE PropagateCancel(j)
    BY <1>1, StopGoes DEF PropagateCancel, Stopped
<1>2. CASE PlanStop(j)
    BY <1>2, StopGoes, ReasonGiven DEF PlanStop, MustStop, Stopped
<1>3. CASE PlanReconcile(j)
    <2>1. /\ jobs[j].state \in {"fetching", "prepared", "submitting"}
          /\ Save(j, To(j, "reconciling"))
        BY <1>3 DEF PlanReconcile, MustReconcile
    <2>2. QED
        BY <2>1, ToGoes DEF States, SettleLeft
<1>4. CASE PlanCommitted(j)
    BY <1>4, KnownGoes DEF PlanCommitted, FoundCommitted
<1>5. ASSUME NEW spool \in BOOLEAN, PlanEnded(j, spool) PROVE Others(j) /\ LostGoes(j)
    <2>1. Verdict(j, spool) \in Stopped /\ jobs[j].state = "reconciling"
        BY <1>5 DEF PlanEnded, FoundNothing, Verdict, Reason, Stopped
    <2>2. \A t \in Stopped : t \in States /\ t # "none" /\ SettleLeft[t] < SettleLeft["reconciling"]
        BY DEF Stopped, States, SettleLeft
    <2>3. QED
        BY <1>5, <2>1, <2>2, ToGoes DEF PlanEnded, FoundNothing
<1>6. CASE PlanRetry(j)
    <2>1. ~Lost(j)
        BY <1>6, LostReason DEF PlanRetry, Verdict, Lost
    <2>2. QED
        BY <1>6, <2>1, SavedIs DEF PlanRetry, LostGoes
<1>7. QED
    BY <1>1, <1>2, <1>3, <1>4, <1>5, <1>6 DEF Recovering

LEMMA LostStep ==
    ASSUME TypeOK, OpInv, [Next]_vars
    PROVE  jobs' = jobs \/ \E j \in Jobs : Others(j) /\ LostGoes(j)
<1>1. ASSUME NEW j \in Jobs, NEW s \in Sources, Register(j, s)
      PROVE  Others(j) /\ LostGoes(j)
    BY <1>1, SavedIs DEF Register, LostGoes, Lost
<1>2. ASSUME NEW a \in acks, AcceptAck(a) PROVE \E j \in Jobs : Others(j) /\ LostGoes(j)
    <2>1. a.job \in Jobs
        BY DEF TypeOK
    <2>2. Others(a.job) /\ LostGoes(a.job)
        BY <1>2, <2>1, GoFrom, KnownGoes DEF AcceptAck
    <2>3. QED
        BY <2>1, <2>2
<1>3. ASSUME NEW s \in Sources, LeaseEnds(s) PROVE jobs' = jobs
    BY <1>3 DEF LeaseEnds
<1>4. ASSUME NEW m \in streams, CommitStream(m) \/ ReplayStream(m) \/ DropStream(m)
      PROVE  jobs' = jobs
    BY <1>4 DEF CommitStream, ReplayStream, DropStream
<1>5. CASE Publish \/ Cancel \/ Crash \/ UNCHANGED vars
    BY <1>5 DEF Publish, Cancel, Crash, vars
<1>6. QED
    BY <1>1, <1>2, <1>3, <1>4, <1>5, TimeGoes, ClaimingGoes, WorkingGoes, RecoveringGoes
       DEF Next

\* Policies only get newer.
LEMMA EpochStep ==
    ASSUME TypeOK, OpInv, EpochInv, [Next]_vars
    PROVE  /\ epoch' \in {epoch, epoch + 1} /\ epoch \in Nat
           /\ EpochInv'
<1>1. epoch' \in {epoch, epoch + 1} /\ epoch \in Nat
    <2>1. epoch \in Nat
        BY DEF TypeOK
    <2>2. CASE Publish
        BY <2>1, <2>2 DEF Publish
    <2>3. CASE Cancel \/ Crash \/ UNCHANGED vars
        BY <2>1, <2>3 DEF Cancel, Crash, vars
    <2>4. ASSUME NEW j \in Jobs, Claiming(j) \/ Working(j) \/ Recovering(j)
          PROVE  UNCHANGED epoch
        BY <2>4 DEF Claiming, StartClaim, PortClaim, ClaimRefused, Bind, PortFetching, Run,
                    RecoverClaim, RecoverLost, Working, Heartbeat, PortRetry, ScheduleRetry,
                    WaitForLease, Pin, OpenStream, BeginSubmit, Uncertain, ConsumeOutbox,
                    Recovering, PropagateCancel, PlanStop, Stop, PlanReconcile, PlanCommitted,
                    PlanEnded, PlanRetry
    <2>5. ASSUME NEW j \in Jobs, KnownLeaseEnds(j) \/ DeadlinePasses(j) PROVE UNCHANGED epoch
        BY <2>5 DEF KnownLeaseEnds, DeadlinePasses
    <2>6. ASSUME NEW j \in Jobs, NEW s \in Sources, Register(j, s) \/ LeaseEnds(s)
          PROVE  UNCHANGED epoch
        BY <2>6 DEF Register, LeaseEnds
    <2>7. ASSUME NEW s \in Sources, LeaseEnds(s) PROVE UNCHANGED epoch
        BY <2>7 DEF LeaseEnds
    <2>8. ASSUME NEW m \in streams, CommitStream(m) \/ ReplayStream(m) \/ DropStream(m)
          PROVE  UNCHANGED epoch
        BY <2>8 DEF CommitStream, ReplayStream, DropStream
    <2>9. ASSUME NEW a \in acks, AcceptAck(a) PROVE UNCHANGED epoch
        BY <2>9 DEF AcceptAck
    <2>10. QED
        BY <2>1, <2>2, <2>3, <2>4, <2>5, <2>6, <2>7, <2>8, <2>9 DEF Next
<1>2. ASSUME NEW j \in Jobs, jobs'[j].state # "none" PROVE jobs'[j].epoch <= epoch'
    <2>1. jobs[j].epoch \in Nat
        BY Records DEF JobRecords
    <2>2. CASE jobs'[j] = jobs[j]
        BY <1>1, <1>2, <2>1, <2>2 DEF EpochInv
    <2>3. CASE Moves(j)
        <3>1. jobs[j].state # "none"
            BY <1>2, <2>3, EdgesFrom DEF Moves
        <3>2. QED
            BY <1>1, <2>1, <2>3, <3>1 DEF EpochInv, Moves
    <2>4. CASE Registers(j)
        <3>1. jobs'[j].epoch = epoch
            BY <2>4 DEF Registers, Fresh, NoJob
        <3>2. QED
            BY <1>1, <3>1
    <2>5. QED
        BY <2>2, <2>3, <2>4, MovesStep DEF Others
<1>3. QED
    BY <1>1, <1>2 DEF EpochInv

\* For any number of jobs: one that lost its grant never gets one again, takes at most
\* five more changes of state, each one down, and waits in no state for which
\* recovery_plan has no commit, once the port answers for the package it may have sent
\* (recovery_plan, stop, check_job_authorization).
THEOREM LostJobsSettle == Spec => LostJobSettles
<1>1. Init => EpochInv
    BY DEF Init, NoJob, EpochInv
<1>2. IInv /\ EpochInv /\ [Next]_vars => EpochInv'
    BY EpochStep DEF IInv
<1>3. ASSUME IInv, EpochInv, [Next]_vars, NEW j \in Jobs, Lost(j)
      PROVE  Lost(j)' /\ GoesDown(j)
    <2>0. TypeOK /\ OpInv /\ jobs[j].epoch \in Nat
        BY <1>3, Records DEF IInv, JobRecords
    <2>1. Revoked(j) /\ jobs'[j].epoch = jobs[j].epoch => Revoked(j)'
        <3>1. jobs[j].epoch <= epoch /\ epoch' \in {epoch, epoch + 1} /\ epoch \in Nat
            BY <1>3, <2>0, EpochStep DEF EpochInv, Lost
        <3>2. QED
            BY <2>0, <3>1 DEF Revoked
    <2>2. CASE jobs'[j] = jobs[j]
        BY <1>3, <2>1, <2>2 DEF Lost, GoesDown
    <2>3. CASE LostGoes(j)
        BY <1>3, <2>1, <2>3 DEF Lost, LostGoes
    <2>4. QED
        BY <1>3, <2>0, <2>2, <2>3, LostStep DEF Others
<1>4. IInv' => LostIsAnswered'
    <2>1. IInv => LostIsAnswered
        BY LostAnswered DEF IInv
    <2>2. QED
        BY <2>1, PTL
<1>5. IInv /\ IInv' /\ EpochInv /\ [Next]_vars => [LostGoesOn]_vars
    BY <1>3, <1>4 DEF LostGoesOn
<1>6. QED
    BY <1>1, <1>2, <1>5, Inductive, PTL DEF Spec, LostJobSettles
===============================================================================
