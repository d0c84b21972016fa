---------------------------- MODULE AcquisitionStore ---------------------------
(*****************************************************************************)
(* The acquisition database of tg-testcase-generator as the job registry and   *)
(* the receiver see it through ProtectedAcquisitionAdapter: the lease on each  *)
(* source (source_fetch_runs), the sealed package with its outbox row, and     *)
(* whether the task was cancelled.  The batch is finalized and the sources     *)
(* belong to one task: a refresh makes a new source, so a revision is part of  *)
(* a source's identity here.  attempt and fencing_token grow together: fence.  *)
(* Each operator is one transaction of this database.  Instants are left out:  *)
(* a lease is live until it expires, which it may do at any moment.            *)
(*****************************************************************************)
EXTENDS Naturals, FiniteSets

CONSTANTS
    Jobs, Sources, Workers, Packages,
    MaxFence,    \* bound: claims of one source
    None

ASSUME StoreAssumption ==
    /\ MaxFence \in Nat
    /\ None \notin Workers \cup Packages
    /\ None \notin [job : Jobs, pkg : Packages, fence : Nat, epoch : Nat]

VARIABLES
    cancelled,   \* task.state = 'cancelled'
    claims,      \* source_fetch_runs
    stored       \* source_packages and acquisition_commit_outbox, one row each

storeVars == <<cancelled, claims, stored>>

ClaimStates == {"none", "claimed", "fetching", "retry_wait", "sealed", "abandoned"}

StoreTypeOK ==
    /\ cancelled \in BOOLEAN
    /\ claims \in [Sources -> [state : ClaimStates, fence : Nat,
                               worker : Workers \cup {None}, live : BOOLEAN]]
    /\ stored \in [Sources -> [job : Jobs, pkg : Packages, fence : Nat, epoch : Nat]
                              \cup {None}]

StoreInit ==
    /\ cancelled = FALSE
    /\ claims = [s \in Sources |->
                    [state |-> "none", fence |-> 0, worker |-> None, live |-> FALSE]]
    /\ stored = [s \in Sources |-> None]

\* inspect_source: what _check_source and the adapter's claim require of it.
Open(s) == ~cancelled /\ stored[s] = None

Live(s) == claims[s].live

\* The adapter's claim: a lease that ended, and was neither sealed nor abandoned.
Claimable(s) == claims[s].state \notin {"sealed", "abandoned"} /\ ~Live(s)

TakeClaim(s, w) ==
    /\ claims[s].fence < MaxFence
    /\ claims' = [claims EXCEPT ![s] = [state |-> "claimed", fence |-> @.fence + 1,
                                        worker |-> w, live |-> TRUE]]

\* transition(claim, target), for a claim that is live and in a state of `from`.
MoveClaim(s, from, target) ==
    /\ ~cancelled /\ Live(s) /\ claims[s].state \in from
    /\ claims' = [claims EXCEPT ![s].state = target]

\* _commit_staged: package, outbox row and sealed claim in one transaction.
StorePackage(s, row) ==
    /\ stored' = [stored EXCEPT ![s] = row]
    /\ claims' = [claims EXCEPT ![s].state = "sealed"]

\* _discard_cancelled_staging: a cancelled task abandons what is not sealed.
CancelTask ==
    /\ ~cancelled
    /\ cancelled' = TRUE
    /\ claims' = [s \in Sources |->
          IF claims[s].state \in {"none", "sealed"} THEN claims[s]
          ELSE [claims[s] EXCEPT !.state = "abandoned"]]
    /\ UNCHANGED stored

ExpireLease(s) ==
    /\ Live(s)
    /\ claims' = [claims EXCEPT ![s].live = FALSE]
    /\ UNCHANGED <<cancelled, stored>>
===============================================================================
