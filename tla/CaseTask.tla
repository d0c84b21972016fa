-------------------------------- MODULE CaseTask -------------------------------
(*****************************************************************************)
(* One task of tg-testcase-generator in its SQLite store: what a user, the     *)
(* review engine, the generator, the acquisition and the leased processors do  *)
(* to it.  Every action is one transaction under the Store's lock; generating  *)
(* takes two of them and processing a batch four, with anything in between.    *)
(*                                                                             *)
(* A source is read or unread when its batch is published; texts, file kinds   *)
(* and the detail of requirements, rules and cases are abstracted to `design`. *)
(* Workers may share a worker_id: only the fencing token tells claims apart.   *)
(*****************************************************************************)
EXTENDS Naturals, FiniteSets

CONSTANTS
    Sources, Batches, Procs,
    MaxVersion,    \* bound: no edit is begun on a task of this version
    MaxFence,      \* bound: claims of a batch
    None

VARIABLES
    task,        \* the row of the tasks table
    batches,     \* collection_batches
    packages,    \* source_packages: notion sources of a batch that were sealed
    runs,        \* processing_runs; its status is also the batch's processing_status
    staging,     \* processing_staging
    manifest,    \* batch_manifests with the sanitized contents
    procs,       \* the claim each processor works for
    gen,         \* generate() between its two transactions
    outputs      \* the registered artifacts: what they contain, what was confirmed

caseVars == <<task, batches, packages, runs, staging, manifest, procs, gen, outputs>>

States == {"collecting", "review", "ready", "generating", "generated", "cancelled"}
Modes  == {"formal", "draft"}
Kinds  == {"local", "notion"}
Read   == {"read", "unread"}

\* What an artifact is rendered from.
Contents ==
    [srcs : [Sources -> {"none", "pending"} \cup Read], design : 0 .. 2,
     p0 : BOOLEAN, msgs : BOOLEAN]

Results == UNION {[S -> Read] : S \in SUBSET Sources}
Parsing == [fence : 1 .. MaxFence, res : Results]
Parsed  == Parsing \cup {None}

Confirmations == [mode : Modes, version : Nat, asked : Contents]

SourceRows == [kind : Kinds, batch : Batches \cup {None}, status : {"none", "pending"} \cup Read]
TaskRows ==
    [state : States, version : Nat \ {0}, design : 0 .. 2, p0 : BOOLEAN, msgs : BOOLEAN,
     conf : Confirmations \cup {None},
     src : [Sources -> SourceRows]]
BatchRows == [status : {"none", "open", "finalized", "abandoned"}, srcs : SUBSET Sources]
RunRows ==
    [status : {"pending", "claimed", "processing", "done"}, fence : 0 .. MaxFence, live : BOOLEAN]
ProcRows ==
    [batch : Batches, fence : 1 .. MaxFence, res : Results,
     step : {"claimed", "parsing", "staged"}]

ASSUME CaseAssumption ==
    /\ MaxVersion \in Nat /\ MaxFence \in Nat \ {0}
    /\ None \notin Batches \cup Parsing \cup Confirmations \cup ProcRows

CaseTypeOK ==
    /\ task \in TaskRows
    /\ batches \in [Batches -> BatchRows]
    /\ packages \subseteq Batches \X Sources
    /\ runs \in [Batches -> RunRows]
    /\ staging \in [Batches -> Parsed] /\ manifest \in [Batches -> Parsed]
    /\ procs \in [Procs -> ProcRows \cup {None}]
    /\ gen \in [version : Nat, mode : Modes] \cup {None}
    /\ outputs \subseteq [mode : Modes, made : Contents, asked : Contents]

CaseInit ==
    /\ task = [state |-> "collecting", version |-> 1, design |-> 0, p0 |-> FALSE,
               msgs |-> FALSE, conf |-> None,
               src |-> [s \in Sources |->
                           [kind |-> "local", batch |-> None, status |-> "none"]]]
    /\ batches = [b \in Batches |-> [status |-> "none", srcs |-> {}]]
    /\ packages = {}
    /\ runs = [b \in Batches |-> [status |-> "pending", fence |-> 0, live |-> FALSE]]
    /\ staging = [b \in Batches |-> None] /\ manifest = [b \in Batches |-> None]
    /\ procs = [p \in Procs |-> None] /\ gen = None /\ outputs = {}

-------------------------------------------------------------------------------
(* The task row.                                                              *)

Transitions ==
    [collecting |-> {"review", "cancelled"}, review |-> {"ready", "cancelled"},
     ready      |-> {"review", "generating", "cancelled"},
     generating |-> {"generated", "ready", "cancelled"},
     generated  |-> {"review", "cancelled"}, cancelled |-> {}]

May(target) == target \in Transitions[task.state]

\* Store.change and _TransactionStore.save: the changed row, one version on.
Save(t) == task' = [t EXCEPT !.version = @ + 1]

Bounded == task.version < MaxVersion

\* Engine._edit.
Editable == task.state \notin {"cancelled", "generating"}
Edited ==
    [task EXCEPT !.state = IF @ \in {"ready", "generated"} THEN "review" ELSE @,
                 !.conf = None]

Content(t) ==
    [srcs |-> [s \in Sources |-> t.src[s].status], design |-> t.design,
     p0 |-> t.p0, msgs |-> t.msgs]

\* processing_barrier, projected from the batches: something is not processed yet.
Pending ==
    \E b \in Batches :
        \/ batches[b].status = "open"
        \/ batches[b].status = "finalized" /\ runs[b].status # "done"

Added(t) == {s \in Sources : t.src[s].batch # None}

\* gate(), for a task with this confirmation.
Gate_NoBarrier(t, mode) ==    \* mutant: does not look at the batches
    /\ ~t.msgs /\ t.design # 0 /\ t.state \in {"ready", "generating"}
    /\ t.conf # None /\ t.conf.mode = mode
    /\ t.conf.version = IF t.state = "ready" THEN t.version ELSE t.version - 1
    /\ mode = "formal" =>
          ~t.p0 /\ Added(t) # {} /\ \A s \in Added(t) : t.src[s].status = "read"
Gate(t, mode) ==
    /\ ~Pending
    /\ ~t.msgs /\ t.design # 0 /\ t.state \in {"ready", "generating"}
    /\ t.conf # None /\ t.conf.mode = mode
    /\ t.conf.version = IF t.state = "ready" THEN t.version ELSE t.version - 1
    /\ mode = "formal" =>
          ~t.p0 /\ Added(t) # {} /\ \A s \in Added(t) : t.src[s].status = "read"

-------------------------------------------------------------------------------
(* What Application dispatches: Allowed says when it raises no error.         *)

OpenBatch == {b \in Batches : batches[b].status = "open"}
NewBatch  == {b \in Batches : batches[b].status = "none"}

\* append_text, append_upload, append_notion_reference: to the open batch, or a new one.
Append ==
    \E s \in Sources, k \in Kinds, b \in IF OpenBatch # {} THEN OpenBatch ELSE NewBatch :
        /\ task.src[s].batch = None
        /\ Save([Edited EXCEPT !.src[s] = [kind |-> k, batch |-> b, status |-> "pending"]])
        /\ batches' = [batches EXCEPT ![b] = [status |-> "open", srcs |-> @.srcs \cup {s}]]
        /\ UNCHANGED <<packages, runs, staging, manifest, procs, gen, outputs>>

Finish ==
    \E b \in OpenBatch :
        /\ batches' = [batches EXCEPT ![b].status = "finalized"]
        /\ Save([Edited EXCEPT !.state = IF @ = "collecting" THEN "review" ELSE @])
        /\ UNCHANGED <<packages, runs, staging, manifest, procs, gen, outputs>>

\* A notion source that was fetched is fetched anew, in a batch of its own; what was
\* concluded from it is dropped.
Refreshable ==
    {s \in Sources : task.src[s].batch # None /\ task.src[s].kind = "notion" /\ ~Pending}

Refresh ==
    \E s \in Refreshable, b \in NewBatch :
        /\ Save([Edited EXCEPT !.src = [@ EXCEPT ![s].batch = b, ![s].status = "pending"],
                               !.design = 0, !.p0 = FALSE])
        /\ batches' = [batches EXCEPT ![b] = [status |-> "open", srcs |-> {s}]]
        /\ UNCHANGED <<packages, runs, staging, manifest, procs, gen, outputs>>

OnlyTask == UNCHANGED <<batches, packages, runs, staging, manifest, procs, gen, outputs>>

Message == Save([Edited EXCEPT !.msgs = TRUE]) /\ OnlyTask

\* confirm() first, then gate() over the row it saved.
Confirmed(mode) ==
    [task EXCEPT !.conf = [mode |-> mode, version |-> task.version + 1,
                           asked |-> Content(task)]]
Confirmable(mode) ==
    /\ task.state = "ready" /\ OpenBatch = {}
    /\ Gate([Confirmed(mode) EXCEPT !.version = @ + 1], mode)
Confirm(mode) == Save(Confirmed(mode)) /\ OnlyTask

Reset ==
    /\ Save([Edited EXCEPT !.state = IF @ = "collecting" THEN "review" ELSE @,
                           !.design = 0, !.p0 = FALSE])
    /\ OnlyTask

\* cancel, with _discard_cancelled_staging.
Cancel ==
    /\ Save([task EXCEPT !.state = "cancelled", !.conf = None])
    /\ staging' = [b \in Batches |-> None]
    /\ batches' = [b \in Batches |-> IF batches[b].status = "open"
                                     THEN [batches[b] EXCEPT !.status = "abandoned"]
                                     ELSE batches[b]]
    /\ UNCHANGED <<packages, runs, manifest, procs, gen, outputs>>

Ops == {"append", "finish", "refresh", "message", "formal", "draft", "reset", "cancel"}

Allowed(op) ==
    CASE op = "append"  -> Editable /\ \E s \in Sources : task.src[s].batch = None
      [] op = "finish"  -> Editable /\ OpenBatch # {}
      [] op = "refresh" -> Editable /\ Refreshable # {}
      [] op \in Modes   -> Confirmable(op)
      [] op = "cancel"  -> May("cancelled")
      [] OTHER          -> Editable

Dispatch(op) ==
    \/ op = "append"  /\ Append
    \/ op = "finish"  /\ Finish
    \/ op = "refresh" /\ Refresh
    \/ op = "message" /\ Message
    \/ op \in Modes   /\ Confirm(op)
    \/ op = "reset"   /\ Reset
    \/ op = "cancel"  /\ Cancel

-------------------------------------------------------------------------------
(* The engine's own calls: review, generation, recovery.                      *)

StartReview == Bounded /\ May("review") /\ Save([task EXCEPT !.state = "review"]) /\ OnlyTask

Reviewing == Bounded /\ Editable /\ Edited.state = "review"

Design(d) == Reviewing /\ Save([Edited EXCEPT !.design = d]) /\ OnlyTask
Ask       == Reviewing /\ Save([Edited EXCEPT !.p0 = TRUE]) /\ OnlyTask
Answer    == Reviewing /\ task.p0 /\ Save([Edited EXCEPT !.p0 = FALSE]) /\ OnlyTask

Ready ==
    /\ Bounded /\ May("ready")
    /\ Save([task EXCEPT !.state = "ready", !.conf = None]) /\ OnlyTask

BeginGenerate(mode) ==
    /\ Bounded /\ gen = None /\ Gate(task, mode) /\ May("generating")
    /\ Save([task EXCEPT !.state = "generating"])
    /\ gen' = [version |-> task.version + 1, mode |-> mode]
    /\ UNCHANGED <<batches, packages, runs, staging, manifest, procs, outputs>>

FinishGenerate ==
    /\ gen # None /\ gen.version = task.version
    /\ Gate(task, gen.mode) /\ May("generated")
    /\ outputs' = outputs \cup {[mode |-> gen.mode, made |-> Content(task),
                                 asked |-> task.conf.asked]}
    /\ Save([task EXCEPT !.state = "generated", !.conf = None])
    /\ gen' = None
    /\ UNCHANGED <<batches, packages, runs, staging, manifest, procs>>

\* An error, a stale version or the death of the process: generating is durable.
GenerateFails ==
    gen # None /\ gen' = None
    /\ UNCHANGED <<task, batches, packages, runs, staging, manifest, procs, outputs>>

\* Store.recover, at startup.
Recover ==
    /\ task' = IF task.state = "generating"
               THEN [task EXCEPT !.state = "ready", !.conf = None, !.version = @ + 1]
               ELSE task
    /\ gen' = None
    /\ UNCHANGED <<batches, packages, runs, staging, manifest, procs, outputs>>

-------------------------------------------------------------------------------
(* Acquisition and processing of a finalized batch.                           *)

\* JobRegistry's commit of a package: not for a cancelled task.
CommitPackage(b, s) ==
    /\ batches[b].status = "finalized" /\ s \in batches[b].srcs
    /\ task.src[s].kind = "notion" /\ task.state # "cancelled"
    /\ <<b, s>> \notin packages
    /\ packages' = packages \cup {<<b, s>>}
    /\ UNCHANGED <<task, batches, runs, staging, manifest, procs, gen, outputs>>

\* seal_inputs, called where an input may have become the last one.
Sealed(b) ==
    /\ batches[b].status = "finalized"
    /\ \A s \in batches[b].srcs : task.src[s].kind = "notion" => <<b, s>> \in packages

Claim_SameToken(p, b) ==    \* mutant: a new claim under the token of the last
    /\ procs[p] = None /\ Sealed(b) /\ task.state # "cancelled"
    /\ runs[b].status # "done" /\ ~runs[b].live
    /\ runs' = [runs EXCEPT ![b] = [status |-> "claimed", fence |-> @.fence, live |-> TRUE]]
    /\ staging' = [staging EXCEPT ![b] = None]
    /\ procs' = [procs EXCEPT ![p] = [batch |-> b, fence |-> runs[b].fence,
                                      res |-> [s \in {} |-> "read"], step |-> "claimed"]]
    /\ UNCHANGED <<task, batches, packages, manifest, gen, outputs>>
Claim(p, b) ==
    /\ procs[p] = None /\ Sealed(b) /\ task.state # "cancelled"
    /\ runs[b].status # "done" /\ ~runs[b].live /\ runs[b].fence < MaxFence
    /\ runs' = [runs EXCEPT ![b] = [status |-> "claimed", fence |-> @.fence + 1, live |-> TRUE]]
    /\ staging' = [staging EXCEPT ![b] = None]
    /\ procs' = [procs EXCEPT ![p] = [batch |-> b, fence |-> runs[b].fence + 1,
                                      res |-> [s \in {} |-> "read"], step |-> "claimed"]]
    /\ UNCHANGED <<task, batches, packages, manifest, gen, outputs>>

\* _check, as each of the holder's transactions does it.
Holds_AnyFence(p) ==    \* mutant: compares the worker, not the token
    /\ procs[p] # None /\ task.state # "cancelled"
    /\ runs[procs[p].batch].live /\ runs[procs[p].batch].status # "done"
Holds(p) ==
    /\ procs[p] # None /\ task.state # "cancelled"
    /\ runs[procs[p].batch].fence = procs[p].fence
    /\ runs[procs[p].batch].live /\ runs[procs[p].batch].status # "done"

BeginParse(p) ==
    /\ Holds(p) /\ procs[p].step = "claimed"
    /\ runs' = [runs EXCEPT ![procs[p].batch].status = "processing"]
    /\ procs' = [procs EXCEPT ![p].step = "parsing"]
    /\ UNCHANGED <<task, batches, packages, staging, manifest, gen, outputs>>

\* The inputs were read without the lock: any of them may have failed.
Stage(p) ==
    /\ Holds(p) /\ procs[p].step = "parsing"
    /\ \E res \in [batches[procs[p].batch].srcs -> Read] :
          /\ staging' = [staging EXCEPT ![procs[p].batch] =
                            [fence |-> procs[p].fence, res |-> res]]
          /\ procs' = [procs EXCEPT ![p].step = "staged", ![p].res = res]
    /\ UNCHANGED <<task, batches, packages, runs, manifest, gen, outputs>>

Published(res) ==
    [task EXCEPT !.state = "review", !.conf = None,
                 !.src = [s \in Sources |-> IF s \in DOMAIN res
                                            THEN [@[s] EXCEPT !.status = res[s]] ELSE @[s]]]

Publish_Cancelled(p) ==    \* mutant: trusts the check of the transaction before
    LET b == procs[p].batch
        own == [fence |-> procs[p].fence, res |-> procs[p].res]
    IN  /\ procs[p] # None /\ procs[p].step = "staged" /\ runs[b].fence = procs[p].fence
        /\ runs[b].live /\ runs[b].status = "processing"
        /\ manifest' = [manifest EXCEPT ![b] = own]
        /\ staging' = [staging EXCEPT ![b] = None]
        /\ runs' = [runs EXCEPT ![b].status = "done"]
        /\ Save(Published(procs[p].res))
        /\ procs' = [procs EXCEPT ![p] = None]
        /\ UNCHANGED <<batches, packages, gen, outputs>>
Publish(p) ==
    LET b == procs[p].batch
        own == [fence |-> procs[p].fence, res |-> procs[p].res]
    IN  /\ Holds(p) /\ procs[p].step = "staged"
        /\ runs[b].status = "processing" /\ staging[b] = own
        /\ manifest' = [manifest EXCEPT ![b] = own]
        /\ staging' = [staging EXCEPT ![b] = None]
        /\ runs' = [runs EXCEPT ![b].status = "done"]
        /\ Save(Published(procs[p].res))
        /\ procs' = [procs EXCEPT ![p] = None]
        /\ UNCHANGED <<batches, packages, gen, outputs>>

\* LeaseLost, or the processor dies.
GiveUp(p) ==
    /\ procs[p] # None /\ ~Holds(p)
    /\ procs' = [procs EXCEPT ![p] = None]
    /\ UNCHANGED <<task, batches, packages, runs, staging, manifest, gen, outputs>>

Die(p) ==
    /\ procs[p] # None
    /\ procs' = [procs EXCEPT ![p] = None]
    /\ UNCHANGED <<task, batches, packages, runs, staging, manifest, gen, outputs>>

\* A heartbeat keeps a lease live; it may come too late.
LeaseEnds(b) ==
    /\ runs[b].live
    /\ runs' = [runs EXCEPT ![b].live = FALSE]
    /\ UNCHANGED <<task, batches, packages, staging, manifest, procs, gen, outputs>>

-------------------------------------------------------------------------------
Engine ==
    \/ StartReview \/ Ask \/ Answer \/ Ready
    \/ \E d \in 1 .. 2 : Design(d)
    \/ \E mode \in Modes : BeginGenerate(mode)
    \/ FinishGenerate \/ GenerateFails

Processing ==
    \/ \E b \in Batches : LeaseEnds(b) \/ \E s \in Sources : CommitPackage(b, s)
    \/ \E p \in Procs :
          \/ \E b \in Batches : Claim(p, b)
          \/ BeginParse(p) \/ Stage(p) \/ Publish(p) \/ GiveUp(p) \/ Die(p)
===============================================================================
