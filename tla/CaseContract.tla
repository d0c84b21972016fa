------------------------------ MODULE CaseContract -----------------------------
(*****************************************************************************)
(* What tg-testcase-generator promises the owner of a task, however often a    *)
(* request is delivered and wherever its handling ends: it is carried out at    *)
(* most once, and only on the task its signer saw; it is called done only if it *)
(* was; an artifact is what was confirmed; a cancelled task stays as it is.     *)
(*****************************************************************************)
CONSTANTS Requests, Contents

VARIABLES
    shown,       \* the contents of the task
    confirmed,   \* what its owner confirmed and did not withdraw: a mode with contents
    made,        \* the artifacts: what each was made of
    cancelled,
    asks,        \* what a request that was signed asks for
    fresh,       \* requests whose signer saw the task as it still is
    outcome,     \* of a request: open, granted, refused, or failed
    told,        \* what a repeated delivery is told, until it is forgotten
    stopped      \* the jobs that work for the task were stopped

taskVars    == <<shown, confirmed, made, cancelled>>
requestVars == <<asks, fresh, outcome, told, stopped>>
vars == <<taskVars, requestVars>>

Init ==
    /\ shown \in Contents /\ confirmed = {} /\ made = {} /\ cancelled = FALSE
    /\ asks = [r \in Requests |-> "nothing"] /\ fresh = {}
    /\ outcome = [r \in Requests |-> "open"] /\ told = [r \in Requests |-> "nothing"]
    /\ stopped = FALSE

\* Fit to be made an artifact of: a draft may have gaps, a formal one none.
Complete(mode, c) ==
    /\ c.design # 0 /\ ~c.msgs /\ \A s \in DOMAIN c.srcs : c.srcs[s] # "pending"
    /\ mode = "formal" => ~c.p0 /\ \A s \in DOMAIN c.srcs : c.srcs[s] # "unread"

\* What changes the task outdates every view of it; it may be what a request with a
\* current view asked for.
Granted(what) ==
    \E r \in fresh :
        /\ asks[r] = what /\ outcome[r] = "open"
        /\ outcome' = [outcome EXCEPT ![r] = "granted"]

Changed(what) ==
    /\ ~cancelled /\ fresh' = {}
    /\ UNCHANGED outcome \/ Granted(what)
    /\ UNCHANGED <<asks, told, stopped>>

Edit ==
    /\ Changed("edit")
    /\ shown' \in Contents /\ confirmed' = {} /\ UNCHANGED <<made, cancelled>>

Confirm(mode) ==
    /\ Changed("confirm") /\ Complete(mode, shown)
    /\ confirmed' = {[mode |-> mode, contents |-> shown]}
    /\ UNCHANGED <<shown, made, cancelled>>

Cancel ==
    /\ Changed("cancel")
    /\ cancelled' = TRUE /\ confirmed' = {} /\ UNCHANGED <<shown, made>>

\* Its own work on the task, which no request asks for.
Progress == Changed("work") /\ UNCHANGED taskVars

Render ==
    /\ Changed("work")
    /\ \E c \in confirmed : c.contents = shown /\ made' = made \cup {c}
    /\ confirmed' = {} /\ UNCHANGED <<shown, cancelled>>

-------------------------------------------------------------------------------
Sign(r, what) ==
    /\ asks[r] = "nothing"
    /\ asks' = [asks EXCEPT ![r] = what] /\ fresh' = fresh \cup {r}
    /\ UNCHANGED <<taskVars, outcome, told, stopped>>

\* To cancel the task one sees is never refused, unless it is cancelled.
Refuse(r) ==
    /\ asks[r] # "nothing" /\ outcome[r] = "open"
    /\ r \in fresh /\ asks[r] = "cancel" => cancelled
    /\ outcome' = [outcome EXCEPT ![r] = "refused"]
    /\ UNCHANGED <<taskVars, asks, fresh, told, stopped>>

\* A request may come to nothing, whatever it asks for.
Fail(r) ==
    /\ asks[r] # "nothing" /\ outcome[r] = "open"
    /\ outcome' = [outcome EXCEPT ![r] = "failed"]
    /\ UNCHANGED <<taskVars, asks, fresh, told, stopped>>

IsCancel(r) == asks[r] = "cancel" /\ outcome[r] = "granted"

Stop ==
    /\ \E r \in Requests : IsCancel(r)
    /\ stopped' = TRUE /\ UNCHANGED <<taskVars, asks, fresh, outcome, told>>

\* What is called granted was carried out, all of it.
Tell(r) ==
    /\ told[r] = "nothing" /\ outcome[r] = "granted" /\ (IsCancel(r) => stopped)
    /\ told' = [told EXCEPT ![r] = "granted"]
    /\ UNCHANGED <<taskVars, asks, fresh, outcome, stopped>>

\* That it is called refused says only that one delivery of it failed.
Deny(r) ==
    /\ told[r] = "nothing" /\ asks[r] # "nothing"
    /\ told' = [told EXCEPT ![r] = "refused"]
    /\ UNCHANGED <<taskVars, asks, fresh, outcome, stopped>>

Forget(r) ==
    /\ told' = [told EXCEPT ![r] = "nothing"]
    /\ UNCHANGED <<taskVars, asks, fresh, outcome, stopped>>

Next ==
    \/ Edit \/ Cancel \/ Progress \/ Render \/ Stop
    \/ \E mode \in {"formal", "draft"} : Confirm(mode)
    \/ \E r \in Requests :
          \/ Refuse(r) \/ Fail(r) \/ Tell(r) \/ Deny(r) \/ Forget(r)
          \/ \E what \in {"edit", "confirm", "cancel"} : Sign(r, what)

Spec == Init /\ [][Next]_vars
===============================================================================
