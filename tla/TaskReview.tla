------------------------------ MODULE TaskReview -------------------------------
(*****************************************************************************)
(* What the TG-Codex agent promises about the review of its tasks: the user's *)
(* decision on a task is made once, and a task is approved only when a commit *)
(* of it is already on origin/main.                                           *)
(*****************************************************************************)
CONSTANT Tasks

VARIABLES
    decision,    \* the approval_status of every task
    published    \* the tasks that have a commit on origin/main

vars == <<decision, published>>

Init ==
    /\ decision = [t \in Tasks |-> "pending"]
    /\ published = {}

\* The task's commit reaches origin/main, the decision is still open.
Publish(t) ==
    /\ decision[t] = "pending"
    /\ published' = published \cup {t}
    /\ UNCHANGED decision

Approve(t) ==
    /\ decision[t] = "pending"
    /\ t \in published
    /\ decision' = [decision EXCEPT ![t] = "approved"]
    /\ UNCHANGED published

\* The task is rejected.  The code does not look at what has been published.
Reject(t) ==
    /\ decision[t] = "pending"
    /\ decision' = [decision EXCEPT ![t] = "rejected"]
    /\ UNCHANGED published

Next == \E t \in Tasks : Publish(t) \/ Approve(t) \/ Reject(t)

Spec == Init /\ [][Next]_vars
================================================================================
