--------------------------- MODULE AcquisitionVerdict --------------------------
(*****************************************************************************)
(* What the two databases of an acquisition promise together: a source gets    *)
(* at most one package, for good; a job is pronounced committed only when its  *)
(* own package is stored, and stopped only when it is not and never will be;   *)
(* no verdict is ever revised.  JobRegistry implements this specification.     *)
(*****************************************************************************)
CONSTANTS Jobs, Sources, Packages, None

VARIABLES
    kept,        \* the package of each source and the job it came from, or None
    verdict      \* what the registry says of each job

vars == <<kept, verdict>>

Init ==
    /\ kept = [s \in Sources |-> None]
    /\ verdict = [j \in Jobs |-> "open"]

HasPackage(j) == \E s \in Sources : kept[s] # None /\ kept[s].job = j

Keep(s, j, p) ==
    /\ kept[s] = None /\ verdict[j] = "open" /\ ~HasPackage(j)
    /\ kept' = [kept EXCEPT ![s] = [job |-> j, pkg |-> p]]
    /\ UNCHANGED verdict

Commit(j) ==
    /\ verdict[j] = "open" /\ HasPackage(j)
    /\ verdict' = [verdict EXCEPT ![j] = "committed"]
    /\ UNCHANGED kept

Stop(j) ==
    /\ verdict[j] = "open" /\ ~HasPackage(j)
    /\ verdict' = [verdict EXCEPT ![j] = "stopped"]
    /\ UNCHANGED kept

Next ==
    \/ \E s \in Sources, j \in Jobs, p \in Packages : Keep(s, j, p)
    \/ \E j \in Jobs : Commit(j) \/ Stop(j)

Spec == Init /\ [][Next]_vars
===============================================================================
