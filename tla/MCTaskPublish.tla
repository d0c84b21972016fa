----------------------------- MODULE MCTaskPublish -----------------------------
(* Instances of TaskPublish for TLC: two tasks, two projects, few paths.       *)
EXTENDS TaskPublish, TLC

CONSTANTS t1, t2, p1, p2, code, ignored, blocked, other

Symmetry == Permutations(Tasks)

\* Project p1 has an ordinary path and one that .gitignore names; project p2 one
\* that is ordinary.  The deployment starts with p2 published and p1 unknown.
SharedProjectOf == (code :> p1) @@ (ignored :> p1) @@ (other :> p2)
SharedInitialTrees ==
    {[f \in {code, ignored, other} |-> IF f = other THEN "v1" ELSE Absent]}

\* One project with an ordinary and a blocked path.
OneProjectOf == (code :> p1) @@ (blocked :> p1)
OneInitialTrees == [{code, blocked} -> {Absent}]

\* One project with one path.
SingleProjectOf == code :> p1
SingleInitialTrees == [{code} -> {Absent}]
================================================================================
