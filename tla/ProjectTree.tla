------------------------------ MODULE ProjectTree ------------------------------
(*****************************************************************************)
(* File trees of the projects the TG-Codex agent works on, and the pure       *)
(* functions of task_manager.py and full_publish.py that compare two of them. *)
(* A tree maps every path of every project to the content found there or to   *)
(* Absent.  Directories are abstracted: a directory exists iff a file below   *)
(* it does.  The mode bits of an entry are part of its content.               *)
(*****************************************************************************)
CONSTANTS
    Files,       \* the paths, of all projects together
    Projects,    \* directory names below /ops/apps and apps/ of the repository
    ProjectOf,   \* the project each path belongs to
    Contents,    \* what a file can hold
    Secrets,     \* the contents that match a secret pattern
    Blocked,     \* paths the approval policy refuses (data/, .env, *.pem, ...)
    Ignored,     \* paths the project's own .gitignore keeps out of Git
    Absent       \* "no such file"

ASSUME TreeAssumption ==
    /\ ProjectOf \in [Files -> Projects]
    /\ Absent \notin Contents
    /\ Secrets \subseteq Contents
    /\ Blocked \subseteq Files
    /\ Ignored \subseteq Files

Entries == Contents \cup {Absent}
Trees   == [Files -> Entries]

EmptyTree == [f \in Files |-> Absent]

FilesOf(p) == {f \in Files : ProjectOf[f] = p}

\* copy_project_tree: the snapshot of project p out of a tree.
Snapshot(tree, p) ==
    [f \in Files |-> IF f \in FilesOf(p) THEN tree[f] ELSE Absent]

\* The paths of p come from one tree, all the others from a second one.
Overlay(tree, p, src) ==
    [f \in Files |-> IF f \in FilesOf(p) THEN src[f] ELSE tree[f]]

Differs(a, b) == {f \in Files : a[f] # b[f]}

Present(tree) == {f \in Files : tree[f] # Absent}

\* build_change_manifest: what the task changed between its two snapshots.
Manifest(before, after) == Differs(before, after)

\* repo_project.exists(), directories being abstracted.
ProjectExists(tree, p) == Present(tree) \cap FilesOf(p) # {}

\* build_approval_plan: the whole After snapshot the first time a project is
\* published, the manifest of the task afterwards.
ApprovalPlan(work, p, before, after) ==
    IF ProjectExists(work, p) THEN Manifest(before, after)
                              ELSE Present(after) \ Blocked

\* validate_approval_relative_path raises on the first blocked path of a plan.
PlanAllowed(plan) == plan \cap Blocked = {}

\* scan_git_tracked_tree: the paths come from the index, their content from HEAD.
Tracked(index, head) ==
    [f \in Files |-> IF index[f] = Absent THEN Absent ELSE head[f]]

\* It raises when the index lists a path that HEAD lacks, or one the approval
\* policy blocks.
TrackedReadable(index, head, p) ==
    \A f \in Present(index) \cap FilesOf(p) : head[f] # Absent /\ f \notin Blocked

\* build_full_publish_plan: that tree against the allowed part of the After
\* snapshot.
FullPlan(tracked, p, after) ==
    {f \in FilesOf(p) \ Blocked : tracked[f] # after[f]}

\* scan_approval_snapshot_for_secrets.
SecretFree(plan, after) == \A f \in plan : after[f] \notin Secrets

\* check_live_matches_after and check_reject_conflicts.
LiveMatches(live, plan, after) == \A f \in plan : live[f] = after[f]
================================================================================
