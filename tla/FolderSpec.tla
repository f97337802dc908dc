----------------------------- MODULE FolderSpec -----------------------------
(***************************************************************************)
(* What a library folder of parent_src_dir can go through, as Orchestrator *)
(* abstracts it: src is "absent", "git" (a .git of its own), "parked"     *)
(* (only .git.bak) or "dir" (neither: git sees the enclosing repository). *)
(* These are the transitions of src in Orchestrator's RetrieveGit,        *)
(* CloneKilled and ParkGitDir; GitBookkeeping, which takes every rename,  *)
(* clone and pull step by step, is shown to implement them.               *)
(***************************************************************************)

VARIABLES
    src,         \* the folder, as above
    outerRepo,   \* the working directory has a .git
    damaged      \* git ran on the enclosing repository in this folder

folderVars == <<src, outerRepo, damaged>>

FolderInit ==
    /\ src = "absent"
    /\ outerRepo \in BOOLEAN
    /\ damaged = FALSE

\* get_src renames .git.bak back to .git.
Restore ==
    /\ src = "parked"
    /\ src' = "git"
    /\ UNCHANGED <<outerRepo, damaged>>

\* git clone creates the folder, or is killed with a .git that is no
\* repository yet.
Clone ==
    /\ src = "absent"
    /\ src' \in {"git", "dir"}
    /\ UNCHANGED <<outerRepo, damaged>>

\* A pull in a folder without a .git of its own runs on the enclosing
\* repository, whose git clean -fdx may remove the untracked .git.bak.
ForeignPull ==
    /\ src \in {"parked", "dir"}
    /\ outerRepo
    /\ damaged' = TRUE
    /\ src' \in {src, "dir"}
    /\ UNCHANGED outerRepo

\* git_commit_src_dir, in a working directory with a .git, parks .git.
Park ==
    /\ outerRepo
    /\ src = "git"
    /\ src' = "parked"
    /\ UNCHANGED <<outerRepo, damaged>>

FolderNext == Restore \/ Clone \/ ForeignPull \/ Park

FolderSpec == FolderInit /\ [][FolderNext]_folderVars

=============================================================================
