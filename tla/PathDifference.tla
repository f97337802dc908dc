--------------------------- MODULE PathDifference ---------------------------
(***************************************************************************)
(* get_path_difference of scripts/builddeps.py and the git add that       *)
(* git_commit_src_dir builds from it.  The script is in its working       *)
(* directory (src_dir) again when it stages parent_src_dir with           *)
(*     git add -A <difference> -- :!<difference>/install                  *)
(* where difference = get_path_difference(src_dir, parent_src_dir).       *)
(*                                                                         *)
(* A resolved absolute path is the sequence of its parts below the root.  *)
(***************************************************************************)
EXTENDS Integers, Sequences

CONSTANTS
    Parts,     \* names a path part may have
    MaxDepth   \* longest path considered

LOCAL SX == INSTANCE SequencesExt

Paths == SX!BoundedSeq(Parts, MaxDepth)

\* Mutant: the loop does not break at the first difference.
RECURSIVE CommonPartsNoBreak(_, _)
CommonPartsNoBreak(p1, p2) ==
    IF p1 = <<>> \/ p2 = <<>>
      THEN 0
      ELSE (IF Head(p1) = Head(p2) THEN 1 ELSE 0) + CommonPartsNoBreak(Tail(p1), Tail(p2))

\* The loop over zip(p1.parts, p2.parts) that counts leading equal parts
\* and breaks at the first difference.
RECURSIVE CommonParts(_, _)
CommonParts(p1, p2) ==
    IF p1 = <<>> \/ p2 = <<>> \/ Head(p1) # Head(p2)
      THEN 0
      ELSE 1 + CommonParts(Tail(p1), Tail(p2))

\* Mutant: the remaining parts start at the last common part.
GetPathDifferenceKeepsLast(path1, path2) ==
    LET swap == Len(path2) < Len(path1)
        p1   == IF swap THEN path2 ELSE path1
        p2   == IF swap THEN path1 ELSE path2
        c    == CommonParts(p1, p2)
    IN  SubSeq(p2, IF c = 0 THEN 1 ELSE c, Len(p2))

\* get_path_difference: the longer path, or path2 when both are as long,
\* without the parts it shares with the other; Path() ("." ) when none is
\* left.
GetPathDifference(path1, path2) ==
    LET swap == Len(path2) < Len(path1)
        p1   == IF swap THEN path2 ELSE path1
        p2   == IF swap THEN path1 ELSE path2
    IN  SubSeq(p2, CommonParts(p1, p2) + 1, Len(p2))

VARIABLES
    cwd,       \* src_dir = os.getcwd()
    parent,    \* g_config.parent_src_dir_cfg, resolved
    added,     \* the path git add stages, relative to cwd, resolved
    excluded   \* the path its :! pathspec excludes

vars == <<cwd, parent, added, excluded>>

None == <<"none">>

\* Any working directory and any --parent-src-dir.
Init ==
    /\ cwd \in Paths
    /\ parent \in Paths
    /\ added = None
    /\ excluded = None

\* git_commit_src_dir, back in src_dir: the first git add.
GitAdd ==
    LET d == GetPathDifference(cwd, parent) IN
    /\ added = None
    /\ added' = cwd \o d
    /\ excluded' = cwd \o d \o <<"install">>
    /\ UNCHANGED <<cwd, parent>>

Next == GitAdd

Spec == Init /\ [][Next]_vars

-----------------------------------------------------------------------------
(* Properties                                                              *)

\* The loop of get_path_difference counts exactly the parts of the longest
\* common prefix of the two paths.
CommonPartsCorrect == CommonParts(cwd, parent) = Len(SX!LongestCommonPrefix({cwd, parent}))

\* When parent_src_dir lies inside the working directory (main's default
\* cwd/src/tp, the case the comment above get_path_difference describes),
\* the git add of git_commit_src_dir stages parent_src_dir and excludes
\* its install tree.
GitAddsSourceDir ==
    added # None /\ SX!IsPrefix(cwd, parent) =>
        added = parent /\ excluded = parent \o <<"install">>

=============================================================================
