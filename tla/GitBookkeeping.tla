--------------------------- MODULE GitBookkeeping ---------------------------
(***************************************************************************)
(* The git metadata of one library folder of parent_src_dir across        *)
(* invocations of scripts/builddeps.py (--get-only or the full process):  *)
(* get_src renames a .git.bak left by the last commit back to .git (and   *)
(* .gitignore.bak to .gitignore), then pulls or clones; git_commit_src_dir*)
(* parks .git as .git.bak and .gitignore as .gitignore.bak so that the   *)
(* enclosing repository can stage the sources, and runs git add with the *)
(* path of PathDifference.  Every rename goes through rename_dir, step   *)
(* by step: the removal of an existing destination, the rename, and its  *)
(* single retry after a PermissionError.                                  *)
(*                                                                         *)
(* A file's content is "none", "full", or "partial" (a directory that    *)
(* shutil.rmtree or a killed git clone left half removed or half          *)
(* written).  Each external call may fail; the process may be killed     *)
(* between any two steps.                                                 *)
(***************************************************************************)
EXTENDS Integers

CONSTANTS
    Parts, MaxDepth,   \* PathDifference: the working directory and parent_src_dir
    MaxRuns            \* invocations in one behaviour

ASSUME MaxRuns \in Nat \ {0}

VARIABLES
    host,          \* platform.system(): how os.rename treats an existing target
    outerRepo,     \* the working directory has a .git
    tracksIgnore,  \* the library's repository tracks a .gitignore
    exists,        \* the folder parent_src_dir/<l> exists
    f,             \* .git, .git.bak, .gitignore, .gitignore.bak -> content
    pc,            \* position in get_src / git_commit_src_dir / rename_dir
    call,          \* the rename_dir call in progress: [src, dst, rm, ret,
                   \* locked: another process holds the source open]
    run, status,   \* invocation number; "running", "ok", "error", "crashed"
    hadRepo,       \* a clone once completed (history)
    damaged,       \* git ran on the enclosing repository in this folder
    cwd, parent, added, excluded   \* PathDifference

pdVars == <<cwd, parent, added, excluded>>
vars == <<host, outerRepo, tracksIgnore, exists, f, pc, call, run, status,
          hadRepo, damaged, pdVars>>

PD == INSTANCE PathDifference

Files == {".git", ".git.bak", ".gitignore", ".gitignore.bak"}
IsFile(x) == x \in {".gitignore", ".gitignore.bak"}
NoCall == [src |-> "none", dst |-> "none", rm |-> FALSE, ret |-> "none", locked |-> FALSE]

\* os.rename(s, d) can succeed: d is absent, or on POSIX a file replaces a
\* file.  A directory onto an existing one is FileExistsError on Windows
\* and ENOTEMPTY on POSIX; neither is a PermissionError.
Movable(s, d) == f[d] = "none" \/ (host # "Windows" /\ IsFile(d))
Move(s, d) == f' = [f EXCEPT ![d] = f[s], ![s] = "none"]

\* rename_dir(src, dst, remove_existing_detination=rm), returning to ret.
Call(src, dst, rm, ret) ==
    /\ call' = [src |-> src, dst |-> dst, rm |-> rm, ret |-> ret, locked |-> FALSE]
    /\ pc' = "rn_start"
Return == pc' = call.ret /\ call' = NoCall

Init ==
    /\ host \in {"Linux", "Windows"}
    /\ outerRepo \in BOOLEAN
    /\ tracksIgnore \in BOOLEAN
    /\ exists = FALSE
    /\ f = [x \in Files |-> "none"]
    /\ pc = "get"
    /\ call = NoCall
    /\ run = 1
    /\ status = "running"
    /\ hadRepo = FALSE
    /\ damaged = FALSE
    /\ PD!Init

Unchanged(vs) == UNCHANGED <<host, outerRepo, tracksIgnore, run, hadRepo, damaged, pdVars>> /\ UNCHANGED vs

-----------------------------------------------------------------------------
(* get_src of a git library                                                *)

\* Bring back the deactivated git functionality when .git.bak exists.
GetSrc ==
    /\ pc = "get"
    /\ IF f[".git.bak"] # "none"
         THEN Call(".git.bak", ".git", FALSE, "restoreIgnore")
         ELSE pc' = "pull" /\ UNCHANGED call
    /\ Unchanged(<<exists, f, status>>)

RestoreIgnore ==
    /\ pc = "restoreIgnore"
    /\ Call(".gitignore.bak", ".gitignore", FALSE, "pull")
    /\ Unchanged(<<exists, f, status>>)

\* What git reset --hard and git clean -fdx leave in a checkout: the
\* tracked .gitignore, and no untracked .git.bak or .gitignore.bak.
Cleaned == [x \in Files |-> CASE x = ".git" -> f[".git"]
                             [] x = ".gitignore" -> IF tracksIgnore THEN "full" ELSE "none"
                             [] OTHER -> "none"]

Fail(st) == pc' = "exit" /\ status' = st

\* The folder is absent: git clone --depth 1 creates it, fails (git
\* removes what it wrote), or is killed half way.
Clone ==
    /\ pc = "pull"
    /\ ~exists
    /\ \/ /\ exists' = TRUE
          /\ f' = [x \in Files |-> CASE x = ".git" -> "full"
                                     [] x = ".gitignore" -> IF tracksIgnore THEN "full" ELSE "none"
                                     [] OTHER -> "none"]
          /\ hadRepo' = TRUE
          /\ pc' = "commit"
          /\ UNCHANGED status
       \/ Fail("error") /\ UNCHANGED <<exists, f, hadRepo>>
       \/ /\ exists' = TRUE
          /\ f' = [f EXCEPT ![".git"] = "partial"]
          /\ Fail("crashed")
          /\ UNCHANGED hadRepo
    /\ UNCHANGED <<host, outerRepo, tracksIgnore, call, run, damaged, pdVars>>

\* The folder exists with its own .git: reset, clean, fetch, checkout,
\* reset, clean.  A command fails before the first clean or after it.
PullOwn ==
    /\ pc = "pull"
    /\ exists /\ f[".git"] = "full"
    /\ \/ f' = Cleaned /\ pc' = "commit" /\ UNCHANGED status
       \/ Fail("error") /\ UNCHANGED f
       \/ f' = Cleaned /\ Fail("error")
    /\ Unchanged(<<exists, call>>)

\* The folder exists without a usable .git: git looks upwards.  With an
\* enclosing repository the commands act on it, and its reset and clean
\* may remove the untracked backups of this folder; without one,
\* git rev-parse fails and git reset --hard origin/ fails.
PullForeign ==
    /\ pc = "pull"
    /\ exists /\ f[".git"] # "full"
    /\ IF outerRepo
         THEN /\ damaged' = TRUE
              /\ \E g \in {f, [f EXCEPT ![".git.bak"] = "none", ![".gitignore.bak"] = "none"]} :
                   f' = g
              /\ \/ pc' = "commit" /\ UNCHANGED status
                 \/ Fail("error")
         ELSE Fail("error") /\ UNCHANGED <<f, damaged>>
    /\ UNCHANGED <<host, outerRepo, tracksIgnore, exists, call, run, hadRepo, pdVars>>

-----------------------------------------------------------------------------
(* git_commit_src_dir                                                      *)

\* Mutant: the check for a .git in the working directory is dropped.
CommitNoEarlyReturn ==
    /\ pc = "commit"
    /\ IF exists /\ f[".git"] # "none"
         THEN Call(".git", ".git.bak", TRUE, "parkIgnore") /\ UNCHANGED status
         ELSE pc' = "add" /\ UNCHANGED <<call, status>>
    /\ Unchanged(<<exists, f>>)

\* Without a .git in the working directory it returns at once; otherwise
\* it visits the folder when it has a .git directory (git rev-parse finds
\* a repository, the folder's own or the enclosing one) and parks it.
Commit ==
    /\ pc = "commit"
    /\ IF ~outerRepo
         THEN pc' = "exit" /\ status' = "ok" /\ UNCHANGED call
       ELSE IF exists /\ f[".git"] # "none"
         THEN Call(".git", ".git.bak", TRUE, "parkIgnore") /\ UNCHANGED status
         ELSE pc' = "add" /\ UNCHANGED <<call, status>>
    /\ Unchanged(<<exists, f>>)

ParkIgnore ==
    /\ pc = "parkIgnore"
    /\ Call(".gitignore", ".gitignore.bak", TRUE, "add")
    /\ Unchanged(<<exists, f, status>>)

\* Back in src_dir: git add -A <difference> -- :!<difference>/install, then
\* the zip, its git add, git status and git commit.  A CalledProcessError
\* is printed and the function returns; any other exception (an OSError
\* from the zip or a missing git) leaves through the finally and main.
Add ==
    /\ pc = "add"
    /\ PD!GitAdd
    /\ \E st \in {"ok", "error"} : Fail(st)
    /\ UNCHANGED <<host, outerRepo, tracksIgnore, exists, f, call, run, hadRepo, damaged>>

-----------------------------------------------------------------------------
(* rename_dir                                                              *)

\* The source does not exist: nothing happens.
RenameAbsent ==
    /\ pc = "rn_start"
    /\ f[call.src] = "none"
    /\ Return
    /\ Unchanged(<<exists, f, status>>)

\* Go on to the rename.  The destination never exists here: a folder
\* reaches git_commit_src_dir only after a pull whose git clean -fdx
\* removed every backup, so the removal of an existing .git.bak or
\* .gitignore.bak (shutil.rmtree, os.remove) is never reached.
RenameStart ==
    /\ pc = "rn_start"
    /\ f[call.src] # "none"
    /\ f[call.dst] = "none" \/ ~call.rm
    /\ pc' = "rn_rename"
    /\ Unchanged(<<exists, f, call, status>>)

\* os.rename: done; or a PermissionError, which is retried once after a
\* second, from a lock that may or may not have gone by then; or another
\* OSError (the target exists), printed.
Rename ==
    /\ pc = "rn_rename"
    /\ \/ Movable(call.src, call.dst) /\ Move(call.src, call.dst) /\ Return
       \/ pc' = "rn_retry" /\ UNCHANGED f /\ \E lk \in BOOLEAN : call' = [call EXCEPT !.locked = lk]
       \/ Return /\ UNCHANGED f
    /\ Unchanged(<<exists, status>>)

\* Mutant: the retry is repeated while it keeps failing.
RetryLoops ==
    /\ pc = "rn_retry"
    /\ \/ ~call.locked /\ Movable(call.src, call.dst) /\ Move(call.src, call.dst) /\ Return
       \/ UNCHANGED <<pc, f, call>>
    /\ Unchanged(<<exists, status>>)

\* The retry: os.rename once more, which fails while the lock is held;
\* any exception is printed.
Retry ==
    /\ pc = "rn_retry"
    /\ \/ ~call.locked /\ Movable(call.src, call.dst) /\ Move(call.src, call.dst) /\ Return
       \/ Return /\ UNCHANGED f
    /\ Unchanged(<<exists, status>>)

-----------------------------------------------------------------------------
(* Invocations                                                             *)

\* The process is killed between two steps.
Kill ==
    /\ status = "running"
    /\ Fail("crashed")
    /\ call' = NoCall
    /\ Unchanged(<<exists, f>>)

\* The script is started again on the same tree.
Rerun ==
    /\ status # "running"
    /\ run < MaxRuns
    /\ run' = run + 1
    /\ pc' = "get"
    /\ status' = "running"
    /\ added' = PD!None /\ excluded' = PD!None
    /\ UNCHANGED <<host, outerRepo, tracksIgnore, exists, f, call, hadRepo, damaged, cwd, parent>>

\* The steps of the script itself, as opposed to a kill or a new start.
Step ==
    \/ GetSrc \/ RestoreIgnore \/ Clone \/ PullOwn \/ PullForeign
    \/ Commit \/ ParkIgnore \/ Add
    \/ RenameAbsent \/ RenameStart \/ Rename \/ Retry

Next == Step \/ Kill \/ Rerun

\* The script, once running, keeps taking its own steps (every one is a
\* local file operation or a git command assumed to return); it need not
\* be killed, and need not be started again.
Spec == Init /\ [][Next]_vars /\ WF_vars(Step)

-----------------------------------------------------------------------------
(* Refinement: the folder as Orchestrator sees it                          *)

\* A .git (or .git.bak) that a killed clone left half written is no
\* repository: git sees the enclosing one, so the folder is a "dir".
SrcOf == CASE ~exists                  -> "absent"
           [] f[".git"] = "full"       -> "git"
           [] f[".git.bak"] = "full"   -> "parked"
           [] OTHER                    -> "dir"

Folder == INSTANCE FolderSpec WITH src <- SrcOf

-----------------------------------------------------------------------------
(* Properties                                                              *)

\* Every invocation ends: rename_dir retries a failed rename only once,
\* so no step of get_src or git_commit_src_dir repeats forever.
InvocationEnds == status = "running" ~> status # "running"

\* get_src, git_commit_src_dir and rename_dir, taken step by step with
\* every failure, lock and kill, move the folder only as Orchestrator's
\* RetrieveGit, CloneKilled and ParkGitDir do (FolderSpec): a .git.bak
\* comes back as .git, a clone creates the folder, git runs on the
\* enclosing repository only in a folder without a repository of its own,
\* and .git is parked only in a working directory that has a .git.
ImplementsFolder == Folder!FolderSpec

\* The loop of get_path_difference counts the common leading parts.
CommonPartsCorrect == PD!CommonPartsCorrect

\* git add stages parent_src_dir, without its install tree, when it lies
\* inside the working directory.
GitAddsSourceDir == PD!GitAddsSourceDir

\* "Remove the .git directory" (git_commit_src_dir, before rename_dir):
\* when git add -A stages the library folder, its .git is gone, so the
\* enclosing repository records the sources and not a gitlink to the
\* library's own repository.
GitDirParkedBeforeAdd == pc = "add" => f[".git"] = "none"

=============================================================================
