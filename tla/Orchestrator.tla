---------------------------- MODULE Orchestrator ----------------------------
(***************************************************************************)
(* The orchestration driver of scripts/builddeps.py (main,                 *)
(* get_and_build_all, get_all_sources, get_src, get_zip,                   *)
(* git_commit_src_dir, build_all_sources) over repeated invocations of    *)
(* the script on one source tree.                                         *)
(*                                                                         *)
(* Every invocation sorts the registry with topological_sort (the         *)
(* TopoSort module, composed step by step), then, by mode, retrieves the *)
(* sources, parks their .git directories and commits, and builds.  What  *)
(* persists between invocations is the file system: per library whether *)
(* its source directory exists and with which git metadata, whether its  *)
(* archive was downloaded, and in which invocation it was last retrieved *)
(* and built.  Each git, curl, rename and build command is an external   *)
(* call whose success the model chooses; an invocation may also be       *)
(* killed between any two steps or in the middle of a download.          *)
(***************************************************************************)
EXTENDS DepGraph, Integers, FiniteSets

CONSTANTS
    Registries,       \* {repo_info}
    BuildFunctions,   \* libraries with a build_<name> function
    NoOpBuilds,       \* build functions that run no command
    MaxRuns           \* invocations of the script in one behaviour

ASSUME MaxRuns \in Nat \ {0}

VARIABLES
    reg, phase, repos, inDegree, graph, queue, topoOrder,  \* topological_sort
    run,          \* number of the current invocation
    mode,         \* "full", "getonly" (--get-only) or "buildonly" (--build-only)
    getAll,       \* --get-all
    extractZip,   \* --extract-zip was given
    outerRepo,    \* the working directory is a git repository (has .git)
    pc,           \* "sort", "get", "commit", "build" or "exit"
    status,       \* "running", or how the invocation ended: "ok", "error",
                  \* "crashed" (killed)
    work,         \* the list get_all_sources or build_all_sources iterates
    idx,          \* position of that loop in work
    newRepos,     \* new_repos of get_all_sources
    updatedRepos, \* updated_repos of get_all_sources
    pending,      \* source folders git_commit_src_dir has still to visit
    src,          \* library -> its source directory: "absent"; "git" (has
                  \* .git); "parked" (only .git.bak); "dir" (neither)
    zip,          \* library -> its archive file: "none", "partial", "complete",
                  \* or "extracted" (complete and unpacked)
    got,          \* library -> last invocation whose get_src returned its dir
    built,        \* library -> last invocation whose build succeeded
    srcAtStart,   \* src when the current invocation started (history)
    damaged       \* the libraries in whose directory, having no .git, a git
                  \* command ran on the enclosing repository

sortVars == <<reg, phase, repos, inDegree, graph, queue, topoOrder>>
cliVars  == <<run, mode, getAll, extractZip, outerRepo>>
loopVars == <<pc, status, work, idx, newRepos, updatedRepos, pending>>
fsVars   == <<src, zip, got, built, srcAtStart, damaged>>
vars     == <<sortVars, cliVars, loopVars, fsVars>>

TS == INSTANCE TopoSort

Modes == {"full", "getonly", "buildonly"}

SrcStates == {"absent", "git", "parked", "dir"}

IsArchive(l) == reg.source[l] = "compressed"

Init ==
    /\ TS!SortInit
    /\ run = 1
    /\ mode \in Modes
    /\ getAll \in BOOLEAN
    /\ extractZip \in BOOLEAN
    /\ outerRepo \in BOOLEAN
    /\ pc = "sort"
    /\ status = "running"
    /\ work = <<>>
    /\ idx = 1
    /\ newRepos = {}
    /\ updatedRepos = {}
    /\ pending = {}
    /\ src = [l \in LibValues |-> "absent"]
    /\ zip = [l \in LibValues |-> "none"]
    /\ got = [l \in LibValues |-> 0]
    /\ built = [l \in LibValues |-> 0]
    /\ srcAtStart = src
    /\ damaged = {}

-----------------------------------------------------------------------------
(* main: sorting and dispatch on the mode                                  *)

\* One step of topological_sort(repo_info).
Sort ==
    /\ pc = "sort"
    /\ TS!SortNext
    /\ UNCHANGED <<cliVars, loopVars, fsVars>>

\* topological_sort raised ValueError: main does not catch it.
SortRaised ==
    /\ pc = "sort"
    /\ phase = "cycle"
    /\ pc' = "exit"
    /\ status' = "error"
    /\ UNCHANGED <<sortVars, cliVars, work, idx, newRepos, updatedRepos, pending, fsVars>>

\* --get-only, or the full process (get_and_build_all): get_all_sources
\* over list(Libs) with --get-all, else over the sorted order.
StartRetrieval ==
    /\ pc = "sort"
    /\ phase \in {"invalid", "done"}
    /\ mode \in {"getonly", "full"}
    /\ pc' = "get"
    /\ work' = IF getAll THEN LibEnum ELSE topoOrder
    /\ idx' = 1
    /\ UNCHANGED <<sortVars, cliVars, status, newRepos, updatedRepos, pending, fsVars>>

\* --build-only: build_all_sources over the sorted order.
StartBuildOnly ==
    /\ pc = "sort"
    /\ phase \in {"invalid", "done"}
    /\ mode = "buildonly"
    /\ pc' = "build"
    /\ work' = topoOrder
    /\ idx' = 1
    /\ UNCHANGED <<sortVars, cliVars, status, newRepos, updatedRepos, pending, fsVars>>

-----------------------------------------------------------------------------
(* get_all_sources: one iteration calls get_src and files the result      *)

\* Mutant: the loop index advances by two.
FiledSkips(l, s2) ==
    /\ got' = [got EXCEPT ![l] = run]
    /\ IF s2 # "absent"
         THEN /\ updatedRepos' = updatedRepos \cup {l}
              /\ UNCHANGED newRepos
         ELSE /\ newRepos' = newRepos \cup {l}
              /\ UNCHANGED updatedRepos
    /\ idx' = idx + 2

\* get_all_sources after get_src returned repo_dir: the directory is filed
\* as updated when it exists, else as new.
Filed(l, s2) ==
    /\ got' = [got EXCEPT ![l] = run]
    /\ IF s2 # "absent"
         THEN /\ updatedRepos' = updatedRepos \cup {l}
              /\ UNCHANGED newRepos
         ELSE /\ newRepos' = newRepos \cup {l}
              /\ UNCHANGED updatedRepos
    /\ idx' = idx + 1

\* Mutant: get_all_sources goes on with the next library.
RetrievalFailedContinues ==
    /\ idx' = idx + 1
    /\ UNCHANGED <<pc, status, got, newRepos, updatedRepos>>

\* get_src returned None: get_all_sources returns status 1 and the
\* invocation exits with an error.
RetrievalFailed ==
    /\ pc' = "exit"
    /\ status' = "error"
    /\ UNCHANGED <<got, newRepos, updatedRepos, idx>>

\* get_src of a git library.  A .git.bak left by git_commit_src_dir is
\* renamed back first (rename_dir: one retry, failure only printed).  If
\* the directory exists the git reset/clean/fetch/checkout/reset/clean
\* sequence runs in it, else a shallow clone creates it.  Without a .git of
\* its own the directory belongs to the enclosing repository, and the git
\* commands act on that, and its git clean -fdx removes a .git.bak the
\* enclosing repository does not track (cleaned); without an enclosing
\* repository they fail.
RetrieveGit ==
    LET l == work[idx] IN
    /\ pc = "get"
    /\ idx <= Len(work)
    /\ ~IsArchive(l)
    /\ \E restored \in BOOLEAN, ok \in BOOLEAN, cleaned \in BOOLEAN :
        LET s1      == IF src[l] = "parked" /\ restored THEN "git" ELSE src[l]
            pull    == s1 # "absent"
            foreign == pull /\ s1 # "git"
            success == ok /\ ~(foreign /\ ~outerRepo)
            s2      == CASE ~pull /\ success                 -> "git"
                         [] foreign /\ outerRepo /\ cleaned -> "dir"
                         [] OTHER                          -> s1
        IN  /\ src' = [src EXCEPT ![l] = s2]
            /\ damaged' = IF foreign /\ outerRepo THEN damaged \cup {l} ELSE damaged
            /\ IF success
                 THEN Filed(l, s2) /\ UNCHANGED <<pc, status>>
                 ELSE RetrievalFailed
    /\ UNCHANGED <<sortVars, cliVars, work, pending, zip, built, srcAtStart>>

\* The extract argument get_src leaves get_zip at its default, which Python
\* evaluates once, when the def runs at import: g_config's initial
\* extract_zip_sources_cfg, False.  main assigns the option only later.
ZipExtract == FALSE

\* get_src of an archive: get_zip creates the directory, downloads the
\* file with curl unless a file of that name exists, and extracts a
\* complete file when extract is True (a partial one is a BadZipFile).  A
\* failed download may leave a partial file; get_zip prints the error and
\* returns, and get_src returns repo_dir all the same.
RetrieveArchive ==
    LET l == work[idx] IN
    /\ pc = "get"
    /\ idx <= Len(work)
    /\ IsArchive(l)
    /\ src' = [src EXCEPT ![l] = IF src[l] = "absent" THEN "dir" ELSE src[l]]
    /\ \E z \in IF zip[l] = "none" THEN {"none", "partial", "complete"} ELSE {zip[l]} :
         zip' = [zip EXCEPT ![l] = IF z = "complete" /\ ZipExtract THEN "extracted" ELSE z]
    /\ Filed(l, src'[l])
    /\ UNCHANGED <<sortVars, cliVars, pc, status, work, pending, built, srcAtStart, damaged>>

\* get_zip has created the directory but curl cannot be started (an
\* OSError, which get_zip does not catch): get_src returns None.
ArchiveRaised ==
    LET l == work[idx] IN
    /\ pc = "get"
    /\ idx <= Len(work)
    /\ IsArchive(l)
    /\ zip[l] = "none"
    /\ src' = [src EXCEPT ![l] = "dir"]
    /\ RetrievalFailed
    /\ UNCHANGED <<sortVars, cliVars, work, pending, zip, built, srcAtStart, damaged>>

\* The invocation is killed while curl writes the archive.
DownloadKilled ==
    LET l == work[idx] IN
    /\ pc = "get"
    /\ idx <= Len(work)
    /\ IsArchive(l)
    /\ zip[l] = "none"
    /\ src' = [src EXCEPT ![l] = "dir"]
    /\ zip' = [zip EXCEPT ![l] = "partial"]
    /\ pc' = "exit"
    /\ status' = "crashed"
    /\ UNCHANGED <<sortVars, cliVars, work, idx, newRepos, updatedRepos, pending,
                   got, built, srcAtStart, damaged>>

\* The invocation is killed while git clone writes a new checkout: the
\* directory exists, and its half-written .git is no repository, so git
\* treats the directory as one without .git.
CloneKilled ==
    LET l == work[idx] IN
    /\ pc = "get"
    /\ idx <= Len(work)
    /\ ~IsArchive(l)
    /\ src[l] = "absent"
    /\ src' = [src EXCEPT ![l] = "dir"]
    /\ pc' = "exit"
    /\ status' = "crashed"
    /\ UNCHANGED <<sortVars, cliVars, work, idx, newRepos, updatedRepos, pending,
                   zip, got, built, srcAtStart, damaged>>

-----------------------------------------------------------------------------
(* git_commit_src_dir                                                      *)

\* get_all_sources returned status 0.  git_commit_src_dir returns at once
\* when the working directory has no .git; else it visits every folder of
\* parent_src_dir that has a .git.
RetrievalDone ==
    /\ pc = "get"
    /\ idx > Len(work)
    /\ pc' = "commit"
    /\ pending' = IF outerRepo THEN {l \in LibValues : src[l] = "git"} ELSE {}
    /\ UNCHANGED <<sortVars, cliVars, status, work, idx, newRepos, updatedRepos, fsVars>>

\* One folder: rename_dir(.git, .git.bak, remove_existing_detination=True);
\* a failed rename is printed and the folder keeps its .git.
ParkGitDir ==
    /\ pc = "commit"
    /\ \E l \in pending, renamed \in BOOLEAN :
        /\ pending' = pending \ {l}
        /\ src' = [src EXCEPT ![l] = IF renamed THEN "parked" ELSE "git"]
    /\ UNCHANGED <<sortVars, cliVars, pc, status, work, idx, newRepos, updatedRepos,
                   zip, got, built, srcAtStart, damaged>>

\* Mutant: the full process builds in list(Libs) order.
CommitDoneEnumOrder ==
    /\ pc = "commit"
    /\ pending = {}
    /\ IF mode = "getonly"
         THEN /\ pc' = "exit"
              /\ status' = "ok"
              /\ UNCHANGED <<work, idx>>
         ELSE /\ pc' = "build"
              /\ work' = LibEnum
              /\ idx' = 1
              /\ UNCHANGED status
    /\ UNCHANGED <<sortVars, cliVars, newRepos, updatedRepos, pending, fsVars>>

\* git add, zip, git commit (their failures are printed only); then
\* --get-only exits 0 and the full process goes on to build_all_sources.
CommitDone ==
    /\ pc = "commit"
    /\ pending = {}
    /\ IF mode = "getonly"
         THEN /\ pc' = "exit"
              /\ status' = "ok"
              /\ UNCHANGED <<work, idx>>
         ELSE /\ pc' = "build"
              /\ work' = topoOrder
              /\ idx' = 1
              /\ UNCHANGED status
    /\ UNCHANGED <<sortVars, cliVars, newRepos, updatedRepos, pending, fsVars>>

\* In a working directory with a .git, an exception other than
\* CalledProcessError after the loop (the zip
\* cannot be written, git cannot be started) leaves git_commit_src_dir
\* through its finally; get_and_build_all catches only ValueError and
\* main nothing, so the invocation ends with a traceback.
CommitRaised ==
    /\ pc = "commit"
    /\ outerRepo
    /\ pending = {}
    /\ pc' = "exit"
    /\ status' = "error"
    /\ UNCHANGED <<sortVars, cliVars, work, idx, newRepos, updatedRepos, pending, fsVars>>

-----------------------------------------------------------------------------
(* build_all_sources                                                       *)

\* A library without a build function is skipped with a message, and
\* build_python returns 0 without running anything.
SkipBuild ==
    /\ pc = "build"
    /\ idx <= Len(work)
    /\ work[idx] \notin BuildFunctions \ NoOpBuilds
    /\ idx' = idx + 1
    /\ UNCHANGED <<sortVars, cliVars, pc, status, work, newRepos, updatedRepos,
                   pending, fsVars>>

\* Mutant: build_all_sources ignores a failed build and goes on.
BuildLibIgnoresFailure ==
    LET l == work[idx] IN
    /\ pc = "build"
    /\ idx <= Len(work)
    /\ l \in BuildFunctions \ NoOpBuilds
    /\ \E ok \in IF src[l] = "absent" THEN {FALSE} ELSE BOOLEAN :
         /\ built' = IF ok THEN [built EXCEPT ![l] = run] ELSE built
         /\ idx' = idx + 1
         /\ UNCHANGED <<pc, status>>
    /\ UNCHANGED <<sortVars, cliVars, work, newRepos, updatedRepos, pending,
                   src, zip, got, srcAtStart, damaged>>

\* build_<name>(src_dir) runs the library's commands in its source
\* directory (build_dep).  A missing directory makes subprocess.run raise;
\* a failing command makes build_dep return 1 and build_all_sources
\* return the error; either way the invocation exits with an error.
BuildLib ==
    LET l == work[idx] IN
    /\ pc = "build"
    /\ idx <= Len(work)
    /\ l \in BuildFunctions \ NoOpBuilds
    /\ \E ok \in IF src[l] = "absent" THEN {FALSE} ELSE BOOLEAN :
         IF ok
           THEN /\ built' = [built EXCEPT ![l] = run]
                /\ idx' = idx + 1
                /\ UNCHANGED <<pc, status>>
           ELSE /\ pc' = "exit"
                /\ status' = "error"
                /\ UNCHANGED <<built, idx>>
    /\ UNCHANGED <<sortVars, cliVars, work, newRepos, updatedRepos, pending,
                   src, zip, got, srcAtStart, damaged>>

\* build_all_sources returns ("", 0, ""): the invocation exits 0.
BuildDone ==
    /\ pc = "build"
    /\ idx > Len(work)
    /\ pc' = "exit"
    /\ status' = "ok"
    /\ UNCHANGED <<sortVars, cliVars, work, idx, newRepos, updatedRepos, pending, fsVars>>

-----------------------------------------------------------------------------
(* Invocations                                                             *)

\* The process is killed between two steps.
Kill ==
    /\ status = "running"
    /\ pc' = "exit"
    /\ status' = "crashed"
    /\ UNCHANGED <<sortVars, cliVars, work, idx, newRepos, updatedRepos, pending, fsVars>>

\* The script is run again on the same tree, with any options.
Rerun ==
    /\ status # "running"
    /\ run < MaxRuns
    /\ phase' = "start"
    /\ repos' = <<>>
    /\ inDegree' = [r \in {} |-> 0]
    /\ graph' = [d \in {} |-> <<>>]
    /\ queue' = <<>>
    /\ topoOrder' = <<>>
    /\ run' = run + 1
    /\ mode' \in Modes
    /\ getAll' \in BOOLEAN
    /\ extractZip' \in BOOLEAN
    /\ pc' = "sort"
    /\ status' = "running"
    /\ work' = <<>>
    /\ idx' = 1
    /\ newRepos' = {}
    /\ updatedRepos' = {}
    /\ pending' = {}
    /\ srcAtStart' = src
    /\ UNCHANGED <<reg, outerRepo, src, zip, got, built, damaged>>

Next ==
    \/ Sort
    \/ SortRaised
    \/ StartRetrieval
    \/ StartBuildOnly
    \/ RetrieveGit
    \/ RetrieveArchive
    \/ ArchiveRaised
    \/ DownloadKilled
    \/ CloneKilled
    \/ RetrievalDone
    \/ ParkGitDir
    \/ CommitDone
    \/ CommitRaised
    \/ SkipBuild
    \/ BuildLib
    \/ BuildDone
    \/ Kill
    \/ Rerun

Spec == Init /\ [][Next]_vars

-----------------------------------------------------------------------------
(* Properties                                                              *)

TypeOK ==
    /\ run \in 1..MaxRuns
    /\ mode \in Modes
    /\ getAll \in BOOLEAN
    /\ outerRepo \in BOOLEAN
    /\ pc \in {"sort", "get", "commit", "build", "exit"}
    /\ status \in {"running", "ok", "error", "crashed"}
    /\ work \in Seq(LibValues)
    /\ idx \in 1..(Len(work) + 1)
    /\ newRepos \subseteq LibValues
    /\ updatedRepos \subseteq LibValues
    /\ pending \subseteq LibValues
    /\ src \in [LibValues -> SrcStates]
    /\ zip \in [LibValues -> {"none", "partial", "complete", "extracted"}]
    /\ got \in [LibValues -> 0..MaxRuns]
    /\ built \in [LibValues -> 0..MaxRuns]
    /\ damaged \subseteq LibValues

\* A library is built only after every library it depends on was built
\* earlier in the same invocation (later builds read the install trees of
\* earlier ones; build_all_sources must follow the sorted order).
BuildAfterDeps ==
    [][\A l \in LibValues :
         built'[l] # built[l] => \A d \in SpecDeps(reg, l) : built[d] = run]_vars

\* In the full process a library is built only from sources get_src
\* returned in the same invocation.
BuildFromFreshSources ==
    [][\A l \in LibValues :
         built'[l] # built[l] /\ mode = "full" => got[l] = run]_vars

\* The libraries an invocation retrieves and builds, per the spec.
RetrieveTargets == IF getAll THEN LibValues ELSE FilteredLibs(reg)
BuildTargets    == FilteredLibs(reg) \cap (BuildFunctions \ NoOpBuilds)

\* An invocation that exits 0 retrieved, in that invocation, every library
\* it was to retrieve and built every library it was to build.
SuccessMeansComplete ==
    status = "ok" =>
        /\ mode # "buildonly" => \A l \in RetrieveTargets : got[l] = run
        /\ mode # "getonly"   => \A l \in BuildTargets : built[l] = run

\* new_repos lists exactly the libraries whose directory did not exist
\* before the invocation retrieved them (spec 4.5 Recording, 8 idempotence).
NewReposReported ==
    status = "ok" /\ mode # "buildonly" =>
        newRepos = {l \in RetrieveTargets : srcAtStart[l] = "absent"}

\* An invocation that retrieved sources and exits 0 has every archive it
\* retrieved complete on disk (spec 4.3: a failed materialization is fatal).
ArchivesComplete ==
    status = "ok" /\ mode # "buildonly" =>
        \A l \in RetrieveTargets : IsArchive(l) => zip[l] \in {"complete", "extracted"}

\* --extract-zip (spec 5: whether archive sources are unpacked after
\* download): an invocation given the option that retrieved sources and
\* exits 0 has unpacked every archive it was to retrieve.
ExtractHonoured ==
    status = "ok" /\ mode # "buildonly" /\ extractZip =>
        \A l \in RetrieveTargets : IsArchive(l) => zip[l] = "extracted"

\* git commands only ever run in a library directory that has its own
\* .git, never on the repository that encloses the source tree.
GitStaysInLibrary == damaged = {}

=============================================================================
