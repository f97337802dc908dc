# TLA+ models of `scripts/builddeps.py`

`src/scripts/builddeps.py` fetches, commits and builds the third-party
libraries of the Redshift ODBC driver. This directory holds TLA+ models of the
script, the TLC configurations that check them, and this description. Line
numbers below refer to `src/scripts/builddeps.py`.

## The system

| Part | Code | State it keeps | Operations |
|---|---|---|---|
| Library registry | `repo_info` (60–127), `Libs` (171–197) | constant tables: platform, dependency lists, source type per library | `Libs.get_element_by_values` |
| Platform filter | `get_repositories` (454–470), `get_dependencies` (484–489) | none (reads `platform.system()`) | filter entries for the host; pick `dependencies` or `win_dependencies` |
| Dependency scheduler | `topological_sort` (506–547) | `graph`, `in_degree`, queue, `topo_order` | sanity check, build graph, Kahn loop, cycle check |
| Source retrieval | `get_src` (647–721), `get_zip` (599–632), `rename_dir` (566–597) | the source tree on disk: library directory, its `.git` / `.git.bak`, the archive file | restore `.git`, pull or clone, download an archive |
| Source bookkeeping | `git_commit_src_dir` (1026–1095) and helpers (971–1024) | `.git` parked as `.git.bak` in every library; a commit in the enclosing repository | park `.git`, `git add`, zip, commit |
| Build invoker | `build_dep` (737–754), `build_*` (796–935), command templates (201–341, 765–793) | install trees under `install/` | run a library's commands |
| Orchestration driver | `main` (1222–1297), `get_and_build_all` (1182–1201), `get_all_sources` (1119–1134), `build_all_sources` (1153–1162) | loop positions, `new_repos`, `updated_repos`, exit status | the three modes |
| Command-line interface | `main` (1222–1271) | `g_config` | `--get-only`, `--build-only`, `--get-all`, `--extract-zip`, directories |
| Host detection | `detect_openssl_platform` (411–443), `get_host_argument` (382–397) | none | name the target platform; raise on other systems |

How the parts interact: every invocation sorts the filtered registry. It then
runs one of three sequences, chosen by mode:

- **full** (no mode option): retrieve, commit, build.
- **`--get-only`**: retrieve, commit.
- **`--build-only`**: build.

Retrieval walks the sorted order, or `list(Libs)` with `--get-all`. The build
always walks the sorted order. Nothing is shared in memory between
invocations. What persists is the source tree. Earlier invocations, including
ones that were killed or failed, leave behind:

- libraries whose `.git` was parked as `.git.bak`;
- partial archives;
- directories that exist without a checkout.

The script is sequential, so there is no concurrency inside one run. What
makes it hard is the following:

- **External calls that fail.** Every git, curl, rename and build command is
  such a call. Many failures are only printed (`rename_dir`, `get_zip`, the
  commit).
- **The order of builds.** Each build consumes the install trees of the
  libraries before it.
- **A tree left behind.** The next invocation inherits whatever a crashed or
  failed one left.

The properties that make each part correct:

- **Scheduler.** It decides once. It raises exactly on a cycle. Otherwise it
  returns every filtered library once, with each dependency first.
- **Driver.** Builds follow dependencies. Exit 0 means every target was
  retrieved and built in that invocation. The full process never builds
  sources it failed to refresh.
- **Retrieval.** Git runs only inside a library's own checkout. New and
  updated libraries are reported correctly. An archive behind an exit 0 is
  complete.
- **Bookkeeping.** Every invocation ends, whatever its renames meet.
  `git add` stages `parent_src_dir` without its install tree.
- **Build invoker.** Every sibling install tree a command names is built
  first, and every command is formatted. The script starts only where
  detection knows the host, and there `get_host_argument` agrees.

## Modules

| Module | Models | State and actions |
|---|---|---|
| `Registry` | `repo_info`, `Libs`, which `build_*` exist | constants only |
| `PlatformFilter` | `get_repositories`, `get_element_by_values`, `get_dependencies` | operators over a registry record `[order, plat, deps, windeps]` |
| `DepGraph` | the spec's filter and graph (§4.1–4.2) | the reference: `FilteredLibs`, `SpecDeps`, `IsDagOf` (via `Graphs!IsDag`), `IsTopoOrderOf` |
| `ScheduleSpec` | what the scheduler promises | `result` goes once from pending to `invalid`, an order or a cycle |
| `TopoSort` | `topological_sort` | variables `phase, repos, inDegree, graph, queue, topoOrder`; actions `SanityCheckFails`, `BuildGraph`, `Visit` (one loop iteration), `RaiseCycle`, `ReturnOrder`; refines `ScheduleSpec` via `SortResult` |
| `Orchestrator` | `main` and the driver, retrieval, bookkeeping and build outcomes | composes `TopoSort` (`TS == INSTANCE TopoSort`, one `Sort` step per sort step) |
| `BuildTemplates` | `unix_build_commands`, `windows_build_commands`, `get_build_commands`, `get_install_dir`, `get_build_dir`, the keyword arguments of every `build_<name>`, `get_repo_build_commands` | operators: a template is a sequence of commands `[prog, words]`; `FormatCommand` gives the paths a formatted command names, with `format`'s fallback to the unformatted text on a missing key |
| `HostDetection` | `detect_openssl_platform`, `get_host_argument`, the machines `platform.machine()` reports per system | operators; `Unsupported` stands for `UnsupportedPlatformError` |
| `BuildInvoker` | the import of the script, `build_all_sources`, `build_dep` | composes `TopoSort`; variables `machine, bpc, status, li, ci, fs`; actions `Import`, `ImportRaises`, `StartBuild`, `SkipLib`, `RunCommand`, `CommandFails`, `CommandRaises`, `LibDone`, `BuildDone` |
| `PathDifference` | `get_path_difference` and the first `git add` of `git_commit_src_dir` | `CommonParts` is the loop, as a `RECURSIVE` operator; variables `cwd, parent, added, excluded`; action `GitAdd` |
| `GitBookkeeping` | one library folder across invocations: `get_src`'s restore, pull and clone, `git_commit_src_dir`'s parking and `git add`, `rename_dir` step by step | variables `f` (`.git`, `.git.bak`, `.gitignore`, `.gitignore.bak` → none, full or partial), `exists`, `pc`, `call` (the `rename_dir` in progress), `run`, `status`, `damaged`; composes `PathDifference` |
| `FolderSpec` | a library folder as `Orchestrator` abstracts it | variables `src, outerRepo, damaged`; actions `Restore`, `Clone`, `ForeignPull`, `Park`: the `src` transitions of `RetrieveGit`, `CloneKilled` and `ParkGitDir`; `GitBookkeeping` refines it under `SrcOf` |
| `TopoRegistries` | the registries the scheduler is checked on | every three-library registry per host, plus keys that are no `Libs` value |
| `MCTopoSortHosts` | `topological_sort` on either host | `host` is a variable fixed at the start; the sort is `TS(h) == INSTANCE TopoSort WITH Host <- h`, one step per `TS(h)!SortNext`; `TSW(h)` instantiates it over the well-formed registries of `h` for the refinement, stated per host as `ScheduleSpec`'s initial condition, its `Decide` steps under `SortResult`, and eventual decision |
| `MCTopoSort`, `MCOrchestrator`, `MCBuildInvoker`, `MCGitBookkeeping` | instances for TLC | small registries, the shipped registry, paths over two part names |

How the `Orchestrator` state maps to the code. Each file-system variable maps
one library to a value:

- `src` says what its directory holds:
  - `absent`: no directory;
  - `git`: it has `.git`;
  - `parked`: it has only `.git.bak`;
  - `dir`: neither, which is an archive directory or a checkout whose `.git`
    was not restored.
- `zip` is its archive file: none, partial, complete, or extracted (complete
  and unpacked, which needs `get_zip`'s `extract` to be True: `ZipExtract`).
- `got` and `built` are the last invocation that retrieved or built it.

`pc` and `idx` are the position in `main` and in the current loop. `newRepos`
and `updatedRepos` are the lists of `get_all_sources`. `pending` holds the
folders `git_commit_src_dir` has still to visit. `damaged` holds the
libraries in whose directory, lacking its own `.git`, a git command ran on
the enclosing repository.

Each outcome of an external command is an existentially chosen boolean or
value:

- `RetrieveGit`: `restored`, `ok`, and `cleaned` (the enclosing
  repository's `git clean -fdx` removed an untracked `.git.bak`);
- `RetrieveArchive`: the resulting archive;
- `ParkGitDir`: `renamed`;
- `BuildLib`: `ok`.

How the `BuildInvoker` state maps to the code:

- `li` and `ci` are the positions of `build_all_sources` in the sorted order
  and of `build_dep` in the library's commands;
- `fs` is the set of paths, relative to `parent_src_dir`, that the commands
  created and did not remove. A path is a sequence of parts, so
  `<<"install", "openssl", "lib", "lib.so">>` is openssl's shared library.
  It starts as any set of build directories an earlier, killed run left.
- A command's effect is what it does to the paths it names, run without a
  shell: `rm -rf` removes exactly the named paths, a pattern being a
  literal name; `mkdir -p`, `ln -sf` and `cmake -B` create them; `make
  install` adds the static library, and for openssl, zlib and krb5 on Unix
  also the shared one (`SharedInstalls`, the reason their templates remove
  `*.so`/`*.dylib`). Option flags, make and configure leave `fs` alone.
- `RunCommand` is exit 0; `CommandFails` is `CalledProcessError`, after none
  or all of the command's effect; `CommandRaises` is a program that cannot
  start, an `OSError` nothing catches.

These `Orchestrator` actions stand for process-level events, not code:

- `Kill` (the process dies between steps);
- `DownloadKilled` and `CloneKilled` (killed during `curl` or `git clone`,
  leaving a partial archive or a folder whose `.git` is no repository);
- `Rerun` (the script is started again on the same tree with any options).

`MaxRuns` bounds `Rerun`. `CommitRaised` is code: in a working directory with a `.git` (without one `git_commit_src_dir` returns at 1027), an exception other than
`CalledProcessError` after the loop of `git_commit_src_dir` (the zip cannot
be written, git cannot be started) escapes through its `finally` and `main`.

How the `GitBookkeeping` state maps to the code. `f` gives the content of
the four names inside the library folder; `partial` is a `.git` that a
killed clone left half written. `pc` is the position in `get_src`,
`git_commit_src_dir` or `rename_dir`; `Call` and `Return` enter and leave
`rename_dir`, whose steps are `RenameAbsent` (571), `RenameStart` (572–584),
`Rename` (585–597) and `Retry` (588–595). A `PermissionError` chooses
`call.locked`: whether the lock is still held one second later, at the
retry. `Movable` is what `os.rename` allows: an absent target, or on POSIX
a file onto a file. `outerRepo` is the working directory having `.git`,
`tracksIgnore` the library's repository tracking a `.gitignore`.

How `BuildInvoker` starts: `machine` is chosen from what the host's
`platform.machine()` reports, and `Import` (or `ImportRaises`) is the
module-level `openssl_platform = detect_openssl_platform()` (443).

## Runs

| Run | Checks | Shows |
|---|---|---|
| `topo_hosts` | `HostsTypeOK`, `HostsRefineSchedule` | on Linux (`dependencies`) and Windows (`win_dependencies`), over every registry of three libraries (every subset of a, b, c and an unknown name `u` as dependencies, each entry on or off the host): on every registry whose dependencies stay inside the filtered set or that has a key naming no library, `TopoSort` implements `ScheduleSpec` under the mapping `SortResult` (an `invalid` decision is signalled by the code only by printing and returning `[]`), and with weak fairness it always decides |
| `topo_outside_dep` (violation) | `SpecSortOutcome` | a dependency on a library filtered out for the host produces a spurious cycle error |
| `orch_small` | `TypeOK`, `SuccessMeansComplete`, `BuildAfterDeps`, `BuildFromFreshSources` | three invocations on one tree with a three-library registry (see below) |
| `orch_new_repos` (violation) | `NewReposReported` | `new_repos` is always empty |
| `orch_archives` (violation) | `ArchivesComplete` | exit 0 with a failed or partial archive |
| `orch_git_outer` (violation) | `GitStaysInLibrary` | a failed `.git.bak` restore makes `git reset --hard` / `git clean -fdx` run on the enclosing repository |
| `orch_invalid_key` (violation) | `SuccessMeansComplete` | a registry key that is no `Libs` value: the sort returns `[]`, nothing is built, exit 0 |
| `orch_extract_zip` (violation) | `ExtractHonoured` | `--extract-zip` never unpacks an archive |
| `build` | `TypeOK`, `SiblingsInstalledFirst`, `NoFormatFallback`, `HostArgumentDefined` | on Linux, macOS and Windows with the shipped registry and templates, every `install_dir_parent/<x>` path a build command names already holds `x`'s static library, installed by this run; no command falls back to unformatted text; `get_host_argument` names a target wherever the import succeeded, on every machine of each host; from every set of stale build directories and under every command failure |
| `build_glob` (violation) | `RemovalsTakeEffect` | `rm -rf install_dir/lib/*.so` leaves the shared library |
| `git_unparked` (violation) | `GitDirParkedBeforeAdd` | a rename of `.git` that fails is only printed, and `git add -A` stages the folder with its `.git` |
| `bookkeeping` | `CommonPartsCorrect`, `GitAddsSourceDir`, `InvocationEnds`, `ImplementsFolder` | over three invocations of one library folder, with every clone, pull and rename failing, a lock held or released by the retry, and kills between any two steps: every invocation ends (the single retry of `rename_dir` cannot loop); the loop of `get_path_difference` equals `SequencesExt!LongestCommonPrefix` on every pair of paths of up to three parts; with `parent_src_dir` inside the working directory, `git add` stages it and excludes its `install` tree; and every step moves the folder only as `FolderSpec` allows, so the one-step retrieval and parking outcomes of `Orchestrator` cover what `get_src`, `git_commit_src_dir` and `rename_dir` really do |

The small registry of `orch_small` has three libraries:

- `curl` (unix only) depends on `ssl`, and comes first in the `Libs` enum, so
  `--get-all` walks against the dependency order;
- `ssl` applies everywhere;
- `py` is a Windows-only archive with a no-op build.

A second version of the table adds the cycle `ssl` → `curl`, so the uncaught
`ValueError` of `main` is reached. A third lets `py` apply on every host, so
the build reaches `build_python`, which returns at once.

Every property of a passing run has a mutant in `PROJECT.json`. A mutant is a
plausible bug in the mapped code, and TLC finds it under the same cfg.

### Bounds

- **Three libraries for the scheduler.** That is the smallest size with
  cycles of length 2 and 3, a diamond-free chain, and an excluded library
  between two others. Every dependency set over four names is enumerated.
- **`MaxRuns = 3` with the small registry.** Three invocations are enough for
  the longest interesting sequence:
  1. a run that parks `.git`;
  2. a run whose restore fails;
  3. a run that builds.
- **The build invoker runs on the shipped registry and templates.** Every
  template and every `build_<name>` is in; one invocation is enough, since
  its only state from earlier runs is the stale build directories, all of
  whose subsets are initial states.
- **Paths of up to three parts over two names** (`MaxDepth = 3`). That covers equal paths,
  one inside the other at any depth, siblings, and a working directory
  inside `parent_src_dir`.
- **`MaxRuns = 3` for one library folder.** The longest sequence that
  matters is a clone, a run that parks `.git` and `.gitignore`, and a run
  that restores them, each of which may be killed or fail at any step.
- **The orchestrator runs on small registries only.** The shipped registry
  (eleven libraries) is checked through `BuildInvoker`, whose sort and build
  walk it on every host. The orchestrator's retrieval and multi-invocation
  hazards do not depend on the number of libraries, only on their kinds
  (git or archive, on or off the host, with or without a dependency), which
  the three-library registry covers.

### Fairness

The scheduler has weak fairness on `SortNext`. `topological_sort` is a plain
loop with no I/O, so once started it runs to completion. The orchestrator and the build invoker have
no fairness. Every external command may hang or the process may be killed, so
no liveness is claimed for it.
`GitBookkeeping` has weak fairness on `Step`, the script's own steps, and
none on `Kill` or `Rerun`: a kill is always enabled, and fairness on it
would end every invocation trivially. Each step is a local rename or a
git command whose outcome, success or failure, is chosen, so the fairness
assumes that the process keeps running and that `git clone`, `git pull`,
`git add` and `git commit` return. `InvocationEnds` is therefore
termination given that commands return: it shows that no step of the
script itself repeats forever (the one retry of `rename_dir` cannot loop),
not that the script ends against a hung remote (the hazard at line 683).
The orchestrator makes the same assumption nowhere: its loops are bounded
by the registry, so the only way it could fail to end is a hung command. The runs set `CHECK_DEADLOCK FALSE` because
both the sort and the script really terminate.

## Findings

Each of these is shown by a violation run.

1. **A dependency outside the filtered set breaks the sort** (line 524,
   `topo_outside_dep`). A library depending on a library the platform
   excludes is reported as a cycle. The spec says such a dependency is
   ignored.
2. **`new_repos` is always empty** (line 1127, `orch_new_repos`). The
   existence check runs after the clone.
3. **Archive download failures are swallowed** (line 613, `orch_archives`).
   A partial file is then trusted forever (line 604).
4. **git can run on the enclosing repository** (line 669, `orch_git_outer`).
   After a failed `.git.bak` restore, `get_src` pulls in a directory without
   `.git`, and git acts on the enclosing repository.
5. **An invalid registry key ends in exit 0** (line 516, `orch_invalid_key`).
   The spec makes it fatal before any I/O; the code returns an empty order
   and does nothing.
6. **`--extract-zip` has no effect** (line 599, `orch_extract_zip`).
   `get_zip`'s default was evaluated at import, from `False`; the option is
   also a string.
7. **`rm -rf .../*.so` removes nothing** (line 747, templates 220, 273, 292;
   `build_glob`). Commands run without a shell, so the pattern is never
   expanded.
8. **A `.git` that cannot be parked is committed as a gitlink** (line
   1049, `git_unparked`). `rename_dir` only prints a failure, so `git add
   -A` stages the library folder with its `.git`: the commit records a
   submodule pointer instead of the sources. TLC's trace: a clone, then
   the park's `os.rename` fails, then `git add`.

Observations from modelling that no run checks:

- **`linux` and `macos` platform values match both Unix hosts** (line 467).
  No shipped entry uses them.
- **The aws-sdk-cpp template names `care`** (line 240) instead of `cares`,
  so it links a library path that is never installed.
- **zlib's `mkdir -p {{build_dir}}` is no f-string** (line 266). It creates
  a directory literally named `{build_dir}`.
- **`get_path_difference` is no relative path** (line 988). With
  `--parent-src-dir` outside the working directory, or the working
  directory inside it, `git add` stages another path or fails, and the
  commit is skipped. `bookkeeping` checks the inside layout, where it is
  right.
- **A failed restore can lose the library's repository for good**
  (675). The pull that follows runs on the enclosing repository, whose
  `git clean -fdx` deletes the untracked `.git.bak`; from then on the
  folder is a plain directory (`cleaned` in `Orchestrator`, `FolderSpec`'s
  `ForeignPull` to `dir`). `orch_git_outer` reaches the first half.
- **A killed `git clone` poisons the folder** (689–703). Its `.git` is no
  repository, so the next `get_src` pulls in it and git acts on the
  enclosing repository (`CloneKilled`; `orch_git_outer` can take this path),
  or, without one, every later invocation fails on this library.
- **The removal of an existing backup in `rename_dir` is never reached**
  (572–582). A folder reaches `git_commit_src_dir` only after a pull whose
  `git clean -fdx` removed every untracked `.git.bak` and `.gitignore.bak`.
- **64-bit ARM Linux cannot run the script** (419). `platform.machine()` is
  `aarch64` there, which does not start with `arm`, so the import raises;
  the `linux-aarch64` branch is reached only by `arm64`, which Linux does
  not report. `BuildInvoker` reaches it as `ImportRaises`.

## Not modelled

- **The text of git and curl commands.** URLs and branches only shape
  command text; their outcomes are chosen. The build templates are modelled
  down to the paths they name (`BuildTemplates`); option flags such as the
  AWS template's `-USE_OPENSSL=ON` (a typo for `-DUSE_OPENSSL=ON`) are not.
- **A template missing for a library with a build function** would make
  `get_build_commands()[repository]` raise `KeyError` (793). No host reaches
  it with the shipped tables, so there is no action for it.
- **`--build-dir`, `--install-dir`, `--build-type`.** They move the trees;
  the model keeps the defaults. The Windows-only rejection of `--build-type`
  with `--get-only` exits before anything happens.
- **Submodules, the commit message and the zip.** No property tells them
  apart; their failures are the outcomes of `Add` and `CommitRaised`.
- **The OpenSSL target in the templates.** `openssl_platform` is a word
  that names no path, so the templates keep it as such; only whether
  detection succeeds is modelled.
- **Hangs of external commands.** No command has a timeout (the spec accepts
  this, line 74). No fairness can be justified against a hung remote or
  build, so no liveness is claimed; see the hazard at line 683.

## Plan

Done: `PlatformFilter`, `DepGraph`, `TopoSort` and `ScheduleSpec` with their
refinement, `Orchestrator`, and then `BuildTemplates`, `BuildInvoker`,
`PathDifference`, the invalid-key and `--extract-zip` runs, then
`GitBookkeeping` (`rename_dir` step by step, with liveness), `HostDetection`,
and the killed clone and raised commit of `Orchestrator`; then `FolderSpec`
with `GitBookkeeping` shown to refine it, which showed that `Orchestrator`
missed the loss of a `.git.bak` to the enclosing repository's `git clean`
(now `cleaned`); and the refinement of `ScheduleSpec` checked on both hosts.

Next:

1. **Two-level refinement of the orchestrator.** An abstract `BuildSpec`
   (retrieve then build each target in dependency order, or fail), with
   `Orchestrator` shown to implement it on runs without a kill.
2. **`BuildInvoker` as the refinement of `Orchestrator`'s `BuildLib`**: the
   per-command build shown to implement the one-step library outcome.
3. **`GitBookkeeping` over two library folders**, so that a lock on one
   folder's `.git` and a kill while parking the other meet in one commit.
