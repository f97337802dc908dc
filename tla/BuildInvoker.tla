---------------------------- MODULE BuildInvoker ----------------------------
(***************************************************************************)
(* The build half of scripts/builddeps.py: build_all_sources walking the   *)
(* sorted order, each build_<name> formatting its command templates       *)
(* (BuildTemplates) and build_dep running them one by one, split with     *)
(* shlex and without a shell, in the library's source directory.          *)
(*                                                                         *)
(* The host (platform.system()) is chosen at the start, so one model     *)
(* covers the Linux, macOS and Windows templates.  The sort is composed   *)
(* step by step from TopoSort on that host.  The state of the            *)
(* file system is the set of paths, relative to parent_src_dir, that the  *)
(* commands created and did not remove, starting from the build           *)
(* directories an earlier invocation may have left.  Each command        *)
(* may succeed, fail with a non-zero exit after doing part of its work   *)
(* (CalledProcessError, caught by build_dep), or fail to start (an       *)
(* OSError that nothing catches).                                         *)
(***************************************************************************)
EXTENDS PlatformFilter, BuildTemplates, HostDetection, Integers, FiniteSets

CONSTANTS
    Registries,       \* {repo_info}
    BuildFunctions,   \* libraries with a build_<name> function
    NoOpBuilds,       \* build functions that run no command
    SharedInstalls    \* libraries whose "make install" also installs a
                      \* shared library next to the static one

LOCAL SX == INSTANCE SequencesExt

VARIABLES
    host,         \* platform.system()
    machine,      \* platform.machine()
    reg, phase, repos, inDegree, graph, queue, topoOrder,  \* topological_sort
    bpc,          \* "import" (detect_openssl_platform), "sort", "build" (build_all_sources) or "exit"
    status,       \* "running", "ok", "error" (exit 1) or "raised"
    li,           \* position of build_all_sources in the sorted order
    ci,           \* position of build_dep in the library's commands
    fs            \* paths the commands created and did not remove

sortVars == <<reg, phase, repos, inDegree, graph, queue, topoOrder>>
invVars  == <<bpc, status, li, ci, fs>>
vars     == <<host, machine, sortVars, invVars>>

TS(h) == INSTANCE TopoSort WITH Host <- h

CurLib == topoOrder[li]

\* build_all_sources: src_dir = parent_src_dir/<l>; build_krb5 moves to
\* its src/ subdirectory before calling build_dep.
RepoDir(l) == IF l = "krb5" THEN <<"krb5", "src">> ELSE <<l>>

\* get_repo_build_commands(l, **kwargs) of build_<l>, then the argument
\* paths of the command build_dep is at.
Commands(l) == GetBuildCommands(host)[l]
CurCmd == FormatCommand(Commands(CurLib)[ci], KwArgs(CurLib, host), RepoDir(CurLib))

\* What "make install" puts under install_dir/lib.
StaticLib(l) == InstallDir(l, host) \o <<"lib", "lib.a">>
SharedLib(l) == InstallDir(l, host) \o <<"lib", IF host = "Darwin" THEN "lib.dylib" ELSE "lib.so">>
Installed(l) ==
    {StaticLib(l)} \cup (IF l \in SharedInstalls /\ host # "Windows" THEN {SharedLib(l)} ELSE {})

\* What a command does to the paths it names, run without a shell: rm -rf
\* (and rmdir /s /q) removes exactly the paths named, a pattern included
\* as a literal name; mkdir -p and ln -sf create them; cmake -B creates
\* the build directory.
Effect(c, l) ==
    CASE c.prog \in {"mkdir", "ln"} -> fs \cup c.args
      [] c.prog = "rm"      -> {p \in fs : ~\E a \in c.args : SX!IsPrefix(a, p)}
      [] c.prog = "cmake"   -> fs \cup {BuildDir(l)}
      [] c.prog = "install" -> fs \cup Installed(l)
      [] OTHER              -> fs

\* The build directories an earlier invocation, killed or failed between
\* cmake -B and the final rm -rf, may have left behind.
StaleBuildDirs ==
    LET t == GetBuildCommands(host)
    IN  {BuildDir(l) : l \in {m \in DOMAIN t : \E i \in 1..Len(t[m]) : t[m][i].prog = "cmake"}}

Init ==
    /\ host \in Hosts
    /\ machine \in Machines(host)
    /\ \E h \in {host} : TS(h)!SortInit
    /\ bpc = "import"
    /\ status = "running"
    /\ li = 1
    /\ ci = 1
    /\ fs \in SUBSET StaleBuildDirs

\* The module-level openssl_platform = detect_openssl_platform() succeeds
\* and main is entered.
Import ==
    /\ bpc = "import"
    /\ DetectOpensslPlatform(host, machine) # Unsupported
    /\ bpc' = "sort"
    /\ UNCHANGED <<host, machine, sortVars, status, li, ci, fs>>

\* It raises UnsupportedPlatformError: the import fails with a traceback
\* and nothing is run.
ImportRaises ==
    /\ bpc = "import"
    /\ DetectOpensslPlatform(host, machine) = Unsupported
    /\ bpc' = "exit"
    /\ status' = "raised"
    /\ UNCHANGED <<host, machine, sortVars, li, ci, fs>>

\* One step of topological_sort(repo_info).
Sort ==
    /\ bpc = "sort"
    /\ \E h \in {host} : TS(h)!SortNext
    /\ UNCHANGED <<host, machine, invVars>>

\* build_all_sources(sorted_repos), after the sources are in place.  A
\* cycle makes main raise before any build (Orchestrator's SortRaised).
StartBuild ==
    /\ bpc = "sort"
    /\ phase \in {"invalid", "done"}
    /\ bpc' = "build"
    /\ UNCHANGED <<host, machine, sortVars, status, li, ci, fs>>

\* No build_<l> ("No build function found"), or build_python, which
\* returns 0 at once.
SkipLib ==
    /\ bpc = "build"
    /\ li <= Len(topoOrder)
    /\ CurLib \notin BuildFunctions \ NoOpBuilds
    /\ li' = li + 1
    /\ UNCHANGED <<host, machine, sortVars, bpc, status, ci, fs>>

AtCommand ==
    /\ bpc = "build"
    /\ li <= Len(topoOrder)
    /\ CurLib \in BuildFunctions \ NoOpBuilds
    /\ ci <= Len(Commands(CurLib))

\* subprocess.run(command, cwd=repo_dir, check=True) exits 0.
RunCommand ==
    /\ AtCommand
    /\ fs' = Effect(CurCmd, CurLib)
    /\ ci' = ci + 1
    /\ UNCHANGED <<host, machine, sortVars, bpc, status, li>>

\* Mutant: build_all_sources ignores the 1 that build_dep returns.
CommandFailsContinues ==
    /\ AtCommand
    /\ fs' \in {fs, Effect(CurCmd, CurLib)}
    /\ li' = li + 1
    /\ ci' = 1
    /\ UNCHANGED <<host, machine, sortVars, bpc, status>>

\* The command exits non-zero, having done none or all of its work:
\* build_dep returns 1 and build_all_sources returns at once.
CommandFails ==
    /\ AtCommand
    /\ fs' \in {fs, Effect(CurCmd, CurLib)}
    /\ bpc' = "exit"
    /\ status' = "error"
    /\ UNCHANGED <<host, machine, sortVars, li, ci>>

\* The program cannot be started: subprocess.run raises an OSError that
\* build_dep, get_and_build_all and main let through.
CommandRaises ==
    /\ AtCommand
    /\ bpc' = "exit"
    /\ status' = "raised"
    /\ UNCHANGED <<host, machine, sortVars, li, ci, fs>>

\* Mutant: build_all_sources steps past the next repository.
LibDoneSkipsNext ==
    /\ bpc = "build"
    /\ li <= Len(topoOrder)
    /\ CurLib \in BuildFunctions \ NoOpBuilds
    /\ ci > Len(Commands(CurLib))
    /\ li' = li + 2
    /\ ci' = 1
    /\ UNCHANGED <<host, machine, sortVars, bpc, status, fs>>

\* build_dep returns 0 after the last command.
LibDone ==
    /\ bpc = "build"
    /\ li <= Len(topoOrder)
    /\ CurLib \in BuildFunctions \ NoOpBuilds
    /\ ci > Len(Commands(CurLib))
    /\ li' = li + 1
    /\ ci' = 1
    /\ UNCHANGED <<host, machine, sortVars, bpc, status, fs>>

\* build_all_sources returns ("", 0, "").
BuildDone ==
    /\ bpc = "build"
    /\ li > Len(topoOrder)
    /\ bpc' = "exit"
    /\ status' = "ok"
    /\ UNCHANGED <<host, machine, sortVars, li, ci, fs>>

Next ==
    \/ Import \/ ImportRaises
    \/ Sort \/ StartBuild
    \/ SkipLib \/ RunCommand \/ CommandFails \/ CommandRaises \/ LibDone
    \/ BuildDone

Spec == Init /\ [][Next]_vars

-----------------------------------------------------------------------------
(* Properties                                                              *)

TypeOK ==
    /\ host \in Hosts
    /\ \E h \in {host} : TS(h)!TypeOK
    /\ machine \in Machines(host)
    /\ bpc \in {"import", "sort", "build", "exit"}
    /\ status \in {"running", "ok", "error", "raised"}
    /\ li \in 1..Len(topoOrder) + 1
    /\ \/ ci = 1
       \/ /\ li <= Len(topoOrder)
          /\ CurLib \in BuildFunctions \ NoOpBuilds
          /\ ci \in 2..Len(Commands(CurLib)) + 1
    /\ \A p \in fs : p \in Seq(STRING)

\* The sibling libraries a command names by install_dir_parent/<x>.
SiblingRefs(c, l) == {p[2] : p \in {q \in c.args : Len(q) >= 2 /\ q[1] = "install"}} \ {l}

\* Every sibling install tree a build command names (the include and lib
\* paths build_curl and build_awssdkcpp, build_nghttp2 pass through
\* install_dir_parent) already holds the static library that this
\* invocation's build of that sibling installed: the templates' paths,
\* repo_info's dependency lists, the sort and build_all_sources' early
\* return on failure must all agree for this to hold.
SiblingsInstalledFirst ==
    AtCommand => \A x \in SiblingRefs(CurCmd, CurLib) \cap LibValues : StaticLib(x) \in fs

\* Every command build_dep runs was formatted: no build_<l> leaves out a
\* keyword its templates use, so format_command never falls back to the
\* unformatted text.
NoFormatFallback == AtCommand => CurCmd.formatted

\* build_curl on macOS calls get_host_argument, outside any try, for
\* curl's --host: on every host where detect_openssl_platform let the
\* import succeed, the two tables agree and it names a target.
HostArgumentDefined ==
    (bpc = "build" /\ li <= Len(topoOrder) /\ CurLib = "curl" /\ host = "Darwin")
        => GetHostArgument(host, machine) # Unsupported

\* The files a shell expands rm's pattern to: *.so and *.dylib select the
\* shared libraries of a directory.
GlobFiles == [g \in {"*.so", "*.dylib"} |-> IF g = "*.so" THEN {"lib.so"} ELSE {"lib.dylib"}]
GlobMatches(a, p) ==
    /\ Len(a) = Len(p)
    /\ \A i \in 1..Len(p) : a[i] = p[i] \/ (a[i] \in DOMAIN GlobFiles /\ p[i] \in GlobFiles[a[i]])

\* After an rm -rf of install_dir/lib/*.so or *.dylib exits 0, no file its
\* pattern names is left: the shared libraries the templates mean to drop
\* are gone.
RemovalsTakeEffect ==
    [][ (AtCommand /\ CurCmd.prog = "rm" /\ ci' = ci + 1)
          => \A p \in fs', a \in CurCmd.args : ~GlobMatches(a, p) ]_vars

=============================================================================
