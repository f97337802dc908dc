--------------------------- MODULE MCOrchestrator ---------------------------
(***************************************************************************)
(* The orchestrator on a three-library registry small enough for several *)
(* invocations:                                                            *)
(* curl depends on ssl but comes first in the Libs enum, so --get-all     *)
(* walks the libraries against the dependency order; py is a              *)
(* Windows-only archive that only --get-all retrieves on Unix.  A second *)
(* version of the table lets ssl also list curl, a cycle that makes      *)
(* topological_sort raise, and a third lets py apply on every host, so   *)
(* the build reaches build_python.  A fourth version has a key that is   *)
(* no Libs value, which makes topological_sort return an empty order.    *)
(***************************************************************************)
EXTENDS Orchestrator

SmallLibEnum == <<"curl", "ssl", "py">>

SmallInfo ==
    [order   |-> <<"ssl", "curl", "py">>,
     plat    |-> [ssl |-> "all", curl |-> "unix", py |-> "windows"],
     deps    |-> [ssl |-> {}, curl |-> {"ssl"}, py |-> {}],
     windeps |-> [ssl |-> {}, curl |-> {}, py |-> {}],
     source  |-> [ssl |-> "git", curl |-> "git", py |-> "compressed"]]

SmallCyclicInfo == [SmallInfo EXCEPT !.deps.ssl = {"curl"}]

\* py also applied on Unix: build_all_sources reaches build_python, which
\* returns at once.
SmallAllPlatformsInfo == [SmallInfo EXCEPT !.plat.py = "all"]

SmallRegistries == {SmallInfo, SmallCyclicInfo, SmallAllPlatformsInfo}

\* The table with one more entry, x, that is no member of the Libs enum.
SmallInvalidInfo ==
    [order   |-> <<"ssl", "curl", "x", "py">>,
     plat    |-> [ssl |-> "all", curl |-> "unix", x |-> "all", py |-> "windows"],
     deps    |-> [ssl |-> {}, curl |-> {"ssl"}, x |-> {}, py |-> {}],
     windeps |-> [ssl |-> {}, curl |-> {}, x |-> {}, py |-> {}],
     source  |-> [ssl |-> "git", curl |-> "git", x |-> "git", py |-> "compressed"]]

SmallInvalidRegistries == {SmallInvalidInfo}

SmallBuildFunctions == {"ssl", "curl", "py"}

SmallNoOpBuilds == {"py"}

=============================================================================
