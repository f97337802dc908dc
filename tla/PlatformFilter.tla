--------------------------- MODULE PlatformFilter ---------------------------
(***************************************************************************)
(* Platform filter of scripts/builddeps.py: which registry entries apply   *)
(* to the host (get_repositories), how library names become Libs members   *)
(* (Libs.get_element_by_values) and which dependency list governs a       *)
(* library on the host (get_dependencies).                                *)
(*                                                                         *)
(* A registry is a record                                                 *)
(*   order   : the keys of repo_info in declaration (dict) order           *)
(*   plat    : key -> value of its "platform" field ("all" when absent)    *)
(*   deps    : key -> set of names in "dependencies" ({} when absent)      *)
(*   windeps : key -> set of names in "win_dependencies" ({} when absent)  *)
(* Dependency lists are sets: get_dependencies only counts them and the    *)
(* order of a list never reaches the scheduler's result.                   *)
(***************************************************************************)
EXTENDS Integers, Sequences

CONSTANT LibEnum      \* values of the Libs enum, in declaration order

ASSUME LibEnum \in Seq(STRING)

\* platform.system() of the hosts the script starts on: any other system
\* makes detect_openssl_platform, run at import time, raise.
Hosts == {"Linux", "Darwin", "Windows"}

\* The set of values of the Libs enum.
LibValues == {LibEnum[i] : i \in 1..Len(LibEnum)}

\* platform.system().lower()
Lower(host) == CASE host = "Linux"   -> "linux"
                 [] host = "Darwin"  -> "darwin"
                 [] host = "Windows" -> "windows"

\* The inclusion test of get_repositories for one entry.
Included(repoPlatform, host) ==
    \/ repoPlatform = "all"
    \/ Lower(host) = "windows" /\ repoPlatform = "windows"
    \/ Lower(host) \in {"linux", "darwin"}
       /\ repoPlatform \in {"unix", "linux", "macos"}

\* get_repositories: the names of the entries that apply to host, in
\* registry order.
GetRepositories(reg, host) ==
    SelectSeq(reg.order, LAMBDA k : Included(reg.plat[k], host))

\* Mutant: every name is taken for a Libs member.
GetElementByValuesKeepsAll(values) == values

\* Libs.get_element_by_values: the Libs members whose value is listed, in
\* the order listed; an unknown name is dropped with a warning.
GetElementByValues(values) == SelectSeq(values, LAMBDA v : v \in LibValues)

\* get_dependencies: win_dependencies on Windows, dependencies elsewhere,
\* names that are no Libs value dropped.
GetDependencies(reg, lib, host) ==
    (IF host = "Windows" THEN reg.windeps[lib] ELSE reg.deps[lib]) \cap LibValues

=============================================================================
