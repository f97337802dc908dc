------------------------------ MODULE DepGraph ------------------------------
(***************************************************************************)
(* The dependency graph as the spec describes it (section 4.2), used as   *)
(* the reference the scheduler is checked against: the filtered libraries *)
(* are the nodes, and d -> r is an edge when r lists d and d is filtered. *)
(***************************************************************************)
EXTENDS PlatformFilter, FiniteSets

CONSTANT Host     \* platform.system()

ASSUME Host \in Hosts

LOCAL Gr == INSTANCE Graphs

SeqRange(s) == {s[i] : i \in 1..Len(s)}

\* Spec 4.1: "all" applies everywhere, "unix" to Linux and macOS, a
\* constraint naming one family only to that family.
SpecIncluded(p, host) ==
    \/ p = "all"
    \/ p = "unix" /\ host \in {"Linux", "Darwin"}
    \/ p = "linux" /\ host = "Linux"
    \/ p = "macos" /\ host = "Darwin"
    \/ p = "windows" /\ host = "Windows"

\* Spec 4.1 filteredLibraries: the known libraries that apply to Host.
FilteredLibs(reg) ==
    {k \in SeqRange(reg.order) \cap LibValues : SpecIncluded(reg.plat[k], Host)}

\* Spec 4.1 dependenciesFor: windowsDependencies on Windows, dependencies
\* elsewhere; a name that is no known library is no dependency.
SpecDeps(reg, r) ==
    (IF Host = "Windows" THEN reg.windeps[r] ELSE reg.deps[r]) \cap LibValues

SpecGraph(reg, nodes) ==
    [node |-> nodes,
     edge |-> {<<d, r>> \in nodes \X nodes : d \in SpecDeps(reg, r)}]

IsDagOf(reg, nodes) == Gr!IsDag(SpecGraph(reg, nodes))

\* s lists every node once and puts each dependency before its dependents.
IsTopoOrderOf(reg, s, nodes) ==
    /\ Len(s) = Cardinality(nodes)
    /\ SeqRange(s) = nodes
    /\ \A i, j \in 1..Len(s) : <<s[j], s[i]>> \in SpecGraph(reg, nodes).edge => j < i

\* Every Libs dependency of a node is itself a node.
DepsClosed(reg, nodes) == \A r \in nodes : SpecDeps(reg, r) \subseteq nodes

\* Every key of the registry is a Libs value.
KeysValid(reg) == SeqRange(reg.order) \subseteq LibValues

=============================================================================
