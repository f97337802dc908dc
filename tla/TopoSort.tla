------------------------------ MODULE TopoSort ------------------------------
(***************************************************************************)
(* topological_sort of scripts/builddeps.py: the dependency graph builder  *)
(* and Kahn's algorithm over the platform-filtered registry.               *)
(*                                                                         *)
(* One step per part of the function: the sanity check of the filtered    *)
(* names, the construction of graph / in_degree / the zero-in-degree       *)
(* queue, one iteration of the while loop, and the final length check     *)
(* that either returns the order or raises ValueError.                     *)
(***************************************************************************)
EXTENDS DepGraph, Integers, FiniteSets

CONSTANT Registries    \* the repo_info tables the function may be given

VARIABLES
    reg,          \* repo_info
    phase,        \* "start", "sorting", or how the function ended:
                  \* "invalid" (returned [] after the sanity check),
                  \* "cycle" (raised ValueError) or "done" (returned order)
    repos,        \* repositories: the filtered Libs members, registry order
    inDegree,     \* in_degree
    graph,        \* graph: dependency -> dependents, in registry order
    queue,        \* zero_in_degree_queue
    topoOrder     \* topo_order

sortVars == <<reg, phase, repos, inDegree, graph, queue, topoOrder>>

SortDone == {"invalid", "cycle", "done"}

\* The dependents of dep among the repositories, in the order the loop over
\* repositories appends them to graph[dep].
Dependents(rs, dep) == SelectSeq(rs, LAMBDA r : dep \in GetDependencies(reg, r, Host))

SortInit ==
    /\ reg \in Registries
    /\ phase = "start"
    /\ repos = <<>>
    /\ inDegree = [r \in {} |-> 0]
    /\ graph = [d \in {} |-> <<>>]
    /\ queue = <<>>
    /\ topoOrder = <<>>

\* Sanity check: some filtered name is no Libs value; prints an error and
\* returns the empty order.
SanityCheckFails ==
    LET names == GetRepositories(reg, Host)
        rs    == GetElementByValues(names)
    IN  /\ phase = "start"
        /\ Len(rs) # Len(names)
        /\ phase' = "invalid"
        /\ topoOrder' = <<>>
        /\ UNCHANGED <<reg, repos, inDegree, graph, queue>>

\* Mutant: in_degree counts every listed dependency name, unknown ones too.
BuildGraphCountsUnknown ==
    LET names == GetRepositories(reg, Host)
        rs    == GetElementByValues(names)
        deg   == [r \in SeqRange(rs) |->
                    Cardinality(IF Host = "Windows" THEN reg.windeps[r] ELSE reg.deps[r])]
    IN  /\ phase = "start"
        /\ Len(rs) = Len(names)
        /\ repos' = rs
        /\ inDegree' = deg
        /\ graph' = [d \in LibValues |-> Dependents(rs, d)]
        /\ queue' = SelectSeq(rs, LAMBDA r : deg[r] = 0)
        /\ phase' = "sorting"
        /\ UNCHANGED <<reg, topoOrder>>

\* Build graph and in_degree from the dependencies of every repository and
\* seed the queue with the zero-in-degree ones in registry order.  A
\* dependency that is a Libs value but not a filtered repository still
\* becomes an edge and still counts in in_degree.
BuildGraph ==
    LET names == GetRepositories(reg, Host)
        rs    == GetElementByValues(names)
        deg   == [r \in SeqRange(rs) |-> Cardinality(GetDependencies(reg, r, Host))]
    IN  /\ phase = "start"
        /\ Len(rs) = Len(names)
        /\ repos' = rs
        /\ inDegree' = deg
        /\ graph' = [d \in LibValues |-> Dependents(rs, d)]
        /\ queue' = SelectSeq(rs, LAMBDA r : deg[r] = 0)
        /\ phase' = "sorting"
        /\ UNCHANGED <<reg, topoOrder>>

\* One iteration of the while loop: pop the head, append it to the order,
\* decrement the in-degree of each of its dependents and enqueue, in graph
\* order, those that reach zero.
Visit ==
    LET cur == Head(queue)
        nbs == graph[cur]
    IN  /\ phase = "sorting"
        /\ queue # <<>>
        /\ topoOrder' = Append(topoOrder, cur)
        /\ inDegree' = [r \in DOMAIN inDegree |->
                          IF r \in SeqRange(nbs) THEN inDegree[r] - 1 ELSE inDegree[r]]
        /\ queue' = Tail(queue) \o SelectSeq(nbs, LAMBDA n : inDegree[n] = 1)
        /\ UNCHANGED <<reg, phase, repos, graph>>

\* The queue is empty and some repository was never ordered: ValueError.
RaiseCycle ==
    /\ phase = "sorting"
    /\ queue = <<>>
    /\ Len(topoOrder) # Len(repos)
    /\ phase' = "cycle"
    /\ UNCHANGED <<reg, repos, inDegree, graph, queue, topoOrder>>

\* Mutant: the length check is dropped and the order returned as it is.
ReturnOrderUnchecked ==
    /\ phase = "sorting"
    /\ queue = <<>>
    /\ phase' = "done"
    /\ UNCHANGED <<reg, repos, inDegree, graph, queue, topoOrder>>

\* The queue is empty and every repository is ordered: return topo_order.
ReturnOrder ==
    /\ phase = "sorting"
    /\ queue = <<>>
    /\ Len(topoOrder) = Len(repos)
    /\ phase' = "done"
    /\ UNCHANGED <<reg, repos, inDegree, graph, queue, topoOrder>>

SortNext ==
    \/ SanityCheckFails
    \/ BuildGraph
    \/ Visit
    \/ RaiseCycle
    \/ ReturnOrder

SortSpec == SortInit /\ [][SortNext]_sortVars /\ WF_sortVars(SortNext)

-----------------------------------------------------------------------------
(* Refinement: the result topological_sort hands back, once it has one.   *)

SortResult == CASE phase = "done"    -> [status |-> "order", order |-> topoOrder]
                [] phase = "invalid" -> [status |-> "invalid", order |-> <<>>]
                [] phase = "cycle"   -> [status |-> "cycle", order |-> <<>>]
                [] OTHER             -> [status |-> "pending", order |-> <<>>]

Abstract == INSTANCE ScheduleSpec WITH result <- SortResult

-----------------------------------------------------------------------------
(* Properties                                                              *)

TypeOK ==
    /\ reg \in Registries
    /\ phase \in {"start", "sorting"} \cup SortDone
    /\ repos \in Seq(LibValues)
    /\ inDegree \in [SeqRange(repos) -> Int]
    /\ queue \in Seq(LibValues)
    /\ topoOrder \in Seq(LibValues)

\* The spec (4.2): a dependency outside the filtered set is no edge, so
\* topological_sort raises ValueError only when the filtered graph has a
\* cycle, whatever the filtered libraries list as dependencies.
SpecSortOutcome ==
    LET nodes == SeqRange(repos) IN
    phase \in {"cycle", "done"} =>
        /\ (phase = "done") <=> IsDagOf(reg, nodes)
        /\ phase = "done" => IsTopoOrderOf(reg, topoOrder, nodes)

=============================================================================
