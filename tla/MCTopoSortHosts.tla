------------------------- MODULE MCTopoSortHosts -------------------------
(***************************************************************************)
(* topological_sort on Linux and on Windows in one model: the host is     *)
(* chosen first, and the sort runs on that host over its registries of   *)
(* TopoRegistries (unix dependency lists on Linux, win_dependencies on    *)
(* Windows).  With weak fairness on the sort, it is also shown to refine *)
(* ScheduleSpec on either host.                                           *)
(***************************************************************************)
EXTENDS PlatformFilter, TopoRegistries

VARIABLES host, reg, phase, repos, inDegree, graph, queue, topoOrder

vars == <<host, reg, phase, repos, inDegree, graph, queue, topoOrder>>

TS(h) == INSTANCE TopoSort WITH Host <- h, Registries <- RegistriesFor(h)

\* The registries the scheduler's contract is about on host h: a key that
\* names no library, or dependencies inside the filtered set.
WellFormedFor(h) ==
    {r \in RegistriesFor(h) : ~TS(h)!KeysValid(r) \/ TS(h)!DepsClosed(r, TS(h)!FilteredLibs(r))}

TSW(h) == INSTANCE TopoSort WITH Host <- h, Registries <- WellFormedFor(h)

Init ==
    /\ host \in {"Linux", "Windows"}
    /\ \E h \in {host} : TS(h)!SortInit

Next ==
    /\ \E h \in {host} : TS(h)!SortNext
    /\ UNCHANGED host

\* topological_sort is a plain loop: once called, it runs to its end.
Spec == Init /\ [][Next]_vars /\ WF_vars(Next)

\* The variables of topological_sort have their types on either host.
HostsTypeOK == \E h \in {host} : TS(h)!TypeOK

\* The host and a well-formed registry of it were chosen.
Chosen(h) == host = h /\ reg \in WellFormedFor(h)

\* On either host and every well-formed registry, topological_sort
\* implements ScheduleSpec under SortResult (TopoSort's
\* refinement of ScheduleSpec, per host): it starts pending, each step
\* leaves the result alone or is a Decide of ScheduleSpec, so it decides
\* once, on invalid keys, a cycle, or a topological order of the filtered
\* libraries; and it eventually decides, which is what the weak fairness
\* of Decide asks while the result is pending (SortResult is pending
\* exactly before phase reaches an end; checked on every registry).
HostsRefineSchedule ==
    /\ \A h \in {"Linux", "Windows"} : Chosen(h) => TSW(h)!Abstract!ScheduleInit
    /\ [][\A h \in {"Linux", "Windows"} :
            Chosen(h) => [TSW(h)!Abstract!Decide]_<<reg, TSW(h)!SortResult>>]_vars
    /\ <>(phase \in {"invalid", "cycle", "done"})

=============================================================================
