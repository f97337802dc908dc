---------------------------- MODULE ScheduleSpec ----------------------------
(***************************************************************************)
(* What the scheduler promises (spec 4.2), stated without an algorithm:   *)
(* given the filtered registry it decides once, either on a build order    *)
(* that lists every filtered library once with each dependency first, or  *)
(* on "cycle" exactly when no such order exists.  A registry key that     *)
(* names no library is a configuration error found before any ordering   *)
(* (spec 4.2 and 5, Resolving): the decision is then "invalid".          *)
(***************************************************************************)
EXTENDS DepGraph

CONSTANT Registries

VARIABLES reg, result    \* [status: "pending", "invalid", "cycle" or "order",
                         \*  order: build order]

scheduleVars == <<reg, result>>

ScheduleInit ==
    /\ reg \in Registries
    /\ result = [status |-> "pending", order |-> <<>>]

Decide ==
    LET nodes == FilteredLibs(reg) IN
    /\ result.status = "pending"
    /\ IF ~KeysValid(reg)
         THEN result' = [status |-> "invalid", order |-> <<>>]
       ELSE IF IsDagOf(reg, nodes)
         THEN \E s \in [1..Cardinality(nodes) -> nodes] :
                 /\ IsTopoOrderOf(reg, s, nodes)
                 /\ result' = [status |-> "order", order |-> s]
         ELSE result' = [status |-> "cycle", order |-> <<>>]
    /\ UNCHANGED reg

ScheduleSpec == ScheduleInit /\ [][Decide]_scheduleVars /\ WF_scheduleVars(Decide)

=============================================================================
