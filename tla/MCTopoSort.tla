----------------------------- MODULE MCTopoSort -----------------------------
(***************************************************************************)
(* topological_sort on one host, over the registries of TopoRegistries.   *)
(***************************************************************************)
EXTENDS TopoSort, TopoRegistries

MCRegistries == RegistriesFor(Host)

=============================================================================
