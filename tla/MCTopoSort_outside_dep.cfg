\* The spec's outcome rule with a dependency on a platform-excluded library.
CONSTANTS
    LibEnum <- MCLibEnum
    Host = "Linux"
    Registries <- MCRegistries
INIT SortInit
NEXT SortNext
INVARIANT SpecSortOutcome
CHECK_DEADLOCK FALSE
