\* SuccessMeansComplete on the three-library registry with an unknown key, Linux, one invocation.
CONSTANTS
    LibEnum <- SmallLibEnum
    Host = "Linux"
    Registries <- SmallInvalidRegistries
    BuildFunctions <- SmallBuildFunctions
    NoOpBuilds <- SmallNoOpBuilds
    MaxRuns = 1
INIT Init
NEXT Next
INVARIANT SuccessMeansComplete
CHECK_DEADLOCK FALSE
