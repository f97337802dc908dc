\* GitStaysInLibrary on the three-library registry, Linux, three invocations.
CONSTANTS
    LibEnum <- SmallLibEnum
    Host = "Linux"
    Registries <- SmallRegistries
    BuildFunctions <- SmallBuildFunctions
    NoOpBuilds <- SmallNoOpBuilds
    MaxRuns = 3
INIT Init
NEXT Next
INVARIANT GitStaysInLibrary
CHECK_DEADLOCK FALSE
