\* ExtractHonoured on the three-library registry, Linux, one invocation.
CONSTANTS
    LibEnum <- SmallLibEnum
    Host = "Linux"
    Registries <- SmallRegistries
    BuildFunctions <- SmallBuildFunctions
    NoOpBuilds <- SmallNoOpBuilds
    MaxRuns = 1
INIT Init
NEXT Next
INVARIANT ExtractHonoured
CHECK_DEADLOCK FALSE
