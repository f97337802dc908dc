\* Three invocations of builddeps.py on Linux, three-library registry.
CONSTANTS
    LibEnum <- SmallLibEnum
    Host = "Linux"
    Registries <- SmallRegistries
    BuildFunctions <- SmallBuildFunctions
    NoOpBuilds <- SmallNoOpBuilds
    MaxRuns = 3
INIT Init
NEXT Next
INVARIANTS
    TypeOK
    SuccessMeansComplete
PROPERTIES
    BuildAfterDeps
    BuildFromFreshSources
CHECK_DEADLOCK FALSE
