\* The build of the shipped registry on Linux, macOS and Windows.
CONSTANTS
    LibEnum <- RepoLibEnum
    Registries <- MCRegistries
    BuildFunctions <- RepoBuildFunctions
    NoOpBuilds <- RepoNoOpBuilds
    SharedInstalls <- MCSharedInstalls
INIT Init
NEXT Next
INVARIANTS
    TypeOK
    SiblingsInstalledFirst
    NoFormatFallback
    HostArgumentDefined
CHECK_DEADLOCK FALSE
