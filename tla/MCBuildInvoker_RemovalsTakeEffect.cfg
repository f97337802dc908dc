\* RemovalsTakeEffect: expected to be violated.
CONSTANTS
    LibEnum <- RepoLibEnum
    Registries <- MCRegistries
    BuildFunctions <- RepoBuildFunctions
    NoOpBuilds <- RepoNoOpBuilds
    SharedInstalls <- MCSharedInstalls
INIT Init
NEXT Next
PROPERTY RemovalsTakeEffect
CHECK_DEADLOCK FALSE
