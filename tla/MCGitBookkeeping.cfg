\* git metadata of one library folder over three invocations.
CONSTANTS
    Parts <- MCParts
    MaxDepth = 3
    MaxRuns = 3
SPECIFICATION Spec
INVARIANTS
    CommonPartsCorrect
    GitAddsSourceDir
PROPERTIES
    InvocationEnds
    ImplementsFolder
CHECK_DEADLOCK FALSE
