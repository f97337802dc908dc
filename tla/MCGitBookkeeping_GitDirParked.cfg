\* A .git that rename_dir fails to park is staged by git add.
CONSTANTS
    Parts <- MCParts
    MaxDepth = 3
    MaxRuns = 3
SPECIFICATION Spec
INVARIANT GitDirParkedBeforeAdd
CHECK_DEADLOCK FALSE
