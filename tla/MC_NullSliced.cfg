CONSTANTS
    Columns <- MCSlicedColumns
    Paths <- MCPaths
    MaxCols <- MCMaxCols
SPECIFICATION Spec
INVARIANT MaskCorrect
CHECK_DEADLOCK FALSE
