CONSTANTS
    Columns <- MCColumns
    Paths <- MCPaths
    MaxCols <- MCMaxCols
SPECIFICATION Spec
INVARIANTS
    TypeOK
    PathsAgree
    MaskCorrect
\* A block is written once its columns are: the writer then stops.
CHECK_DEADLOCK FALSE
