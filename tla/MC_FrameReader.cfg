CONSTANTS
    Wires <- MCWires
    MaxRead <- MCMaxRead
SPECIFICATION Spec
INVARIANTS
    TypeOK
    StreamIntegrity
    ErrorAfterDrain
PROPERTIES
    Terminates
    StreamSpec
\* A frame with compressed_size < 9 panics the task: nothing runs after it.
CHECK_DEADLOCK FALSE
