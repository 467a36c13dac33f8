CONSTANTS
    Wires <- MCWires
    MaxRead <- MCMaxRead
SPECIFICATION CancelSpec
INVARIANT CancelAtBoundary
CHECK_DEADLOCK FALSE
