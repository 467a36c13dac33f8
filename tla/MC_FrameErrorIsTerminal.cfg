CONSTANTS
    Wires <- MCWires
    MaxRead <- MCMaxRead
SPECIFICATION Spec
PROPERTY ErrorIsTerminal
CHECK_DEADLOCK FALSE
