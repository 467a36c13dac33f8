CONSTANTS
    Wires <- MCWires
    MaxRows <- MCMaxRows
SPECIFICATION Spec
INVARIANT CarryFaithful
CHECK_DEADLOCK FALSE
