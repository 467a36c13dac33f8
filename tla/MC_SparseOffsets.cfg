CONSTANTS
    Wires <- MCWires
    MaxRows <- MCMaxRows
SPECIFICATION Spec
INVARIANTS
    TypeOK
    StreamAligned
    OffsetsInWindow
    DecodeWholeGranule
\* A reader stops for good once read_var_uint fails at the end of its stream.
CHECK_DEADLOCK FALSE
