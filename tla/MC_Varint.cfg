CONSTANTS
    Group <- MCGroup
    Width <- MCWidth
    MaxLen <- MCMaxLen
    Batches <- MCBatches
    Received <- MCReceived
SPECIFICATION Spec
INVARIANTS
    TypeOK
    RoundTrip
\* The consumer stops for good at the first None (the end of the output).
CHECK_DEADLOCK FALSE
