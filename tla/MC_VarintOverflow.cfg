CONSTANTS
    Group <- MCGroup
    Width <- MCWidth
    MaxLen <- MCMaxLen
    Batches <- MCBatches
    Received <- MCReceived
SPECIFICATION PeerSpec
INVARIANT RejectsOverflow
CHECK_DEADLOCK FALSE
