CONSTANTS
    SizeBits <- MCSizeBits
    MaxCompressed <- MCMaxCompressed
    MaxDecompressed <- MCMaxDecompressed
    Methods <- MCMethods
    MaxFaults <- MCMaxFaults
    Blocks <- MCAllBlocks
SPECIFICATION Spec
INVARIANTS
    TypeOK
    NoCorruptAccept
    Delivered
\* The writer finishes and the reader stops at the end of the stream.
CHECK_DEADLOCK FALSE
