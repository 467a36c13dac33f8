CONSTANTS
    SizeBits <- MCSizeBits
    MaxCompressed <- MCMaxCompressed
    MaxDecompressed <- MCMaxDecompressed
    Methods <- MCMethods
    MaxFaults <- MCMaxFaults
    Blocks <- MCOversizeBlocks
SPECIFICATION Spec
INVARIANT NoPanic
CHECK_DEADLOCK FALSE
