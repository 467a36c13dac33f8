CONSTANTS
    t1 = t1
    t2 = t2
    b1 = b1
    b2 = b2
    b3 = b3
    NoBuf = NoBuf
    Threads <- MCThreads
    Buffers <- MCBuffers
    Requests <- MCRequests
    FreshCaps <- MCFreshCaps
    MaxPoolSize <- MCMaxPoolSize
    MaxCap <- MCMaxCap
SYMMETRY MCSymmetry
SPECIFICATION Spec
INVARIANTS
    TypeOK
    
    TierFit
    GetSatisfies
