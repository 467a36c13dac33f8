--------------------------- MODULE MC_BufferPool ---------------------------
EXTENDS BufferPool, TLC

CONSTANTS t1, t2, b1, b2, b3

MCThreads == {t1, t2}
MCBuffers == {b1, b2, b3}

\* One request per tier kind: tier 0, tier 1 and the power-of-two tier.
MCRequests == {1000, 4000, 2000000}

\* A Vec under the 512-byte floor, and one in tier 0 smaller than a request.
MCFreshCaps == {256, 700}

\* Small enough that a full tier is met with three buffers.
MCMaxPoolSize == 2

\* 1024 may grow to 2048 (tier 1), 4096 to 8192 (tier 2).
MCMaxCap == 8192

MCSymmetry == Permutations(MCThreads) \cup Permutations(MCBuffers)

=============================================================================
