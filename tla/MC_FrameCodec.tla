---------------------------- MODULE MC_FrameCodec ----------------------------
EXTENDS FrameCodec

\* u32 scaled to 5 bits, with the limits below it as in the code
\* (100_000_000 < 1_000_000_000 < 2^32): a frame of up to 4 payload bytes
\* fits compressed_size, one more byte does not.
MCSizeBits == 5
MCMaxCompressed == 13
MCMaxDecompressed == 20

\* One or two blocks of 0, 2 or 3 bytes: every frame fits the limits.
MCBlocks == UNION {[1..m -> {0, 2, 3}] : m \in 1..2}

\* After a block that fits: one over the decompressed_size limit, and one
\* whose sizes the u32 casts cut (46 % 32 = 14; half-compressed, its
\* compressed_size 24 + 9 wraps to 1).
MCOversizeBlocks == {<<2, 21>>, <<2, 46>>}

MCAllBlocks == MCBlocks \cup MCOversizeBlocks

MCMethods == {"LZ4", "ZSTD", "NONE"}
MCMaxFaults == 1
=============================================================================
