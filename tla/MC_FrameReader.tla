--------------------------- MODULE MC_FrameReader ---------------------------
EXTENDS FrameReader

\* Frames with payloads of 0 to 2 bytes, every kind.
MCFrames == [kind : Kinds, len : 0..2]

\* Streams of one to three frames.
MCWires == UNION {[1..m -> MCFrames] : m \in 1..3}

MCMaxRead == 2

=============================================================================
