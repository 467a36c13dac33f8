----------------------------- MODULE MC_Varint -----------------------------
EXTENDS Varint

\* A 7-bit value type in 2-bit groups: four bytes hold every value, and
\* the fourth byte's top payload bit falls outside the type, as bit 64 of
\* the tenth byte does in the code.
MCGroup == 2
MCWidth == 7
MCMaxLen == 4

\* Every batch of up to two values.
MCBatches == UNION {[1..m -> 0..127] : m \in 0..2}
\* Every byte string of one to four bytes.
MCReceived == UNION {[1..m -> 0..7] : m \in 1..4}

=============================================================================
