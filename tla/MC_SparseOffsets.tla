--------------------------- MODULE MC_SparseOffsets ---------------------------
(* Model-checking instance of SparseOffsets: every stream of up to         *)
(* MCMaxVarints group sizes with runs up to MCMaxRun, so that streams hold *)
(* one or several granules, granules with and without values, values at   *)
(* the first and the last row, and truncated streams.                      *)
EXTENDS SparseOffsets

MCMaxRun == 2
MCMaxVarints == 4

MCWires ==
    UNION {[1..m -> [run : 0..MCMaxRun, eog : BOOLEAN]] : m \in 1..MCMaxVarints}

MCMaxRows == 4
=============================================================================
