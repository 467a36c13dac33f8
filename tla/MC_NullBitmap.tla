--------------------------- MODULE MC_NullBitmap ---------------------------
EXTENDS NullBitmap

\* Lengths: none, a part byte, a whole byte, one 32-value chunk and a
\* remainder, two chunks and a remainder.
MCLens == {0, 5, 8, 37, 69}

\* Arrays built whole: their null buffer starts at bit 0.
MCColumns == [id : {"c"}, kind : {"plain", "array"}, nullable : BOOLEAN,
              len : MCLens, offset : {0}]

\* The same arrays, and slices of them starting at row 3.
MCSlicedColumns == [id : {"c"}, kind : {"plain"}, nullable : {TRUE},
                    len : {5, 37}, offset : {0, 3}]

MCPaths == {"scalar", "avx2", "neon"}

MCMaxCols == 2

=============================================================================
