------------------------------ MODULE NullBitmap ------------------------------
(***************************************************************************)
(* The null mask writer of src/clickhouse-arrow/src/arrow/serialize/null.rs *)
(* and the bitmap expansion of src/clickhouse-arrow/src/simd.rs.            *)
(*                                                                         *)
(* Bits are symbolic: bit k of the validity buffer of column c is the atom *)
(* <<c, k>>, and an output byte u8::from((byte & mask) == 0) computed from *)
(* it is <<"null", <<c, k>>>>.  Every output byte of the code depends on   *)
(* exactly one input bit through this same inversion, so one symbolic run  *)
(* checks the index arithmetic of every path for every bit pattern.  A     *)
(* byte is a function from bit number 0..7 to its bits, a bitmap or an     *)
(* output slice a function from index to byte.                            *)
(*                                                                         *)
(* NullBuffer::validity() of arrow-rs returns the packed bytes of the      *)
(* buffer from its start, not counting the buffer's bit offset (the offset *)
(* of a sliced array is NullBuffer::offset()).                             *)
(***************************************************************************)
EXTENDS Naturals, Sequences

CONSTANTS
    Columns,   \* the columns a caller may serialize
    Paths,     \* the expansions the build may select
    MaxCols    \* the most columns written in one run

Column == [id : STRING, kind : {"plain", "array", "map"}, nullable : BOOLEAN,
           len : Nat, offset : Nat]

ASSUME ColumnsAssumption == Columns \subseteq Column
ASSUME PathsAssumption == Paths \subseteq {"scalar", "avx2", "neon"}
ASSUME MaxColsAssumption == MaxCols \in Nat

\* u8::from((byte & (1 << j)) == 0) for the bit x.
Inv(x) == <<"null", x>>

\* The bytes NullBuffer::validity() returns for column c.
Validity(c) ==
    [b \in 0..((c.offset + c.len + 7) \div 8) |-> [j \in 0..7 |-> <<c.id, 8 * b + j>>]]

\* The byte 0 (valid).
Zero == <<"zero">>

\* null_mask.resize(len, 0)
Zeros(n) == [i \in 0..(n - 1) |-> Zero]

\* expand_null_bitmap_scalar(&bitmap[bo..], &mut output[oo..], len): the
\* loop over full bytes, then the remainder bits of the next byte.
ExpandScalar(bm, bo, out, oo, len) ==
    LET full == len \div 8
    IN  [i \in DOMAIN out |->
           IF i - oo \in 0..(full * 8 - 1)
           THEN Inv(bm[bo + (i - oo) \div 8][(i - oo) % 8])
           ELSE IF i - oo \in (full * 8)..(len - 1)
           THEN Inv(bm[bo + full][i - oo - full * 8])
           ELSE out[i]]

\* Mutant: the bits of a byte are laid out in the wrong order.
ExpandByteTo8Reversed(byte, out, off) ==
    [i \in DOMAIN out |-> IF i - off \in 0..7 THEN Inv(byte[7 - (i - off)]) ELSE out[i]]

\* Mutant: the bit is copied rather than inverted.
ExpandByteTo8Raw(byte, out, off) ==
    [i \in DOMAIN out |-> IF i - off \in 0..7 THEN byte[i - off] ELSE out[i]]

\* expand_byte_to_8_unchecked(byte, output, off)
ExpandByteTo8(byte, out, off) ==
    [i \in DOMAIN out |-> IF i - off \in 0..7 THEN Inv(byte[i - off]) ELSE out[i]]

\* Mutant: the remainder is read from byte full_chunks, not full_chunks * 4.
ExpandAvx2Tail(bm, out, len) ==
    LET full == len \div 32
        chunk[k \in 0..full] ==
          IF k = 0 THEN out
          ELSE LET o == chunk[k - 1] IN
               ExpandByteTo8(bm[4 * (k - 1) + 3],
                 ExpandByteTo8(bm[4 * (k - 1) + 2],
                   ExpandByteTo8(bm[4 * (k - 1) + 1],
                     ExpandByteTo8(bm[4 * (k - 1)], o, 32 * (k - 1)),
                     32 * (k - 1) + 8), 32 * (k - 1) + 16), 32 * (k - 1) + 24)
    IN  IF len - full * 32 > 0
        THEN ExpandScalar(bm, full, chunk[full], full * 32, len - full * 32)
        ELSE chunk[full]

\* expand_null_bitmap_avx2: chunks of 32 values (4 bitmap bytes, each
\* expanded to 8 output bytes at out_idx), then the scalar path on
\* &bitmap[full_chunks * 4..] and &mut output[out_idx..].
ExpandAvx2(bm, out, len) ==
    LET full == len \div 32
        chunk[k \in 0..full] ==
          IF k = 0 THEN out
          ELSE LET o == chunk[k - 1] IN
               ExpandByteTo8(bm[4 * (k - 1) + 3],
                 ExpandByteTo8(bm[4 * (k - 1) + 2],
                   ExpandByteTo8(bm[4 * (k - 1) + 1],
                     ExpandByteTo8(bm[4 * (k - 1)], o, 32 * (k - 1)),
                     32 * (k - 1) + 8), 32 * (k - 1) + 16), 32 * (k - 1) + 24)
    IN  IF len - full * 32 > 0
        THEN ExpandScalar(bm, full * 4, chunk[full], full * 32, len - full * 32)
        ELSE chunk[full]

\* expand_null_bitmap_neon: for each chunk, for each of its 4 bytes, the
\* byte is duplicated to 8 lanes, ANDed with [0x01 .. 0x80], compared to
\* zero and masked to 0/1, and the 8 lanes stored at out_idx.
ExpandNeon(bm, out, len) ==
    LET full == len \div 32
        step[s \in 0..(4 * full)] ==
          IF s = 0 THEN out
          ELSE [i \in DOMAIN out |->
                  IF i - 8 * (s - 1) \in 0..7
                  THEN Inv(bm[s - 1][i - 8 * (s - 1)])
                  ELSE step[s - 1][i]]
    IN  IF len - full * 32 > 0
        THEN ExpandScalar(bm, full * 4, step[4 * full], full * 32, len - full * 32)
        ELSE step[4 * full]

\* expand_null_bitmap: the path the build's cfg and runtime detection select.
ExpandNullBitmap(path, bm, out, len) ==
    CASE path = "scalar" -> ExpandScalar(bm, 0, out, 0, len)
      [] path = "avx2"   -> ExpandAvx2(bm, out, len)
      [] path = "neon"   -> ExpandNeon(bm, out, len)

\* prepare_null_bitmap (and the same lines of serialize_nulls[_async]): a
\* zeroed mask of len bytes, expanded from validity() if there are nulls.
PrepareNullBitmap(path, c) ==
    IF c.nullable
    THEN ExpandNullBitmap(path, Validity(c), Zeros(c.len), c.len)
    ELSE Zeros(c.len)

\* The mask as the bytes written.
AsSeq(f, n) == [i \in 1..n |-> f[i - 1]]

\* The values_bytes of column c.
Values(c) == <<"values", c.id>>

-----------------------------------------------------------------------------
(* The writer: the columns of a block are serialized in order, each by    *)
(* serialize_nulls[_async] or by write_nullable_vectored.                 *)

VARIABLES
    path,   \* the expansion this build uses
    todo,   \* the columns still to write
    out,    \* the bytes written to the writer
    done    \* the columns written, with the function that wrote them

vars == <<path, todo, out, done>>

Init ==
    /\ path \in Paths
    /\ todo \in UNION {[1..m -> Columns] : m \in 0..MaxCols}
    /\ out = <<>>
    /\ done = <<>>

\* serialize_nulls / serialize_nulls_async: nothing for an Array or Map
\* type or an empty column, else the whole mask in one write.
SerializeNulls ==
    LET c == Head(todo) IN
    /\ todo # <<>>
    /\ \/ c.kind \in {"array", "map"} /\ UNCHANGED out
       \/ c.kind = "plain" /\ c.len = 0 /\ UNCHANGED out
       \/ /\ c.kind = "plain" /\ c.len > 0
          /\ out' = out \o AsSeq(PrepareNullBitmap(path, c), c.len)
    /\ todo' = Tail(todo)
    /\ done' = Append(done, [col |-> c, how |-> "nulls"])
    /\ UNCHANGED path

\* write_nullable_vectored: the values alone for an Array or Map type,
\* nothing for an empty column, else the mask and the values in one
\* vectored write.
WriteNullableVectored ==
    LET c == Head(todo) IN
    /\ todo # <<>>
    /\ \/ c.kind \in {"array", "map"} /\ c.len > 0 /\ out' = Append(out, Values(c))
       \/ c.kind \in {"array", "map"} /\ c.len = 0 /\ UNCHANGED out
       \/ c.kind = "plain" /\ c.len = 0 /\ UNCHANGED out
       \/ /\ c.kind = "plain" /\ c.len > 0
          /\ out' = Append(out \o AsSeq(PrepareNullBitmap(path, c), c.len), Values(c))
    /\ todo' = Tail(todo)
    /\ done' = Append(done, [col |-> c, how |-> "vectored"])
    /\ UNCHANGED path

Next == SerializeNulls \/ WriteNullableVectored

\* The writer stops when the block is written.
Spec == Init /\ [][Next]_vars

-----------------------------------------------------------------------------
(* Properties                                                              *)

\* The type invariant: every byte written is a 0, a null flag computed from
\* one validity bit, or a column's values.
TypeOK ==
    /\ path \in Paths
    /\ todo \in Seq(Columns)
    /\ \A i \in 1..Len(out) : out[i][1] \in {"zero", "null", "values"}
    /\ done \in Seq([col : Columns, how : {"nulls", "vectored"}])

\* The AVX2 and NEON expansions write exactly what the scalar one writes,
\* for every length, at chunk boundaries and in the remainder (the spec's
\* "identical byte output across all SIMD paths").
PathsAgree ==
    \A c \in Columns, p \in Paths :
        PrepareNullBitmap(p, c) = PrepareNullBitmap("scalar", c)

\* What the format says a column contributes: for a nullable column one
\* byte per row, 1 if the row is null (its validity bit, at the array's
\* offset, is 0), else 0; nothing for Array and Map types.
NullMaskOf(c) ==
    [i \in 1..c.len |-> IF c.nullable THEN Inv(<<c.id, c.offset + i - 1>>) ELSE Zero]

Expected(d) ==
    LET c == d.col
        vals == IF d.how = "vectored" /\ c.len > 0 THEN <<Values(c)>> ELSE <<>>
    IN  IF c.kind \in {"array", "map"} THEN vals ELSE NullMaskOf(c) \o vals

\* The bytes written are the null masks (and values) of the columns written,
\* in order: row i of each mask flags exactly the nulls of row i.
MaskCorrect ==
    LET acc[k \in 0..Len(done)] ==
          IF k = 0 THEN <<>> ELSE acc[k - 1] \o Expected(done[k])
    IN  out = acc[Len(done)]

=============================================================================
