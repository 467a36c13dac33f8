---------------------------- MODULE SparseOffsets ----------------------------
(***************************************************************************)
(* The sparse column reader of src/clickhouse-arrow/src/native/sparse.rs.  *)
(*                                                                         *)
(* The server writes, for every granule of a sparse column, a stream of    *)
(* VarUInt group sizes: each one without END_OF_GRANULE_FLAG counts the    *)
(* defaults before a non-default value, the one with the flag counts the   *)
(* trailing defaults and ends the granule.  read_sparse_offsets reads one  *)
(* granule per call, returns the row positions of the non-default values   *)
(* that fall inside the caller's window of num_rows rows, and keeps a      *)
(* SparseDeserializeState between calls.  expand_sparse_array then         *)
(* materialises the dense column.                                          *)
(*                                                                         *)
(* A group size is abstracted to a record [run, eog]: eog is the flag bit  *)
(* (bit 62), run the remaining bits.  The byte-level varint codec is a     *)
(* separate component.  A call is split at its await points: the prologue *)
(* that consumes the carried state, then one step per varint read.         *)
(***************************************************************************)
EXTENDS Naturals, Sequences

CONSTANTS
    Wires,    \* the varint streams the server may have written
    MaxRows   \* the largest num_rows a caller passes

\* A group size as read from the wire: the END_OF_GRANULE_FLAG bit and the run.
Varint == [run : Nat, eog : BOOLEAN]

ASSUME WiresAssumption == Wires \subseteq Seq(Varint)
ASSUME MaxRowsAssumption == MaxRows \in Nat

\* SparseDeserializeState::default()
EmptyState == [trailing |-> 0, pending |-> FALSE]

\* The value the dense column holds at a default row (T::Native::default()).
Default == 0

\* The outcome of the assert_eq! at the top of expand_sparse_array.
Panic == "panic"

\* The Err(Unimplemented) expand_sparse_array returns for other data types.
Unimplemented == "unimplemented"

\* The Arrow data types of a sparse column, abstracted to the branch of
\* expand_sparse_array they take: every primitive type (Int8 .. Decimal256,
\* dates, timestamps) shares expand_primitive; FixedSizeBinary keeps its size.
DataTypes ==
    {[kind |-> k] : k \in {"Primitive", "Utf8", "LargeUtf8", "Binary",
                             "LargeBinary", "Boolean", "Other"}}
      \cup {[kind |-> "FixedSizeBinary", size |-> n] : n \in 0..2}

VARIABLES
    wire,   \* the stream the server wrote; the reader only moves through it
    cur,    \* index in wire of the next varint read_var_uint returns
    st,     \* the SparseDeserializeState kept by the column decoder
    pc,     \* "idle" between calls, "loop" inside one, "failed" after an Err
    pos,    \* current_position
    offs,   \* offsets: the positions collected by the current call
    want,   \* num_rows of the current (or last) call
    call    \* the cursor and the state at the start of the current call

vars == <<wire, cur, st, pc, pos, offs, want, call>>

-----------------------------------------------------------------------------
(* The stream as the server wrote it.                                      *)

\* wire[i] ends a granule (or i = 0, the start of the stream).
IsGranuleEnd(i) == i = 0 \/ wire[i].eog

\* Sum of the runs of wire[a..j].
RunSum(a, j) ==
    LET f[i \in (a - 1)..j] == IF i < a THEN 0 ELSE f[i - 1] + wire[i].run
    IN  IF j < a THEN 0 ELSE f[j]

\* The row, within its granule starting at a, of the value announced by wire[j].
ValuePos(a, j) == RunSum(a, j) + (j - a)

\* Number of rows of the granule wire[a..b], b being its END_OF_GRANULE varint.
GranuleRows(a, b) == RunSum(a, b) + (b - a)

\* The non-default values of that granule, in order; value j is named by j.
GranuleValues(a, b) == [k \in 1..(b - a) |-> a + k - 1]

\* The granule as a dense column of n >= GranuleRows(a, b) rows.
\* d is the data type's default value.
DenseColumn(a, b, n, d) ==
    [r \in 1..n |->
        IF \E j \in a..(b - 1) : ValuePos(a, j) = r - 1
        THEN CHOOSE j \in a..(b - 1) : ValuePos(a, j) = r - 1
        ELSE d]

-----------------------------------------------------------------------------
(* expand_sparse_array and its per-type loop.                              *)

\* The loop every expand_* function runs: walk the rows with a cursor into
\* offsets; a row equal to the next offset takes the next sparse value (null
\* or not), any other row takes the type's default d.
ExpandWith(values, offsets, total, d) ==
    LET step[r \in 0..total] ==
          IF r = 0 THEN [idx |-> 0, out |-> <<>>]
          ELSE LET s == step[r - 1]
               IN  IF s.idx < Len(offsets) /\ offsets[s.idx + 1] = r - 1
                   THEN [idx |-> s.idx + 1, out |-> Append(s.out, values[s.idx + 1])]
                   ELSE [idx |-> s.idx, out |-> Append(s.out, d)]
    IN  step[total].out

ExpandPrimitive(values, offsets, total) == ExpandWith(values, offsets, total, Default)

\* expand_string: the default is the empty string.
ExpandString(values, offsets, total) == ExpandWith(values, offsets, total, "")

\* expand_binary: the default is the empty byte string b"".
ExpandBinary(values, offsets, total) == ExpandWith(values, offsets, total, <<>>)

\* expand_boolean: the default is false.
ExpandBoolean(values, offsets, total) == ExpandWith(values, offsets, total, FALSE)

\* expand_fixed_size_binary: the default is size zero bytes.
ExpandFixedSizeBinary(values, offsets, total, size) ==
    ExpandWith(values, offsets, total, [i \in 1..size |-> 0])

\* The default value each implemented data type's expansion writes.
DefaultOf(t) ==
    CASE t.kind = "Primitive"                   -> Default
      [] t.kind \in {"Utf8", "LargeUtf8"}       -> ""
      [] t.kind \in {"Binary", "LargeBinary"}   -> <<>>
      [] t.kind = "Boolean"                     -> FALSE
      [] t.kind = "FixedSizeBinary"             -> [i \in 1..t.size |-> 0]

ExpandSparseArray(values, offsets, total, t) ==
    CASE Len(values) # Len(offsets)             -> Panic
      [] t.kind = "Primitive"                   -> ExpandPrimitive(values, offsets, total)
      [] t.kind \in {"Utf8", "LargeUtf8"}       -> ExpandString(values, offsets, total)
      [] t.kind \in {"Binary", "LargeBinary"}   -> ExpandBinary(values, offsets, total)
      [] t.kind = "Boolean"                     -> ExpandBoolean(values, offsets, total)
      [] t.kind = "FixedSizeBinary"             ->
            ExpandFixedSizeBinary(values, offsets, total, t.size)
      [] OTHER                                  -> Unimplemented

-----------------------------------------------------------------------------
(* read_sparse_offsets / read_sparse_offsets_sync                          *)

Init ==
    /\ wire \in Wires
    /\ cur = 1
    /\ st = EmptyState
    /\ pc = "idle"
    /\ pos = 0
    /\ offs = <<>>
    /\ want = 0
    /\ call = [start |-> 1, entry |-> EmptyState]

\* Mutant: the carried value is recorded without the window check of line 50.
BeginUnchecked(n) ==
    /\ pc = "idle"
    /\ pos' = IF st.pending THEN st.trailing + 1 ELSE st.trailing
    /\ offs' = IF st.pending THEN <<st.trailing>> ELSE <<>>
    /\ st' = EmptyState
    /\ want' = n
    /\ call' = [start |-> cur, entry |-> st]
    /\ pc' = "loop"
    /\ UNCHANGED <<wire, cur>>

\* The call starts: the carried trailing defaults move into current_position,
\* and a carried non-default value is placed right after them (recorded only
\* if it falls inside the window).  Both fields of the state are reset.
Begin(n) ==
    /\ pc = "idle"
    /\ LET p0 == st.trailing
       IN  /\ pos' = IF st.pending THEN p0 + 1 ELSE p0
           /\ offs' = IF st.pending /\ p0 < n THEN <<p0>> ELSE <<>>
    /\ st' = EmptyState
    /\ want' = n
    /\ call' = [start |-> cur, entry |-> st]
    /\ pc' = "loop"
    /\ UNCHANGED <<wire, cur>>

\* Mutant: current_position is not moved past the recorded value (line 82).
ReadValueNoAdvance ==
    /\ pc = "loop"
    /\ cur <= Len(wire)
    /\ ~wire[cur].eog
    /\ pos + wire[cur].run < want
    /\ offs' = Append(offs, pos + wire[cur].run)
    /\ pos' = pos + wire[cur].run
    /\ cur' = cur + 1
    /\ UNCHANGED <<wire, st, pc, want, call>>

\* A group size without the flag announces a value inside the window.
ReadValueInWindow ==
    /\ pc = "loop"
    /\ cur <= Len(wire)
    /\ ~wire[cur].eog
    /\ pos + wire[cur].run < want
    /\ offs' = Append(offs, pos + wire[cur].run)
    /\ pos' = pos + wire[cur].run + 1
    /\ cur' = cur + 1
    /\ UNCHANGED <<wire, st, pc, want, call>>

\* Mutant: the loop returns as soon as the window is full, the early stop
\* the comment on read_sparse_offsets forbids.
ReadValueBeyondStops ==
    /\ pc = "loop"
    /\ cur <= Len(wire)
    /\ ~wire[cur].eog
    /\ pos + wire[cur].run >= want
    /\ pos' = pos + wire[cur].run
    /\ st' = [st EXCEPT !.pending = TRUE]
    /\ cur' = cur + 1
    /\ pc' = "idle"
    /\ UNCHANGED <<wire, offs, want, call>>

\* A group size without the flag announces a value beyond the window:
\* has_value_after_defaults is set and the loop goes on to the flag.
ReadValueBeyondWindow ==
    /\ pc = "loop"
    /\ cur <= Len(wire)
    /\ ~wire[cur].eog
    /\ pos + wire[cur].run >= want
    /\ pos' = pos + wire[cur].run
    /\ st' = [st EXCEPT !.pending = TRUE]
    /\ cur' = cur + 1
    /\ UNCHANGED <<wire, pc, offs, want, call>>

\* Mutant: the trailing defaults are stored without the test of line 73.
ReadEndUnguarded ==
    /\ pc = "loop"
    /\ cur <= Len(wire)
    /\ wire[cur].eog
    /\ pos' = pos + wire[cur].run
    /\ st' = [st EXCEPT !.trailing = pos + wire[cur].run - want]
    /\ cur' = cur + 1
    /\ pc' = "idle"
    /\ UNCHANGED <<wire, offs, want, call>>

\* The END_OF_GRANULE group: the rows past the window are kept as trailing
\* defaults and the call returns Ok(offsets).
ReadEnd ==
    /\ pc = "loop"
    /\ cur <= Len(wire)
    /\ wire[cur].eog
    /\ pos' = pos + wire[cur].run
    /\ st' = IF pos + wire[cur].run > want
             THEN [st EXCEPT !.trailing = pos + wire[cur].run - want]
             ELSE st
    /\ cur' = cur + 1
    /\ pc' = "idle"
    /\ UNCHANGED <<wire, offs, want, call>>

\* read_var_uint fails (the stream ended or broke): the `?` returns the Err
\* with the state as the call left it, and the column decoder gives up.
ReadFail ==
    /\ pc = "loop"
    /\ cur > Len(wire)
    /\ pc' = "failed"
    /\ UNCHANGED <<wire, cur, st, pos, offs, want, call>>

Next ==
    \/ \E n \in 0..MaxRows : Begin(n)
    \/ ReadValueInWindow
    \/ ReadValueBeyondWindow
    \/ ReadEnd
    \/ ReadFail

Spec == Init /\ [][Next]_vars

-----------------------------------------------------------------------------
(* Properties                                                              *)

TypeOK ==
    /\ wire \in Seq(Varint)
    /\ cur \in 1..(Len(wire) + 1)
    /\ st \in [trailing : Nat, pending : BOOLEAN]
    /\ pc \in {"idle", "loop", "failed"}
    /\ pos \in Nat
    /\ offs \in Seq(Nat)
    /\ want \in 0..MaxRows
    /\ call \in [start : 1..(Len(wire) + 1),
                 entry : [trailing : Nat, pending : BOOLEAN]]

\* A call has returned Ok and its results are in offs, st and cur.
Returned == pc = "idle" /\ cur > call.start

\* Between two calls the reader stands at a granule boundary: a call has
\* consumed every varint of its granule up to and including the
\* END_OF_GRANULE one, however few of its rows fell in the window
\* (the "must loop until END_OF_GRANULE_FLAG" rule of read_sparse_offsets;
\* stopping early misaligns every later column).
StreamAligned ==
    pc = "idle" => IsGranuleEnd(cur - 1)

\* The positions a call returns are strictly increasing and all inside the
\* window [0, num_rows), including the carried value of the previous call:
\* expand_sparse_array silently puts a value at the wrong row or drops it
\* otherwise.
OffsetsInWindow ==
    \A i \in 1..Len(offs) :
        /\ offs[i] < want
        /\ i > 1 => offs[i - 1] < offs[i]

\* A call that starts with no carried state and whose window covers its
\* whole granule leaves no state behind, and expanding the values the server
\* wrote at the returned positions reproduces the granule's dense column,
\* with the default of the column's data type at the other rows, for every
\* data type expand_sparse_array implements; any other type is an
\* Err(Unimplemented), never a wrong column (the read_sparse_offsets +
\* expand_sparse_array round trip the unit tests check on single examples).
DecodeWholeGranule ==
    (Returned /\ call.entry = EmptyState
              /\ want >= GranuleRows(call.start, cur - 1)) =>
        /\ st = EmptyState
        /\ ExpandSparseArray(GranuleValues(call.start, cur - 1), offs, want,
                             [kind |-> "Primitive"])
             = DenseColumn(call.start, cur - 1, want, Default)
        /\ \A t \in DataTypes :
             ExpandSparseArray(GranuleValues(call.start, cur - 1), offs, want, t)
               = IF t.kind = "Other" THEN Unimplemented
                 ELSE DenseColumn(call.start, cur - 1, want, DefaultOf(t))

\* The rows of a granule past the window, as non-default (TRUE) or default.
Remainder(a, b, n) ==
    [r \in 1..(GranuleRows(a, b) - n) |->
        \E j \in a..(b - 1) : ValuePos(a, j) = n + r - 1]

\* SparseDeserializeState as its field comments describe it: trailing
\* defaults not consumed yet, then a non-default value if the flag is set.
CarriedRows(s) ==
    [r \in 1..(s.trailing + (IF s.pending THEN 1 ELSE 0)) |-> r > s.trailing]

\* After a call whose window ends inside its granule, the carried state
\* describes exactly the rows of the granule the call did not return.
CarryFaithful ==
    (Returned /\ call.entry = EmptyState
              /\ want < GranuleRows(call.start, cur - 1)) =>
        CarriedRows(st) = Remainder(call.start, cur - 1, want)

=============================================================================
