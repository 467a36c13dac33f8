------------------------- MODULE SparseOffsetsProofs -------------------------
(***************************************************************************)
(* Proofs about the sparse offsets reader, for every set of streams and    *)
(* every window bound: the type invariant, the alignment of the stream     *)
(* between calls, and the shape of the returned offsets.                   *)
(***************************************************************************)
EXTENDS SparseOffsets, TLAPS

\* The state record of SparseDeserializeState.
StateT == [trailing : Nat, pending : BOOLEAN]

LEMMA EmptyStateType == EmptyState \in StateT
  BY DEF EmptyState, StateT

\* Every varint of a stream is a record with a natural run and a flag.
LEMMA WireElem ==
  ASSUME TypeOK, NEW i \in 1..Len(wire)
  PROVE  /\ wire[i].run \in Nat
         /\ wire[i].eog \in BOOLEAN
<1>1. wire[i] \in Varint
  BY DEF TypeOK
<1>2. QED
  BY <1>1 DEF Varint

-----------------------------------------------------------------------------
(* Type correctness                                                         *)

LEMMA InitTypeOK == Init => TypeOK
  BY WiresAssumption, MaxRowsAssumption, EmptyStateType
  DEF Init, TypeOK, StateT

LEMMA NextTypeOK == TypeOK /\ [Next]_vars => TypeOK'
<1> SUFFICES ASSUME TypeOK, [Next]_vars PROVE TypeOK'
  OBVIOUS
<1>1. ASSUME NEW n \in 0..MaxRows, Begin(n) PROVE TypeOK'
  BY <1>1, EmptyStateType DEF Begin, TypeOK, StateT
<1>2. CASE ReadValueInWindow
  <2>1. cur \in 1..Len(wire)
    BY <1>2 DEF ReadValueInWindow, TypeOK
  <2>2. wire[cur].run \in Nat
    BY <2>1, WireElem
  <2>3. pos' \in Nat
    BY <1>2, <2>2 DEF ReadValueInWindow, TypeOK
  <2>6. offs' \in Seq(Nat)
    BY <1>2, <2>2 DEF ReadValueInWindow, TypeOK
  <2>4. cur' \in 1..(Len(wire') + 1)
    BY <1>2, <2>1 DEF ReadValueInWindow
  <2>5. QED
    BY <1>2, <2>3, <2>4, <2>6 DEF ReadValueInWindow, TypeOK
<1>3. CASE ReadValueBeyondWindow
  <2>1. cur \in 1..Len(wire)
    BY <1>3 DEF ReadValueBeyondWindow, TypeOK
  <2>2. wire[cur].run \in Nat
    BY <2>1, WireElem
  <2>3. pos' \in Nat
    BY <1>3, <2>2 DEF ReadValueBeyondWindow, TypeOK
  <2>6. st' \in StateT
    BY <1>3, <2>2 DEF ReadValueBeyondWindow, TypeOK, StateT
  <2>4. cur' \in 1..(Len(wire') + 1)
    BY <1>3, <2>1 DEF ReadValueBeyondWindow
  <2>5. QED
    BY <1>3, <2>3, <2>4, <2>6 DEF ReadValueBeyondWindow, TypeOK, StateT
<1>4. CASE ReadEnd
  <2>1. cur \in 1..Len(wire)
    BY <1>4 DEF ReadEnd, TypeOK
  <2>2. wire[cur].run \in Nat
    BY <2>1, WireElem
  <2>3. pos' \in Nat
    BY <1>4, <2>2 DEF ReadEnd, TypeOK
  <2>6. st' \in StateT
    <3>1. st \in StateT
      BY DEF TypeOK, StateT
    <3>2. CASE pos + wire[cur].run > want
      <4>1. pos + wire[cur].run - want \in Nat
        BY <3>2, <2>2 DEF TypeOK
      <4>2. QED
        BY <3>1, <4>1, <1>4, <3>2 DEF ReadEnd, StateT
    <3>3. CASE ~(pos + wire[cur].run > want)
      BY <3>1, <1>4, <3>3 DEF ReadEnd
    <3>4. QED
      BY <3>2, <3>3
  <2>4. cur' \in 1..(Len(wire') + 1)
    BY <1>4, <2>1 DEF ReadEnd
  <2>5. QED
    BY <1>4, <2>3, <2>4, <2>6 DEF ReadEnd, TypeOK, StateT
<1>5. CASE ReadFail
  BY <1>5 DEF ReadFail, TypeOK
<1>6. CASE UNCHANGED vars
  BY <1>6 DEF vars, TypeOK
<1>7. QED
  BY <1>1, <1>2, <1>3, <1>4, <1>5, <1>6 DEF Next

\* The type invariant of the reader holds in every reachable state.
THEOREM TypeCorrect == Spec => []TypeOK
  BY InitTypeOK, NextTypeOK, PTL DEF Spec

-----------------------------------------------------------------------------
(* Alignment: a call always drains its granule                            *)

LEMMA NextStreamAligned ==
  TypeOK /\ StreamAligned /\ [Next]_vars => StreamAligned'
<1> SUFFICES ASSUME TypeOK, StreamAligned, [Next]_vars PROVE StreamAligned'
  OBVIOUS
<1>1. ASSUME NEW n \in 0..MaxRows, Begin(n) PROVE StreamAligned'
  BY <1>1 DEF Begin, StreamAligned
<1>2. CASE ReadValueInWindow
  BY <1>2 DEF ReadValueInWindow, StreamAligned
<1>3. CASE ReadValueBeyondWindow
  BY <1>3 DEF ReadValueBeyondWindow, StreamAligned
<1>4. CASE ReadEnd
  BY <1>4 DEF ReadEnd, StreamAligned, IsGranuleEnd, TypeOK
<1>5. CASE ReadFail
  BY <1>5 DEF ReadFail, StreamAligned
<1>6. CASE UNCHANGED vars
  BY <1>6 DEF vars, StreamAligned, IsGranuleEnd
<1>7. QED
  BY <1>1, <1>2, <1>3, <1>4, <1>5, <1>6 DEF Next

\* Between calls, read_sparse_offsets has consumed whole granules only:
\* whatever the windows the callers pass, the next varint starts a granule.
THEOREM AlignedCorrect == Spec => []StreamAligned
<1>1. Init => StreamAligned
  BY DEF Init, StreamAligned, IsGranuleEnd
<1>2. TypeOK /\ StreamAligned /\ [Next]_vars => StreamAligned'
  BY NextStreamAligned
<1>3. QED
  BY <1>1, <1>2, TypeCorrect, PTL DEF Spec

-----------------------------------------------------------------------------
(* Offsets                                                                  *)

\* OffsetsInWindow is not inductive by itself: a step appends
\* current_position, so every recorded offset must lie below it.
OffsetsBelowPos == \A i \in 1..Len(offs) : offs[i] < pos

IInv == TypeOK /\ OffsetsInWindow /\ OffsetsBelowPos

LEMMA InitIInv == Init => IInv
  BY InitTypeOK DEF Init, IInv, OffsetsInWindow, OffsetsBelowPos

LEMMA NextIInv == IInv /\ [Next]_vars => IInv'
<1> SUFFICES ASSUME IInv, [Next]_vars PROVE IInv'
  OBVIOUS
<1> USE DEF IInv
<1>0. TypeOK'
  BY NextTypeOK
<1>1. ASSUME NEW n \in 0..MaxRows, Begin(n)
      PROVE (OffsetsInWindow /\ OffsetsBelowPos)'
  <2>1. CASE st.pending /\ st.trailing < n
    <3>1. offs' = <<st.trailing>> /\ pos' = st.trailing + 1 /\ want' = n
      BY <1>1, <2>1 DEF Begin
    <3>2. QED
      BY <3>1, <2>1 DEF OffsetsInWindow, OffsetsBelowPos, TypeOK
  <2>2. CASE ~(st.pending /\ st.trailing < n)
    <3>1. offs' = <<>>
      BY <1>1, <2>2 DEF Begin
    <3>2. QED
      BY <3>1 DEF OffsetsInWindow, OffsetsBelowPos
  <2>3. QED
    BY <2>1, <2>2
<1>2. CASE ReadValueInWindow
  <2>1. wire[cur].run \in Nat
    <3>1. cur \in 1..Len(wire)
      BY <1>2 DEF ReadValueInWindow, TypeOK
    <3>2. QED
      BY <3>1, WireElem
  <2>2. /\ offs' = Append(offs, pos + wire[cur].run)
        /\ pos' = pos + wire[cur].run + 1
        /\ want' = want
        /\ pos + wire[cur].run < want
        /\ pos \in Nat /\ offs \in Seq(Nat)
    BY <1>2, <2>1 DEF ReadValueInWindow, TypeOK
  <2>3. \A i \in 1..Len(offs) : offs[i] < pos + wire[cur].run
    BY <2>1, <2>2 DEF OffsetsBelowPos
  <2>4. OffsetsInWindow'
    BY <2>2, <2>3 DEF OffsetsInWindow
  <2>5. OffsetsBelowPos'
    <3> SUFFICES ASSUME NEW i \in 1..Len(offs')
                 PROVE  offs'[i] < pos'
      BY DEF OffsetsBelowPos
    <3>1. Len(offs') = Len(offs) + 1
      BY <2>2
    <3>2. CASE i <= Len(offs)
      <4>1. offs'[i] = offs[i]
        BY <2>2, <3>1, <3>2
      <4>2. QED
        BY <4>1, <2>1, <2>2, <2>3, <3>2
    <3>3. CASE i = Len(offs) + 1
      <4>1. offs'[i] = pos + wire[cur].run
        BY <2>2, <3>3
      <4>2. QED
        BY <4>1, <2>1, <2>2
    <3>4. QED
      BY <3>1, <3>2, <3>3
  <2>6. QED
    BY <1>0, <2>4, <2>5
<1>3. CASE ReadValueBeyondWindow
  <2>1. wire[cur].run \in Nat
    <3>1. cur \in 1..Len(wire)
      BY <1>3 DEF ReadValueBeyondWindow, TypeOK
    <3>2. QED
      BY <3>1, WireElem
  <2>2. offs' = offs /\ want' = want /\ pos' = pos + wire[cur].run /\ pos \in Nat
    BY <1>3 DEF ReadValueBeyondWindow, TypeOK
  <2>3. OffsetsInWindow'
    BY <2>2 DEF OffsetsInWindow
  <2>4. OffsetsBelowPos'
    <3> SUFFICES ASSUME NEW i \in 1..Len(offs)
                 PROVE  offs'[i] < pos'
      BY <2>2 DEF OffsetsBelowPos
    <3>1. offs[i] < pos /\ offs[i] \in Nat
      BY DEF OffsetsBelowPos, TypeOK
    <3>2. QED
      BY <3>1, <2>1, <2>2
  <2>5. QED
    BY <1>0, <2>3, <2>4
<1>4. CASE ReadEnd
  <2>1. wire[cur].run \in Nat
    <3>1. cur \in 1..Len(wire)
      BY <1>4 DEF ReadEnd, TypeOK
    <3>2. QED
      BY <3>1, WireElem
  <2>2. offs' = offs /\ want' = want /\ pos' = pos + wire[cur].run /\ pos \in Nat
    BY <1>4 DEF ReadEnd, TypeOK
  <2>3. OffsetsInWindow'
    BY <2>2 DEF OffsetsInWindow
  <2>4. OffsetsBelowPos'
    <3> SUFFICES ASSUME NEW i \in 1..Len(offs)
                 PROVE  offs'[i] < pos'
      BY <2>2 DEF OffsetsBelowPos
    <3>1. offs[i] < pos /\ offs[i] \in Nat
      BY DEF OffsetsBelowPos, TypeOK
    <3>2. QED
      BY <3>1, <2>1, <2>2
  <2>5. QED
    BY <1>0, <2>3, <2>4
<1>5. CASE ReadFail
  BY <1>0, <1>5 DEF ReadFail, OffsetsInWindow, OffsetsBelowPos
<1>6. CASE UNCHANGED vars
  BY <1>0, <1>6 DEF vars, OffsetsInWindow, OffsetsBelowPos
<1>7. QED
  BY <1>0, <1>1, <1>2, <1>3, <1>4, <1>5, <1>6 DEF Next

\* Every call returns strictly increasing positions inside its window,
\* the carried value of the previous call included.
THEOREM OffsetsCorrect == Spec => []OffsetsInWindow
<1>1. IInv => OffsetsInWindow
  BY DEF IInv
<1>2. QED
  BY InitIInv, NextIInv, <1>1, PTL DEF Spec

=============================================================================
