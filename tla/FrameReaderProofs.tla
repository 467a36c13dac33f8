-------------------------- MODULE FrameReaderProofs --------------------------
(***************************************************************************)
(* Proofs about FrameReader: the type invariant, the integrity of the      *)
(* delivered byte stream, and the refinement of ByteStream, for every set  *)
(* of frame streams and every read size.                                   *)
(*                                                                         *)
(* Payloads is a recursive function over the frames decoded so far.  What *)
(* it computes is established once, below, by choosing least              *)
(* counterexamples (WFMin on the naturals), and then only used through    *)
(* the lemmas PayloadsZero, PayloadsStep and PayloadsPrefix.               *)
(***************************************************************************)
EXTENDS FrameReader, SequenceTheorems, WellFoundedInduction, TLAPS

-----------------------------------------------------------------------------
(* Payloads                                                                *)

\* g satisfies the defining equation of the function inside Payloads(n).
PEq(g, n) ==
    g = [i \in 0..n |-> IF i = 0 THEN <<>> ELSE g[i - 1] \o Payload(i)]

\* The function Payloads(n) reads its result from.
PF(n) == CHOOSE g : PEq(g, n)

\* Every non-empty set of naturals has a least element.
LEMMA NatMin ==
  ASSUME NEW T, T \subseteq Nat, T # {}
  PROVE  \E x \in T : \A y \in T : ~(y < x)
<1>1. \E x \in T : \A y \in T : ~(<<y, x>> \in OpToRel(<, Nat))
  BY NatLessThanWellFounded, WFMin
<1>2. QED
  BY <1>1 DEF OpToRel

LEMMA PayloadsIsPF ==
  ASSUME NEW n \in Nat
  PROVE  Payloads(n) = PF(n)[n]
BY DEF Payloads, PF, PEq

\* The defining equation has a solution on 0..n for every n: extend the
\* solution on 0..n-1 by one frame.
LEMMA PEqExists ==
  ASSUME NEW n \in Nat
  PROVE  \E g : PEq(g, n)
<1> DEFINE T == {m \in Nat : ~\E g : PEq(g, m)}
<1> SUFFICES T = {}
  OBVIOUS
<1>1. SUFFICES ASSUME T # {} PROVE FALSE
  OBVIOUS
<1>2. PICK x \in T : \A y \in T : ~(y < x)
  BY <1>1, NatMin
<1>3. PEq([i \in 0..0 |-> <<>>], 0)
  BY DEF PEq
<1>4. x \in Nat /\ x # 0
  BY <1>2, <1>3
<1>5. PICK g : PEq(g, x - 1)
  BY <1>2, <1>4
<1> DEFINE h == [i \in 0..x |-> IF i < x THEN g[i] ELSE g[x - 1] \o Payload(x)]
<1>6. \A i \in 0..x : h[i] = IF i = 0 THEN <<>> ELSE h[i - 1] \o Payload(i)
  <2> SUFFICES ASSUME NEW i \in 0..x
               PROVE  h[i] = IF i = 0 THEN <<>> ELSE h[i - 1] \o Payload(i)
    OBVIOUS
  <2>1. CASE i < x
    <3>1. i \in 0..(x - 1)
      BY <1>4, <2>1
    <3>2. g[i] = IF i = 0 THEN <<>> ELSE g[i - 1] \o Payload(i)
      BY <1>5, <3>1 DEF PEq
    <3>3. h[i] = g[i]
      BY <2>1
    <3>4. i # 0 => h[i - 1] = g[i - 1]
      BY <3>1, <1>4
    <3>5. QED
      BY <3>2, <3>3, <3>4
  <2>2. CASE i = x
    <3>1. h[x - 1] = g[x - 1]
      BY <1>4
    <3>2. h[x] = g[x - 1] \o Payload(x)
      BY <1>4
    <3>3. QED
      BY <2>2, <1>4, <3>1, <3>2
  <2>3. QED
    BY <2>1, <2>2
<1>7. PEq(h, x)
  BY <1>6 DEF PEq
<1>8. QED
  BY <1>2, <1>7

\* A solution of the equation, read at one point.
LEMMA PEqAt ==
  ASSUME NEW n \in Nat, NEW g, PEq(g, n), NEW i \in 0..n
  PROVE  g[i] = IF i = 0 THEN <<>> ELSE g[i - 1] \o Payload(i)
BY DEF PEq

\* PF(n) solves the equation.
LEMMA PFEq ==
  ASSUME NEW n \in Nat
  PROVE  PEq(PF(n), n)
BY PEqExists DEF PF

\* The equation has one solution: two solutions agree at their least
\* difference, which cannot be 0.
LEMMA PEqUnique ==
  ASSUME NEW n \in Nat, NEW g, NEW h, PEq(g, n), PEq(h, n)
  PROVE  g = h
<1> DEFINE T == {i \in 0..n : g[i] # h[i]}
<1>1. SUFFICES T = {}
  BY DEF PEq
<1>2. SUFFICES ASSUME T # {} PROVE FALSE
  OBVIOUS
<1>3. PICK x \in T : \A y \in T : ~(y < x)
  <2>1. T \subseteq Nat
    OBVIOUS
  <2>2. QED
    BY <1>2, <2>1, NatMin
<1>4. g[x] = IF x = 0 THEN <<>> ELSE g[x - 1] \o Payload(x)
  BY DEF PEq
<1>5. h[x] = IF x = 0 THEN <<>> ELSE h[x - 1] \o Payload(x)
  BY DEF PEq
<1>6. x # 0 => g[x - 1] = h[x - 1]
  BY <1>3
<1>7. QED
  BY <1>3, <1>4, <1>5, <1>6

LEMMA PayloadsZero == Payloads(0) = <<>>
<1>1. PEq(PF(0), 0)
  BY PFEq
<1>2. QED
  BY <1>1, PayloadsIsPF DEF PEq

\* The payloads of frames 1..n are those of 1..n-1 followed by frame n's.
LEMMA PayloadsStep ==
  ASSUME NEW n \in Nat \ {0}
  PROVE  Payloads(n) = Payloads(n - 1) \o Payload(n)
<1>1. PEq(PF(n), n)
  BY PFEq
<1> DEFINE r == [i \in 0..(n - 1) |-> PF(n)[i]]
<1>2. PEq(r, n - 1)
  <2>1. \A i \in 0..(n - 1) : r[i] = IF i = 0 THEN <<>> ELSE r[i - 1] \o Payload(i)
    <3> SUFFICES ASSUME NEW i \in 0..(n - 1)
                 PROVE  r[i] = IF i = 0 THEN <<>> ELSE r[i - 1] \o Payload(i)
      OBVIOUS
    <3>1. PF(n)[i] = IF i = 0 THEN <<>> ELSE PF(n)[i - 1] \o Payload(i)
      BY <1>1, PEqAt
    <3>2. i # 0 => r[i - 1] = PF(n)[i - 1]
      OBVIOUS
    <3>3. QED
      BY <3>1, <3>2
  <2>2. QED
    BY <2>1 DEF PEq
<1>3. r = PF(n - 1)
  BY <1>2, PFEq, PEqUnique
<1>4. PF(n)[n] = PF(n)[n - 1] \o Payload(n)
  <2>1. n \in 0..n /\ n # 0
    OBVIOUS
  <2>2. PF(n)[n] = IF n = 0 THEN <<>> ELSE PF(n)[n - 1] \o Payload(n)
    BY <1>1, <2>1, PEqAt
  <2>3. QED
    BY <2>1, <2>2
<1>5. PF(n)[n - 1] = PF(n - 1)[n - 1]
  BY <1>3
<1>6. Payloads(n) = PF(n)[n] /\ Payloads(n - 1) = PF(n - 1)[n - 1]
  <2>1. n - 1 \in Nat
    OBVIOUS
  <2>2. QED
    BY <2>1, PayloadsIsPF
<1>7. QED
  BY <1>4, <1>5, <1>6

-----------------------------------------------------------------------------
(* Types of the payloads, for a stream of well-formed frames               *)

\* The values that stand for the decoded bytes.
Bytes == Nat \X Nat

\* The payload of a frame of the stream is a sequence of bytes.
LEMMA PayloadType ==
  ASSUME wire \in Seq(Frame), NEW i \in 1..Len(wire)
  PROVE  Payload(i) \in Seq(Bytes)
<1>1. wire[i].len \in Nat
  <2>1. wire[i] \in Frame
    BY ElementOfSeq
  <2>2. QED
    BY <2>1 DEF Frame
<1>2. \A j \in 1..wire[i].len : <<i, j>> \in Bytes
  BY DEF Bytes
<1>3. QED
  BY <1>1, <1>2, IsASeq DEF Payload

\* The payloads of the first n frames are a sequence of bytes.
LEMMA PayloadsType ==
  ASSUME wire \in Seq(Frame), NEW n \in 0..Len(wire)
  PROVE  Payloads(n) \in Seq(Bytes)
<1> DEFINE T == {m \in 0..Len(wire) : Payloads(m) \notin Seq(Bytes)}
<1>1. SUFFICES ASSUME T # {} PROVE FALSE
  OBVIOUS
<1>2. PICK x \in T : \A y \in T : ~(y < x)
  <2>1. T \subseteq Nat
    BY LenProperties
  <2>2. QED
    BY <1>1, <2>1, NatMin
<1>3. x \in Nat \ {0}
  <2>1. x \in Nat
    BY <1>2, LenProperties
  <2>2. <<>> \in Seq(Bytes)
    BY EmptySeq
  <2>3. QED
    BY <1>2, <2>1, <2>2, PayloadsZero
<1>4. Payloads(x - 1) \in Seq(Bytes)
  BY <1>2, <1>3
<1>5. Payload(x) \in Seq(Bytes)
  BY <1>2, <1>3, PayloadType
<1>6. Payloads(x) = Payloads(x - 1) \o Payload(x)
  BY <1>3, PayloadsStep
<1>7. QED
  BY <1>2, <1>4, <1>5, <1>6, ConcatProperties

\* Concatenation of byte sequences is associative.
LEMMA BytesAssoc ==
  ASSUME NEW s \in Seq(Bytes), NEW t \in Seq(Bytes), NEW u \in Seq(Bytes)
  PROVE  (s \o t) \o u = s \o (t \o u)
BY ConcatAssociative

\* The payloads of the first a frames are a prefix of those of the first b.
LEMMA PayloadsPrefix ==
  ASSUME wire \in Seq(Frame), NEW b \in 0..Len(wire), NEW a \in 0..b
  PROVE  \E s \in Seq(Bytes) : Payloads(b) = Payloads(a) \o s
<1> DEFINE T == {m \in a..b : ~\E s \in Seq(Bytes) : Payloads(m) = Payloads(a) \o s}
<1>1. SUFFICES ASSUME T # {} PROVE FALSE
  <2>1. b \in a..b
    OBVIOUS
  <2>2. QED
    BY <2>1
<1>2. PICK x \in T : \A y \in T : ~(y < x)
  <2>1. T \subseteq Nat
    OBVIOUS
  <2>2. QED
    BY <1>1, <2>1, NatMin
<1>3. Payloads(a) \in Seq(Bytes)
  BY PayloadsType, LenProperties
<1>4. x # a
  BY <1>2, <1>3, EmptySeq, ConcatEmptySeq
<1>5. x \in Nat \ {0} /\ x - 1 \in a..b /\ x \in 1..Len(wire)
  BY <1>2, <1>4, LenProperties
<1>6. PICK s \in Seq(Bytes) : Payloads(x - 1) = Payloads(a) \o s
  <2>1. x - 1 \notin T
    <3>1. x - 1 < x
      BY <1>5
    <3>2. QED
      BY <1>2, <3>1, Zenon
  <2>2. QED
    BY <2>1, <1>5
<1>7. Payload(x) \in Seq(Bytes)
  BY <1>5, PayloadType
<1>8. Payloads(x) = Payloads(a) \o (s \o Payload(x))
  <2>1. Payloads(x) = (Payloads(a) \o s) \o Payload(x)
    BY <1>5, <1>6, PayloadsStep
  <2>2. QED
    BY <2>1, <1>3, <1>7, BytesAssoc
<1>9. s \o Payload(x) \in Seq(Bytes)
  BY <1>7, ConcatProperties
<1>10. QED
  BY <1>2, <1>8, <1>9

-----------------------------------------------------------------------------
(* LeadingOk                                                               *)

\* n frames lead the stream, all of them pass every check, and the next
\* one, if any, does not.
IsLeadingOk(n) ==
    /\ \A i \in 1..n : wire[i].kind = "ok"
    /\ n < Len(wire) => wire[n + 1].kind # "ok"

\* The count of leading good frames exists: it is the stream's length, or
\* one less than the first bad frame.
LEMMA LeadingOkExists ==
  ASSUME wire \in Seq(Frame)
  PROVE  \E n \in 0..Len(wire) : IsLeadingOk(n)
<1> DEFINE Bad == {i \in 1..Len(wire) : wire[i].kind # "ok"}
<1>1. Len(wire) \in Nat
  BY LenProperties
<1>2. CASE Bad = {}
  BY <1>1, <1>2 DEF IsLeadingOk
<1>3. CASE Bad # {}
  <2>1. PICK x \in Bad : \A y \in Bad : ~(y < x)
    <3>1. Bad \subseteq Nat
      BY <1>1
    <3>2. QED
      BY <1>3, <3>1, NatMin
  <2>2. x - 1 \in 0..Len(wire)
    BY <1>1
  <2>3. IsLeadingOk(x - 1)
    BY <1>1, <2>1 DEF IsLeadingOk
  <2>4. QED
    BY <2>2, <2>3
<1>4. QED
  BY <1>2, <1>3

\* What LeadingOk is.
LEMMA LeadingOkDef ==
  ASSUME wire \in Seq(Frame)
  PROVE  LeadingOk \in 0..Len(wire) /\ IsLeadingOk(LeadingOk)
BY LeadingOkExists DEF LeadingOk, IsLeadingOk

\* Every run of good frames at the head of the stream is within LeadingOk.
LEMMA LeadingOkBound ==
  ASSUME wire \in Seq(Frame), NEW b \in 0..Len(wire),
         \A i \in 1..b : wire[i].kind = "ok"
  PROVE  b <= LeadingOk
<1>1. LeadingOk \in 0..Len(wire) /\ IsLeadingOk(LeadingOk)
  BY LeadingOkDef
<1>2. Len(wire) \in Nat
  BY LenProperties
<1>3. SUFFICES ASSUME LeadingOk < b PROVE FALSE
  BY <1>1, <1>2
<1>4. LeadingOk + 1 \in 1..b /\ LeadingOk < Len(wire)
  BY <1>1, <1>2, <1>3
<1>5. QED
  BY <1>1, <1>4 DEF IsLeadingOk

-----------------------------------------------------------------------------
(* Serving bytes out of a payload                                          *)

\* The payload of frame i has wire[i].len bytes.
LEMMA PayloadLen ==
  ASSUME wire \in Seq(Frame), NEW i \in 1..Len(wire)
  PROVE  /\ Payload(i) \in Seq(Bytes)
         /\ Len(Payload(i)) = wire[i].len
<1>1. wire[i].len \in Nat
  <2>1. wire[i] \in Frame
    BY ElementOfSeq
  <2>2. QED
    BY <2>1 DEF Frame
<1>2. QED
  BY <1>1, PayloadType DEF Payload

\* The bytes of P after position p.
Rest(P, p) == SubSeq(P, p + 1, Len(P))

\* o followed by the m bytes of P after position p.
Served(o, P, p, m) == o \o SubSeq(P, p + 1, p + m)

\* min(available, k) is a count of bytes both available and requested.
LEMMA MinOfServe ==
  ASSUME NEW a \in Nat \ {0}, NEW k \in 1..MaxRead
  PROVE  MinOf(a, k) \in 1..a /\ MinOf(a, k) \in 1..MaxRead
BY MaxReadAssumption DEF MinOf

\* Serving m available bytes from position p of a payload P: the bytes
\* served and the rest of P together are what was unserved before.
LEMMA Serve ==
  ASSUME NEW P \in Seq(Bytes), NEW o \in Seq(Bytes), NEW p \in 0..Len(P),
         NEW m \in 1..(Len(P) - p)
  PROVE  /\ p + m \in 0..Len(P)
         /\ Served(o, P, p, m) \in Seq(Bytes)
         /\ Len(Served(o, P, p, m)) = Len(o) + m
         /\ Served(o, P, p, m) \o Rest(P, p + m) = o \o Rest(P, p)
<1>1. Len(P) \in Nat
  BY LenProperties
<1>2. p + m \in 0..Len(P)
  BY <1>1
<1>3. \A i \in (p + 1)..(p + m) : P[i] \in Bytes
  BY <1>1, <1>2, ElementOfSeq
<1>4. SubSeq(P, p + 1, p + m) \in Seq(Bytes) /\ Len(SubSeq(P, p + 1, p + m)) = m
  BY <1>1, <1>2, <1>3, SubSeqProperties
<1>5. \A i \in (p + m + 1)..Len(P) : P[i] \in Bytes
  BY <1>1, <1>2, ElementOfSeq
<1>6. SubSeq(P, p + m + 1, Len(P)) \in Seq(Bytes)
  BY <1>1, <1>2, <1>5, SubSeqProperties
<1>7. SubSeq(P, p + 1, p + m) \o SubSeq(P, p + m + 1, Len(P)) = SubSeq(P, p + 1, Len(P))
  <2>1. /\ p + 1 \in 1..(Len(P) + 1)
        /\ p + m \in ((p + 1) - 1)..Len(P)
        /\ Len(P) \in (p + m)..Len(P)
    BY <1>1, <1>2
  <2>2. QED
    BY <2>1, ConcatAdjacentSubSeq
<1>8. (o \o SubSeq(P, p + 1, p + m)) \o SubSeq(P, p + m + 1, Len(P))
        = o \o SubSeq(P, p + 1, Len(P))
  <2>1. (o \o SubSeq(P, p + 1, p + m)) \o SubSeq(P, p + m + 1, Len(P))
          = o \o (SubSeq(P, p + 1, p + m) \o SubSeq(P, p + m + 1, Len(P)))
    BY <1>4, <1>6, BytesAssoc
  <2>2. QED
    BY <2>1, <1>7
<1>9. o \o SubSeq(P, p + 1, p + m) \in Seq(Bytes)
      /\ Len(o \o SubSeq(P, p + 1, p + m)) = Len(o) + m
  BY <1>4, ConcatProperties
<1>10. QED
  BY <1>2, <1>8, <1>9 DEF Served, Rest

\* A sequence is the prefix of its own length of any extension of it.
LEMMA PrefixOfConcat ==
  ASSUME NEW u \in Seq(Bytes), NEW v \in Seq(Bytes)
  PROVE  /\ SubSeq(u \o v, 1, Len(u)) = u
         /\ Len(u) <= Len(u \o v)
<1>1. u \o v \in Seq(Bytes) /\ Len(u \o v) = Len(u) + Len(v)
  BY ConcatProperties
<1>2. Len(u) \in Nat /\ Len(v) \in Nat
  BY LenProperties
<1>3. \A i \in 1..Len(u) : (u \o v)[i] \in Bytes
  BY <1>1, <1>2, ElementOfSeq
<1>4. SubSeq(u \o v, 1, Len(u)) \in Seq(Bytes) /\ Len(SubSeq(u \o v, 1, Len(u))) = Len(u)
  BY <1>2, <1>3, SubSeqProperties
<1>5. \A i \in 1..Len(u) : SubSeq(u \o v, 1, Len(u))[i] = u[i]
  BY <1>1, <1>2, <1>3, SubSeqProperties, ConcatProperties
<1>6. QED
  BY <1>1, <1>2, <1>4, <1>5, SeqEqual

-----------------------------------------------------------------------------
(* The inductive invariant                                                 *)

\* A polled future serves a caller's buffer of at least one byte.
Polled == pc = "polling" => req \in 1..MaxRead

\* The reader lets go of the inner stream only with self.decompressed fully
\* served: a decode is issued only then, and a failed one leaves it so.
Drained == ~inner => position = Len(Payload(bf))

\* After an error the inner stream is gone for good.
ErrEnded == res = "err" => ~inner /\ ~fut

\* While the stream is alive its cursor is right after the frame held.
Cursor == (inner \/ fut) => fr = bf + 1

\* StreamIntegrity and ErrorAfterDrain are not inductive by themselves: a
\* decode that completes needs the buffer drained (Drained) and the cursor
\* at the next frame (Cursor), and an error must find both so.
IInv ==
    /\ TypeOK
    /\ StreamIntegrity
    /\ Polled
    /\ Drained
    /\ ErrEnded
    /\ Cursor

LEMMA InitIInv == Init => IInv
<1> SUFFICES ASSUME Init PROVE IInv
  OBVIOUS
<1>1. wire \in Seq(Frame) /\ Len(wire) \in Nat /\ 1 \in 1..Len(wire)
      /\ wire[1].kind = "ok"
  BY WiresAssumption, LenProperties DEF Init
<1>2. Payload(1) \in Seq(Bytes) /\ Len(Payload(1)) \in Nat
  BY <1>1, PayloadLen, LenProperties
<1>3. TypeOK
  <2>1. position \in 0..Len(Payload(bf))
    BY <1>2 DEF Init
  <2>2. out \in Seq(Nat \X Nat)
    BY EmptySeq DEF Init
  <2>3. req \in 0..MaxRead
    BY MaxReadAssumption DEF Init
  <2>4. fr \in 1..(Len(wire) + 1) /\ bf \in 1..(fr - 1)
    BY <1>1 DEF Init
  <2>5. /\ inner \in BOOLEAN /\ fut \in BOOLEAN /\ ~(inner /\ fut)
        /\ pc = "polling" => fut
    BY DEF Init
  <2>6. /\ fld \in 0..5
        /\ pc \in {"idle", "polling", "panicked", "dropped"}
        /\ res \in {"empty", "ready", "pending", "err", "eof", "panic"}
    BY DEF Init
  <2>7. QED
    BY <1>1, <2>1, <2>2, <2>3, <2>4, <2>5, <2>6 DEF TypeOK
<1>4. StreamIntegrity
  <2>1. Payloads(1) = Payload(1)
    <3>1. Payloads(1) = Payloads(0) \o Payload(1)
      BY PayloadsStep
    <3>2. QED
      BY <3>1, <1>2, PayloadsZero, ConcatEmptySeq
  <2>2. <<>> \o SubSeq(Payload(1), 0 + 1, Len(Payload(1))) = Payload(1)
    BY <1>2, SubSeqFull, ConcatEmptySeq
  <2>3. QED
    BY <1>1, <2>1, <2>2 DEF Init, StreamIntegrity
<1>5. QED
  BY <1>3, <1>4 DEF Init, IInv, Polled, Drained, ErrEnded, Cursor

\* No step changes the wire, so none changes what a payload is.
LEMMA WireFrame ==
  ASSUME wire' = wire
  PROVE  /\ \A i : Payload(i)' = Payload(i)
         /\ \A i : Payloads(i)' = Payloads(i)
         /\ LeadingOk' = LeadingOk
BY DEF Payload, Payloads, LeadingOk

\* A failed decode (a rejected header or payload, the end of the inner
\* stream, an I/O error) keeps the invariant: the future it drops held
\* the inner stream with the buffer drained.
LEMMA FailIInv ==
  ASSUME IInv, pc = "polling", Fail,
         fr' \in 1..(Len(wire) + 1), bf \in 1..(fr' - 1), fld' \in 0..5
  PROVE  IInv'
<1>1. /\ wire' = wire /\ inner' = inner /\ bf' = bf /\ position' = position
      /\ out' = out /\ req' = req
  BY DEF Fail
<1>2. fut' = FALSE /\ pc' = "idle" /\ res' = "err"
  BY DEF Fail
<1>3. fut /\ ~inner
  BY DEF IInv, TypeOK
<1>4. Payload(bf)' = Payload(bf) /\ Payloads(bf)' = Payloads(bf)
  BY <1>1, WireFrame
<1>5. TypeOK'
  <2>1. /\ wire' \in Seq(Frame) /\ fr' \in 1..(Len(wire') + 1) /\ fld' \in 0..5
        /\ bf' \in 1..(fr' - 1)
    BY <1>1 DEF IInv, TypeOK
  <2>2. position' \in 0..Len(Payload(bf)')
    BY <1>1, <1>4 DEF IInv, TypeOK
  <2>3. out' \in Seq(Nat \X Nat) /\ req' \in 0..MaxRead
    BY <1>1 DEF IInv, TypeOK
  <2>4. inner' \in BOOLEAN /\ fut' \in BOOLEAN /\ ~(inner' /\ fut')
    BY <1>1, <1>2 DEF IInv, TypeOK
  <2>5. /\ pc' = "polling" => fut'
        /\ pc' \in {"idle", "polling", "panicked", "dropped"}
        /\ res' \in {"empty", "ready", "pending", "err", "eof", "panic"}
    BY <1>2
  <2>6. QED
    BY <2>1, <2>2, <2>3, <2>4, <2>5 DEF TypeOK
<1>6. StreamIntegrity'
  BY <1>1, <1>4 DEF IInv, StreamIntegrity
<1>7. Drained'
  BY <1>1, <1>3, <1>4 DEF IInv, Drained
<1>8. Polled' /\ ErrEnded' /\ Cursor'
  BY <1>1, <1>2, <1>3 DEF Polled, ErrEnded, Cursor
<1>9. QED
  BY <1>5, <1>6, <1>7, <1>8 DEF IInv

\* A step that moves neither the stream, the buffer nor the delivered
\* bytes keeps the invariant, as long as it polls only a pending future
\* for a non-empty buffer and reports no new error.
LEMMA QuietIInv ==
  ASSUME IInv, UNCHANGED <<wire, fr, inner, fut, bf, position, out>>,
         fld' \in 0..5, req' \in 0..MaxRead,
         pc' \in {"idle", "polling", "panicked", "dropped"},
         pc' = "polling" => fut /\ req' \in 1..MaxRead,
         res' \in {"empty", "ready", "pending", "err", "eof", "panic"},
         res' = "err" => res = "err"
  PROVE  IInv'
<1>1. Payload(bf)' = Payload(bf) /\ Payloads(bf)' = Payloads(bf)
  BY WireFrame
<1>2. TypeOK'
  <2>1. /\ wire' \in Seq(Frame) /\ fr' \in 1..(Len(wire') + 1)
        /\ bf' \in 1..(fr' - 1)
    BY DEF IInv, TypeOK
  <2>2. position' \in 0..Len(Payload(bf)')
    BY <1>1 DEF IInv, TypeOK
  <2>3. out' \in Seq(Nat \X Nat)
    BY DEF IInv, TypeOK
  <2>4. inner' \in BOOLEAN /\ fut' \in BOOLEAN /\ ~(inner' /\ fut')
    BY DEF IInv, TypeOK
  <2>5. pc' = "polling" => fut'
    OBVIOUS
  <2>6. pc' \in {"idle", "polling", "panicked", "dropped"}
    OBVIOUS
  <2>7. QED
    BY <2>1, <2>2, <2>3, <2>4, <2>5, <2>6 DEF TypeOK
<1>3. StreamIntegrity'
  BY <1>1 DEF IInv, StreamIntegrity
<1>4. Drained'
  BY <1>1 DEF IInv, Drained
<1>5. Polled' /\ ErrEnded' /\ Cursor'
  BY DEF IInv, Polled, ErrEnded, Cursor
<1>6. QED
  BY <1>2, <1>3, <1>4, <1>5 DEF IInv

\* TypeOK of the next state, from its parts.
LEMMA TypeOKPrime ==
  ASSUME wire' \in Seq(Frame), fr' \in 1..(Len(wire') + 1), fld' \in 0..5,
         bf' \in 1..(fr' - 1), req' \in 0..MaxRead,
         position' \in 0..Len(Payload(bf)'), out' \in Seq(Bytes),
         inner' \in BOOLEAN, fut' \in BOOLEAN, ~(inner' /\ fut'),
         pc' = "polling" => fut',
         pc' \in {"idle", "polling", "panicked", "dropped"},
         res' \in {"empty", "ready", "pending", "err", "eof", "panic"}
  PROVE  TypeOK'
BY DEF TypeOK, Bytes

\* The frame whose payload is held is a frame of the stream.
LEMMA HeldFrame ==
  ASSUME IInv
  PROVE  /\ bf \in 1..Len(wire)
         /\ Payload(bf) \in Seq(Bytes)
         /\ position \in 0..Len(Payload(bf))
         /\ out \in Seq(Bytes)
<1>1. wire \in Seq(Frame) /\ Len(wire) \in Nat
  BY LenProperties DEF IInv, TypeOK
<1>2. bf \in 1..Len(wire)
  BY <1>1 DEF IInv, TypeOK
<1>3. QED
  BY <1>1, <1>2, PayloadLen DEF IInv, TypeOK, Bytes

\* poll_read with no pending future keeps the invariant whichever way it
\* dispatches: serving the held buffer, issuing the next decode, or EOF.
LEMMA CallDispatchIInv ==
  ASSUME IInv, NEW k \in 1..MaxRead, pc = "idle", ~fut, req' = k,
         Dispatch(bf, position, inner, k), UNCHANGED <<wire, fr, fld, bf>>
  PROVE  IInv'
<1> DEFINE P == Payload(bf)
<1>1. /\ bf \in 1..Len(wire) /\ P \in Seq(Bytes) /\ position \in 0..Len(P)
      /\ out \in Seq(Bytes) /\ Len(P) \in Nat
  BY HeldFrame, LenProperties
<1>2. Payload(bf)' = P /\ Payloads(bf)' = Payloads(bf)
  BY WireFrame
<1>3. /\ wire' \in Seq(Frame) /\ fr' \in 1..(Len(wire') + 1) /\ fld' \in 0..5
      /\ bf' \in 1..(fr' - 1) /\ req' \in 0..MaxRead
      /\ \A i \in 1..bf' : wire'[i].kind = "ok"
  BY DEF IInv, TypeOK, StreamIntegrity
<1>4. out \o Rest(P, position) = Payloads(bf)
  BY DEF IInv, StreamIntegrity, Rest
<1>5. CASE /\ Available(bf, position) > 0
           /\ out' = out \o SubSeq(P, position + 1, position + MinOf(Available(bf, position), k))
           /\ position' = position + MinOf(Available(bf, position), k)
           /\ inner' = inner /\ fut' = FALSE /\ pc' = "idle" /\ res' = "ready"
  <2> DEFINE m == MinOf(Available(bf, position), k)
  <2>1. m \in 1..(Len(P) - position)
    <3>1. Available(bf, position) \in Nat \ {0} /\ k \in 1..MaxRead
      BY <1>1, <1>5 DEF Available
    <3>2. QED
      BY <3>1, MinOfServe DEF Available
  <2>2. inner
    BY <1>1, <2>1 DEF IInv, Drained
  <2>3. /\ position + m \in 0..Len(P)
        /\ Served(out, P, position, m) \in Seq(Bytes)
        /\ Served(out, P, position, m) \o Rest(P, position + m) = out \o Rest(P, position)
    BY <1>1, <2>1, Serve
  <2>4. out' = Served(out, P, position, m) /\ position' = position + m
    BY <1>5 DEF Served
  <2>5. TypeOK'
    <3>1. position' \in 0..Len(Payload(bf)') /\ out' \in Seq(Bytes)
      BY <1>2, <2>3, <2>4
    <3>2. inner' \in BOOLEAN /\ fut' \in BOOLEAN /\ ~(inner' /\ fut')
      BY <1>5, <2>2
    <3>3. QED
      BY <1>3, <1>5, <3>1, <3>2, TypeOKPrime
  <2>6. StreamIntegrity'
    <3>1. out' \o Rest(P, position') = Payloads(bf)
      BY <1>4, <2>3, <2>4
    <3>2. QED
      BY <1>2, <1>3, <3>1 DEF StreamIntegrity, Rest
  <2>7. Polled' /\ Drained' /\ ErrEnded' /\ Cursor'
    BY <1>5, <2>2 DEF IInv, Polled, Drained, ErrEnded, Cursor
  <2>8. QED
    BY <2>5, <2>6, <2>7 DEF IInv
<1>6. CASE /\ Available(bf, position) = 0 /\ inner
           /\ position' = position /\ inner' = FALSE /\ fut' = TRUE /\ pc' = "polling"
           /\ UNCHANGED <<out, res>>
  <2>1. position = Len(P)
    BY <1>1, <1>6 DEF Available
  <2>2. TypeOK'
    <3>1. position' \in 0..Len(Payload(bf)') /\ out' \in Seq(Bytes)
      BY <1>1, <1>2, <1>6
    <3>2. inner' \in BOOLEAN /\ fut' \in BOOLEAN /\ ~(inner' /\ fut')
      BY <1>6
    <3>3. res' \in {"empty", "ready", "pending", "err", "eof", "panic"}
      BY <1>6 DEF IInv, TypeOK
    <3>4. QED
      BY <1>3, <1>6, <3>1, <3>2, <3>3, TypeOKPrime
  <2>3. StreamIntegrity'
    BY <1>2, <1>3, <1>4, <1>6 DEF StreamIntegrity, Rest
  <2>4. Polled' /\ Drained' /\ ErrEnded' /\ Cursor'
    BY <1>2, <1>6, <2>1 DEF IInv, Polled, Drained, ErrEnded, Cursor
  <2>5. QED
    BY <2>2, <2>3, <2>4 DEF IInv
<1>7. CASE /\ Available(bf, position) = 0 /\ ~inner
           /\ position' = position /\ inner' = inner /\ fut' = FALSE /\ pc' = "idle"
           /\ res' = "eof" /\ UNCHANGED out
  <2>1. TypeOK'
    <3>1. position' \in 0..Len(Payload(bf)') /\ out' \in Seq(Bytes)
      BY <1>1, <1>2, <1>7
    <3>2. inner' \in BOOLEAN /\ fut' \in BOOLEAN /\ ~(inner' /\ fut')
      BY <1>7 DEF IInv, TypeOK
    <3>3. QED
      BY <1>3, <1>7, <3>1, <3>2, TypeOKPrime
  <2>2. StreamIntegrity'
    BY <1>2, <1>3, <1>4, <1>7 DEF StreamIntegrity, Rest
  <2>3. Polled' /\ Drained' /\ ErrEnded' /\ Cursor'
    BY <1>2, <1>7 DEF IInv, Polled, Drained, ErrEnded, Cursor
  <2>4. QED
    BY <2>1, <2>2, <2>3 DEF IInv
<1>8. QED
  BY <1>5, <1>6, <1>7 DEF Dispatch

\* A completed decode keeps the invariant: the frame it installs is the one
\* after the held frame, whose buffer was drained, so the bytes delivered
\* so far and the new buffer make up the payloads up to the new frame.
LEMMA FrameDoneIInv ==
  ASSUME IInv, FrameDone
  PROVE  IInv'
<1> DEFINE Q == Payload(fr)
<1>1. /\ pc = "polling" /\ fr \in 1..Len(wire) /\ wire[fr].kind = "ok"
      /\ fr' = fr + 1 /\ fld' = 0 /\ bf' = fr /\ wire' = wire /\ req' = req
      /\ bf \in Nat
  <2>1. /\ pc = "polling" /\ fr <= Len(wire) /\ wire[fr].kind = "ok"
        /\ fr' = fr + 1 /\ fld' = 0 /\ bf' = fr /\ wire' = wire /\ req' = req
    BY DEF FrameDone
  <2>2. fr \in 1..(Len(wire) + 1) /\ Len(wire) \in Nat /\ bf \in 1..(fr - 1)
    BY LenProperties DEF IInv, TypeOK
  <2>3. QED
    BY <2>1, <2>2
<1>0. Dispatch(fr, 0, TRUE, req)
  BY DEF FrameDone
<1>2. fut /\ ~inner /\ req \in 1..MaxRead /\ fr = bf + 1
  BY <1>1 DEF IInv, TypeOK, Polled, Cursor
<1>3. Q \in Seq(Bytes) /\ Len(Q) \in Nat /\ wire \in Seq(Frame)
  BY <1>1, PayloadLen, LenProperties DEF IInv, TypeOK
<1>4. Payload(bf)' = Q /\ Payloads(bf)' = Payloads(fr)
  BY <1>1, WireFrame
<1>5. out = Payloads(bf)
  <2>1. bf \in 1..Len(wire) /\ Payload(bf) \in Seq(Bytes) /\ out \in Seq(Bytes)
    BY HeldFrame
  <2>2. position = Len(Payload(bf))
    BY <1>2 DEF IInv, Drained
  <2>3. Rest(Payload(bf), position) = <<>>
    BY <2>1, <2>2, LenProperties, SubSeqEmpty DEF Rest
  <2>4. QED
    BY <2>1, <2>3, ConcatEmptySeq DEF IInv, StreamIntegrity, Rest
<1>6. out \o Rest(Q, 0) = Payloads(fr)
  <2>1. Rest(Q, 0) = Q
    BY <1>3, SubSeqFull DEF Rest
  <2>2. Payloads(fr) = Payloads(bf) \o Q
    <3>1. fr \in Nat \ {0} /\ fr - 1 = bf
      BY <1>1, <1>2
    <3>2. QED
      BY <3>1, PayloadsStep
  <2>3. QED
    BY <1>5, <2>1, <2>2
<1>7. /\ wire' \in Seq(Frame) /\ fr' \in 1..(Len(wire') + 1) /\ fld' \in 0..5
      /\ bf' \in 1..(fr' - 1) /\ req' \in 0..MaxRead
      /\ \A i \in 1..bf' : wire'[i].kind = "ok"
  <2>1. \A i \in 1..bf : wire[i].kind = "ok"
    BY DEF IInv, StreamIntegrity
  <2>2. \A i \in 1..fr : wire[i].kind = "ok"
    BY <1>1, <1>2, <2>1
  <2>3. Len(wire) \in Nat /\ req \in 0..MaxRead
    BY <1>2, <1>3, LenProperties
  <2>4. QED
    BY <1>1, <1>3, <2>2, <2>3
<1>8. out \in Seq(Bytes)
  BY HeldFrame
<1>9. CASE /\ Available(fr, 0) > 0
           /\ out' = out \o SubSeq(Q, 0 + 1, 0 + MinOf(Available(fr, 0), req))
           /\ position' = 0 + MinOf(Available(fr, 0), req)
           /\ inner' = TRUE /\ fut' = FALSE /\ pc' = "idle" /\ res' = "ready"
  <2> DEFINE m == MinOf(Available(fr, 0), req)
  <2>1. m \in 1..(Len(Q) - 0)
    <3>1. Available(fr, 0) \in Nat \ {0} /\ req \in 1..MaxRead
      BY <1>2, <1>3, <1>9 DEF Available
    <3>2. QED
      BY <3>1, MinOfServe DEF Available
  <2>2. /\ 0 + m \in 0..Len(Q)
        /\ Served(out, Q, 0, m) \in Seq(Bytes)
        /\ Served(out, Q, 0, m) \o Rest(Q, 0 + m) = out \o Rest(Q, 0)
    <3>1. 0 \in 0..Len(Q)
      BY <1>3
    <3>2. QED
      BY <1>3, <1>8, <2>1, <3>1, Serve
  <2>3. out' = Served(out, Q, 0, m) /\ position' = 0 + m
    BY <1>9 DEF Served
  <2>4. TypeOK'
    <3>1. position' \in 0..Len(Payload(bf)') /\ out' \in Seq(Bytes)
      BY <1>4, <2>2, <2>3
    <3>2. inner' \in BOOLEAN /\ fut' \in BOOLEAN /\ ~(inner' /\ fut')
      BY <1>9
    <3>3. QED
      BY <1>7, <1>9, <3>1, <3>2, TypeOKPrime
  <2>5. StreamIntegrity'
    <3>1. out' \o Rest(Q, position') = Payloads(fr)
      BY <1>6, <2>2, <2>3
    <3>2. QED
      BY <1>4, <1>7, <3>1 DEF StreamIntegrity, Rest
  <2>6. Polled' /\ Drained' /\ ErrEnded' /\ Cursor'
    BY <1>1, <1>9 DEF Polled, Drained, ErrEnded, Cursor
  <2>7. QED
    BY <2>4, <2>5, <2>6 DEF IInv
<1>10. CASE /\ Available(fr, 0) = 0 /\ TRUE
            /\ position' = 0 /\ inner' = FALSE /\ fut' = TRUE /\ pc' = "polling"
            /\ UNCHANGED <<out, res>>
  <2>1. Len(Q) = 0
    BY <1>3, <1>10 DEF Available
  <2>2. TypeOK'
    <3>1. position' \in 0..Len(Payload(bf)') /\ out' \in Seq(Bytes)
      BY <1>4, <1>8, <1>10, <2>1
    <3>2. inner' \in BOOLEAN /\ fut' \in BOOLEAN /\ ~(inner' /\ fut')
      BY <1>10
    <3>3. res' \in {"empty", "ready", "pending", "err", "eof", "panic"}
      BY <1>10 DEF IInv, TypeOK
    <3>4. QED
      BY <1>7, <1>10, <3>1, <3>2, <3>3, TypeOKPrime
  <2>3. StreamIntegrity'
    BY <1>4, <1>6, <1>7, <1>10 DEF StreamIntegrity, Rest
  <2>4. res # "err"
    BY <1>2 DEF IInv, ErrEnded
  <2>5. Polled' /\ Drained' /\ ErrEnded' /\ Cursor'
    BY <1>1, <1>2, <1>4, <1>10, <2>1, <2>4 DEF Polled, Drained, ErrEnded, Cursor
  <2>6. QED
    BY <2>2, <2>3, <2>5 DEF IInv
<1>11. QED
  BY <1>0, <1>9, <1>10 DEF Dispatch

\* Every step of the reader keeps the invariant.
LEMMA NextIInv == IInv /\ [Next]_vars => IInv'
<1> SUFFICES ASSUME IInv, [Next]_vars PROVE IInv'
  OBVIOUS
<1>0. /\ fld \in 0..5 /\ req \in 0..MaxRead /\ (pc = "polling" => fut)
      /\ (pc = "polling" => req \in 1..MaxRead)
      /\ fr \in 1..(Len(wire) + 1) /\ bf \in 1..(fr - 1) /\ Len(wire) \in Nat
  BY LenProperties DEF IInv, TypeOK, Polled
<1>1. CASE \E k \in 0..MaxRead : Call(k)
  <2>1. PICK k \in 0..MaxRead : Call(k)
    BY <1>1
  <2>2. pc = "idle" /\ req' = k /\ wire' = wire
    BY <2>1 DEF Call
  <2>3. CASE /\ k = 0
             /\ res' = "empty"
             /\ UNCHANGED <<fr, fld, inner, fut, bf, position, out, pc>>
    BY <1>0, <2>2, <2>3, QuietIInv
  <2>4. CASE /\ k > 0 /\ fut
             /\ pc' = "polling"
             /\ UNCHANGED <<fr, fld, inner, fut, bf, position, out, res>>
    BY <1>0, <2>2, <2>4, QuietIInv DEF IInv, TypeOK
  <2>5. CASE /\ k > 0 /\ ~fut
             /\ Dispatch(bf, position, inner, k)
             /\ UNCHANGED <<fr, fld, bf>>
    BY <2>2, <2>5, CallDispatchIInv
  <2>6. QED
    BY <2>1, <2>3, <2>4, <2>5 DEF Call
<1>2. CASE Pending
  BY <1>0, <1>2, QuietIInv DEF Pending
<1>3. CASE ReadHeaderField
  <2>1. /\ pc = "polling" /\ fld < 5 /\ fld' = fld + 1
        /\ UNCHANGED <<wire, fr, inner, fut, bf, position, out, pc, req, res>>
    BY <1>3 DEF ReadHeaderField
  <2>2. fld' \in 0..5
    BY <1>0, <2>1
  <2>3. QED
    BY <1>0, <2>1, <2>2, QuietIInv DEF IInv, TypeOK
<1>4. CASE RejectHeader
  <2>1. pc = "polling" /\ Fail /\ fr' = fr /\ fld' \in 0..5
    BY <1>3, <1>4 DEF RejectHeader
  <2>2. QED
    BY <1>0, <2>1, FailIInv
<1>5. CASE ShortFramePanic
  BY <1>0, <1>5, QuietIInv DEF ShortFramePanic
<1>6. CASE RejectPayload
  <2>1. pc = "polling" /\ Fail /\ fr' = fr + 1 /\ fr <= Len(wire) /\ fld' = 0
    BY <1>6 DEF RejectPayload
  <2>2. QED
    BY <1>0, <2>1, FailIInv
<1>7. CASE FrameDone
  BY <1>7, FrameDoneIInv
<1>8. CASE EndOfStream \/ IoError
  <2>1. pc = "polling" /\ Fail /\ fr' = fr /\ fld' = fld
    BY <1>8 DEF EndOfStream, IoError
  <2>2. QED
    BY <1>0, <2>1, FailIInv
<1>9. CASE UNCHANGED vars
  BY <1>0, <1>9, QuietIInv DEF vars, IInv, TypeOK
<1>10. QED
  BY <1>1, <1>2, <1>3, <1>4, <1>5, <1>6, <1>7, <1>8, <1>9 DEF Next, DecodeStep

LEMMA IInvCorrect == Spec => []IInv
BY InitIInv, NextIInv, PTL DEF Spec

\* Every state of the reader is well typed; in particular the &mut R inner
\* stream is held by the reader or by its pending future, never both, and
\* self.position never passes the end of self.decompressed.
THEOREM TypeCorrect == Spec => []TypeOK
BY IInvCorrect, PTL DEF IInv

\* poll_read never loses, repeats or reorders a byte: what it has delivered,
\* followed by the unread rest of self.decompressed, is the concatenation
\* of the payloads of the frames decoded so far, all of which passed every
\* check of decompress_data_async.
THEOREM IntegrityCorrect == Spec => []StreamIntegrity
BY IInvCorrect, PTL DEF IInv

\* When poll_read reports an error, every byte of the frames decoded before
\* it has been served: a decode is only issued on a drained buffer.
THEOREM DrainCorrect == Spec => []ErrorAfterDrain
<1>1. IInv => ErrorAfterDrain
  BY DEF IInv, ErrEnded, Drained, ErrorAfterDrain
<1>2. QED
  BY <1>1, IInvCorrect, PTL

-----------------------------------------------------------------------------
(* Refinement of ByteStream                                                *)

\* A frame before the cursor is a frame of the stream.
LEMMA RangeChain ==
  ASSUME NEW L \in Nat, NEW f \in 1..(L + 1), NEW b \in 1..(f - 1)
  PROVE  b \in 1..L /\ b \in 0..L
OBVIOUS

\* The rest of a byte sequence after a position is a byte sequence.
LEMMA RestType ==
  ASSUME NEW P \in Seq(Bytes), NEW p \in 0..Len(P)
  PROVE  Rest(P, p) \in Seq(Bytes)
<1>1. Len(P) \in Nat
  BY LenProperties
<1>2. \A i \in (p + 1)..Len(P) : P[i] \in Bytes
  BY <1>1, ElementOfSeq
<1>3. QED
  BY <1>1, <1>2, SubSeqProperties DEF Rest

\* Bytes that, followed by some rest, make up the payloads of good frames
\* leading the stream are a prefix of the data the stream stands for.
LEMMA DeliveredPrefix ==
  ASSUME wire \in Seq(Frame), NEW o \in Seq(Bytes), NEW r \in Seq(Bytes),
         NEW b \in 0..Len(wire), \A i \in 1..b : wire[i].kind = "ok",
         o \o r = Payloads(b)
  PROVE  /\ Len(o) <= Len(Payloads(LeadingOk))
         /\ o = SubSeq(Payloads(LeadingOk), 1, Len(o))
<1>1. LeadingOk \in 0..Len(wire) /\ b \in 0..LeadingOk
  <2>1. LeadingOk \in 0..Len(wire)
    BY LeadingOkDef
  <2>2. b <= LeadingOk
    BY LeadingOkBound
  <2>3. QED
    BY <2>1, <2>2
<1>2. PICK t \in Seq(Bytes) : Payloads(LeadingOk) = Payloads(b) \o t
  BY <1>1, PayloadsPrefix
<1>3. Payloads(LeadingOk) = o \o (r \o t)
  <2>1. Payloads(LeadingOk) = (o \o r) \o t
    BY <1>2
  <2>2. (o \o r) \o t = o \o (r \o t)
    BY BytesAssoc
  <2>3. QED
    BY <2>1, <2>2
<1>4. r \o t \in Seq(Bytes)
  BY ConcatProperties
<1>5. QED
  BY <1>3, <1>4, PrefixOfConcat

\* In every state the invariant allows, the bytes delivered are a prefix
\* of the data the stream stands for.
LEMMA NextDelivered ==
  ASSUME IInv', wire' = wire
  PROVE  /\ Len(out') <= Len(Payloads(LeadingOk))
         /\ out' = SubSeq(Payloads(LeadingOk), 1, Len(out'))
<1>1. wire \in Seq(Frame) /\ Len(wire) \in Nat
  BY LenProperties DEF IInv, TypeOK
<1>2. bf' \in 1..Len(wire) /\ bf' \in 0..Len(wire)
  <2>1. fr' \in 1..(Len(wire') + 1) /\ bf' \in 1..(fr' - 1)
    BY DEF IInv, TypeOK
  <2>2. fr' \in 1..(Len(wire) + 1)
    BY <2>1
  <2>3. QED
    BY <1>1, <2>1, <2>2, RangeChain
<1>3. Payload(bf)' = Payload(bf') /\ Payloads(bf)' = Payloads(bf')
  BY WireFrame
<1>4. Payload(bf') \in Seq(Bytes)
  BY <1>1, <1>2, PayloadLen
<1>5. /\ position' \in 0..Len(Payload(bf'))
      /\ out' \in Seq(Bytes)
      /\ \A i \in 1..bf' : wire[i].kind = "ok"
      /\ out' \o Rest(Payload(bf'), position') = Payloads(bf')
  BY <1>3 DEF IInv, TypeOK, StreamIntegrity, Rest, Bytes
<1>6. Rest(Payload(bf'), position') \in Seq(Bytes)
  BY <1>4, <1>5, RestType
<1>7. QED
  BY <1>1, <1>2, <1>5, <1>6, DeliveredPrefix

\* The stream has ended, under the refinement mapping.
Ended == (~inner /\ ~fut) \/ pc = "panicked"

\* A step of poll_read that hands the caller m bytes, 1 <= m <= MaxRead,
\* while the stream is alive, is a Read of the byte stream.
LEMMA ServeRefines ==
  ASSUME IInv', wire' = wire, NEW m \in 1..MaxRead, Len(out') = Len(out) + m,
         ~Ended, ~Ended'
  PROVE  Stream!Read
<1> DEFINE data == Payloads(LeadingOk)
<1>1. Len(out') <= Len(data) /\ out' = SubSeq(data, 1, Len(out'))
  BY NextDelivered
<1>2. data' = data
  BY WireFrame
<1>3. \E j \in 1..MaxRead : /\ Len(out) + j <= Len(data)
                            /\ out' = SubSeq(data, 1, Len(out) + j)
  BY <1>1
<1>4. QED
  BY <1>2, <1>3 DEF Stream!Read, Ended

\* The byte stream's variables, under the refinement mapping.
StreamVars == <<Payloads(LeadingOk), out, Ended>>

\* A step that changes neither the bytes delivered nor whether the stream
\* has ended is a stutter of the byte stream.
LEMMA StutterRefines ==
  ASSUME wire' = wire, out' = out, Ended' = Ended
  PROVE  UNCHANGED StreamVars
BY WireFrame DEF StreamVars

\* A step that ends the stream without delivering a byte is its End.
LEMMA EndRefines ==
  ASSUME wire' = wire, out' = out, Ended'
  PROVE  Stream!End
BY WireFrame DEF Stream!End, Ended

\* Every step of the reader is a step of the byte stream or leaves it
\* unchanged.
LEMMA NextRefines ==
  ASSUME IInv, IInv', [Next]_vars
  PROVE  [Stream!Read \/ Stream!End]_StreamVars
<1>0. /\ wire' = wire
      /\ out \in Seq(Bytes) /\ Payload(bf) \in Seq(Bytes)
      /\ position \in 0..Len(Payload(bf))
      /\ ~(inner /\ fut) /\ (pc = "polling" => fut)
  <2>1. wire' = wire
    BY DEF Next, Call, Pending, DecodeStep, ReadHeaderField, RejectHeader,
           ShortFramePanic, RejectPayload, FrameDone, EndOfStream, IoError,
           Fail, vars
  <2>2. QED
    BY <2>1, HeldFrame DEF IInv, TypeOK
<1>1. CASE \E k \in 0..MaxRead : Call(k)
  <2>1. PICK k \in 0..MaxRead : Call(k)
    BY <1>1
  <2>2. pc = "idle"
    BY <2>1 DEF Call
  <2>3. CASE /\ k = 0
             /\ UNCHANGED <<fr, fld, inner, fut, bf, position, out, pc>>
    BY <1>0, <2>3, StutterRefines DEF Ended
  <2>4. CASE /\ k > 0 /\ fut
             /\ pc' = "polling"
             /\ UNCHANGED <<fr, fld, inner, fut, bf, position, out, res>>
    BY <1>0, <2>2, <2>4, StutterRefines DEF Ended
  <2>5. CASE /\ k > 0 /\ ~fut
             /\ Dispatch(bf, position, inner, k)
             /\ UNCHANGED <<fr, fld, bf>>
    <3> DEFINE P == Payload(bf)
    <3>1. CASE /\ Available(bf, position) > 0
               /\ out' = out \o SubSeq(P, position + 1, position + MinOf(Available(bf, position), k))
               /\ position' = position + MinOf(Available(bf, position), k)
               /\ inner' = inner /\ fut' = FALSE /\ pc' = "idle" /\ res' = "ready"
      <4> DEFINE m == MinOf(Available(bf, position), k)
      <4>1. m \in 1..(Len(P) - position) /\ m \in 1..MaxRead
        <5>1. Available(bf, position) \in Nat \ {0} /\ k \in Nat \ {0}
          BY <1>0, <2>5, <3>1, MaxReadAssumption, LenProperties DEF Available
        <5>2. k \in 1..MaxRead
          BY <5>1
        <5>3. QED
          BY <5>1, <5>2, MinOfServe DEF Available
      <4>2. Len(out') = Len(out) + m
        <5>1. Len(Served(out, P, position, m)) = Len(out) + m
          BY <1>0, <4>1, Serve
        <5>2. QED
          BY <3>1, <5>1 DEF Served
      <4>3. inner
        BY <1>0, <4>1 DEF IInv, Drained
      <4>4. ~Ended /\ ~Ended'
        BY <2>2, <3>1, <4>3 DEF Ended
      <4>5. QED
        BY <1>0, <4>1, <4>2, <4>4, ServeRefines
    <3>2. CASE /\ Available(bf, position) = 0 /\ inner
               /\ position' = position /\ inner' = FALSE /\ fut' = TRUE /\ pc' = "polling"
               /\ UNCHANGED <<out, res>>
      BY <1>0, <2>2, <3>2, StutterRefines DEF Ended
    <3>3. CASE /\ Available(bf, position) = 0 /\ ~inner
               /\ position' = position /\ inner' = inner /\ fut' = FALSE /\ pc' = "idle"
               /\ res' = "eof" /\ UNCHANGED out
      BY <1>0, <2>2, <2>5, <3>3, StutterRefines DEF Ended
    <3>4. QED
      BY <2>5, <3>1, <3>2, <3>3 DEF Dispatch
  <2>6. QED
    BY <2>1, <2>3, <2>4, <2>5 DEF Call
<1>2. CASE Pending \/ ReadHeaderField
  <2>1. pc = "polling" /\ pc' \in {"idle", "polling"} /\ UNCHANGED <<inner, fut, out>>
    BY <1>2 DEF Pending, ReadHeaderField
  <2>2. QED
    BY <1>0, <2>1, StutterRefines DEF Ended
<1>3. CASE RejectHeader \/ RejectPayload \/ EndOfStream \/ IoError
  <2>1. pc = "polling" /\ Fail
    BY <1>3 DEF RejectHeader, RejectPayload, EndOfStream, IoError
  <2>2. out' = out /\ Ended'
    BY <1>0, <2>1 DEF Fail, Ended
  <2>3. QED
    BY <1>0, <2>2, EndRefines
<1>4. CASE ShortFramePanic
  BY <1>0, <1>4, EndRefines DEF ShortFramePanic, Ended
<1>5. CASE FrameDone
  <2>1. /\ pc = "polling" /\ fr <= Len(wire) /\ req \in 1..MaxRead
        /\ Dispatch(fr, 0, TRUE, req)
    BY <1>5 DEF FrameDone, IInv, Polled
  <2>2. fr \in 1..Len(wire) /\ Payload(fr) \in Seq(Bytes)
    <3>1. fr \in 1..(Len(wire) + 1) /\ wire \in Seq(Frame)
      BY DEF IInv, TypeOK
    <3>2. fr \in 1..Len(wire)
      BY <2>1, <3>1, LenProperties
    <3>3. QED
      BY <3>1, <3>2, PayloadLen
  <2> DEFINE Q == Payload(fr)
  <2>3. CASE /\ Available(fr, 0) > 0
             /\ out' = out \o SubSeq(Q, 0 + 1, 0 + MinOf(Available(fr, 0), req))
             /\ position' = 0 + MinOf(Available(fr, 0), req)
             /\ inner' = TRUE /\ fut' = FALSE /\ pc' = "idle" /\ res' = "ready"
    <3> DEFINE m == MinOf(Available(fr, 0), req)
    <3>1. m \in 1..(Len(Q) - 0) /\ m \in 1..MaxRead
      <4>1. Available(fr, 0) \in Nat \ {0} /\ req \in 1..MaxRead
        BY <2>1, <2>2, <2>3, LenProperties DEF Available
      <4>2. QED
        BY <2>1, <4>1, MinOfServe DEF Available
    <3>2. Len(out') = Len(out) + m
      <4>1. 0 \in 0..Len(Q)
        BY <2>2, LenProperties
      <4>2. Len(Served(out, Q, 0, m)) = Len(out) + m
        BY <1>0, <2>2, <3>1, <4>1, Serve
      <4>3. QED
        BY <2>3, <4>2 DEF Served
    <3>3. ~Ended /\ ~Ended'
      BY <1>0, <2>1, <2>3 DEF Ended
    <3>4. QED
      BY <1>0, <3>1, <3>2, <3>3, ServeRefines
  <2>4. CASE /\ Available(fr, 0) = 0 /\ TRUE
             /\ position' = 0 /\ inner' = FALSE /\ fut' = TRUE /\ pc' = "polling"
             /\ UNCHANGED <<out, res>>
    BY <1>0, <2>1, <2>4, StutterRefines DEF Ended
  <2>5. QED
    BY <2>1, <2>3, <2>4 DEF Dispatch
<1>6. CASE UNCHANGED vars
  BY <1>0, <1>6, StutterRefines DEF vars, Ended
<1>7. QED
  BY <1>1, <1>2, <1>3, <1>4, <1>5, <1>6 DEF Next, DecodeStep

\* The reader starts as a byte stream that has handed out nothing.
LEMMA InitRefines == Init => Stream!Init
<1> SUFFICES ASSUME Init PROVE Stream!Init
  OBVIOUS
<1>1. wire \in Seq(Frame)
  BY WiresAssumption DEF Init
<1>2. Payloads(LeadingOk) \in Seq(Nat \X Nat)
  BY <1>1, LeadingOkDef, PayloadsType DEF Bytes
<1>3. out = <<>> /\ ~((~inner /\ ~fut) \/ pc = "panicked")
  BY DEF Init
<1>4. QED
  BY <1>2, <1>3 DEF Stream!Init

\* DecompressionReader behaves as the abstract byte stream: every poll_read
\* that fills the caller's buffer hands out the next 1 to buf.remaining()
\* bytes of the payloads of the leading good frames, and none once a decode
\* has failed or panicked.  The mapping: the data are those payloads, the
\* bytes handed out are out, and the stream has ended once the inner stream
\* is gone or the task panicked.
THEOREM RefinesStream == Spec => StreamSpec
<1>1. Init => Stream!Init
  BY InitRefines
<1>2. IInv /\ IInv' /\ [Next]_vars => [Stream!Read \/ Stream!End]_StreamVars
  BY NextRefines
<1>3. QED
  BY <1>1, <1>2, IInvCorrect, PTL DEF Spec, StreamSpec, Stream!Spec, StreamVars, Ended

=============================================================================
