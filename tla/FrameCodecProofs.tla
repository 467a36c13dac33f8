-------------------------- MODULE FrameCodecProofs --------------------------
(***************************************************************************)
(* Proofs about FrameCodec: whatever the transport corrupts, and however   *)
(* many tokens, decompress_data_async never hands back a block other than  *)
(* the one compress_data wrote at that place; for every width of the size *)
(* fields and every pair of reader limits.                                 *)
(*                                                                         *)
(* The argument: the reader always stands at the start of a frame as it   *)
(* was written, and a frame's checksum token, where it has not been        *)
(* corrupted, holds the very tokens it was computed over.  A checksum that *)
(* matches what the reader rebuilt therefore fixes the method, both sizes  *)
(* and the payload to those of the frame written there, whatever the      *)
(* transport did to them.                                                  *)
(***************************************************************************)
EXTENDS FrameCodec, SequenceTheorems, TLAPS

-----------------------------------------------------------------------------
(* Tokens                                                                  *)

TokKinds == {"ck", "method", "csize", "dsize", "z", "bad"}

\* A token that carries no checksum: what a checksum is computed over, and
\* everything the transport produces.
FlatTok == [kind : TokKinds, n : Nat, h : {<<>>}]

\* A token on the wire.
Token == [kind : TokKinds, n : Nat, h : Seq(FlatTok)]

\* new_out of compress_data: what the checksum of a frame covers.
NewOut(m, k, n, c) ==
    <<Tok("method", MethodByte(m), <<>>),
      Tok("csize", AsU32(c + Header), <<>>),
      Tok("dsize", AsU32(n), <<>>)>> \o Out(k, c)

LEMMA PowPos == 2^SizeBits \in Nat \ {0}
BY ConstantsAssumption DEF Header

LEMMA AsU32Nat ==
  ASSUME NEW x \in Nat
  PROVE  AsU32(x) \in Nat
BY PowPos DEF AsU32

LEMMA FlatIsToken == FlatTok \subseteq Token
<1> SUFFICES ASSUME NEW t \in FlatTok PROVE t \in Token
  OBVIOUS
<1>1. <<>> \in Seq(FlatTok)
  OBVIOUS
<1>2. QED
  BY <1>1 DEF FlatTok, Token

LEMMA OutType ==
  ASSUME NEW k \in Nat, NEW c \in Nat
  PROVE  /\ Out(k, c) \in Seq(FlatTok)
         /\ Len(Out(k, c)) = c
         /\ \A i \in 1..c : Out(k, c)[i].n = k
BY DEF Out, Tok, FlatTok, TokKinds

\* A frame is its checksum token followed by what the checksum covers.
LEMMA FrameShape ==
  ASSUME NEW m \in {"LZ4", "ZSTD", "NONE"}, NEW k \in Nat, NEW n \in Nat,
         NEW c \in Nat
  PROVE  /\ NewOut(m, k, n, c) \in Seq(FlatTok)
         /\ Len(NewOut(m, k, n, c)) = 3 + c
         /\ Frame(m, k, n, c) = <<Tok("ck", 0, NewOut(m, k, n, c))>> \o NewOut(m, k, n, c)
         /\ Frame(m, k, n, c) \in Seq(Token)
         /\ Len(Frame(m, k, n, c)) = 4 + c
         /\ Frame(m, k, n, c)[1].h = NewOut(m, k, n, c)
<1>1. MethodByte(m) \in Nat /\ AsU32(c + Header) \in Nat /\ AsU32(n) \in Nat
  BY AsU32Nat DEF MethodByte, Header
<1>2. <<Tok("method", MethodByte(m), <<>>),
        Tok("csize", AsU32(c + Header), <<>>),
        Tok("dsize", AsU32(n), <<>>)>> \in Seq(FlatTok)
  BY <1>1 DEF Tok, FlatTok, TokKinds
<1>3. NewOut(m, k, n, c) \in Seq(FlatTok) /\ Len(NewOut(m, k, n, c)) = 3 + c
  BY <1>2, OutType DEF NewOut
<1>4. Frame(m, k, n, c) = <<Tok("ck", 0, NewOut(m, k, n, c))>> \o NewOut(m, k, n, c)
  BY DEF Frame, NewOut
<1>5. Tok("ck", 0, NewOut(m, k, n, c)) \in Token
  BY <1>3 DEF Tok, Token, TokKinds
<1>6. NewOut(m, k, n, c) \in Seq(Token)
  BY <1>3, FlatIsToken
<1>7. Frame(m, k, n, c) \in Seq(Token) /\ Len(Frame(m, k, n, c)) = 4 + c
  BY <1>3, <1>4, <1>5, <1>6
<1>8. Frame(m, k, n, c)[1] = Tok("ck", 0, NewOut(m, k, n, c))
  BY <1>3, <1>4
<1>9. Frame(m, k, n, c)[1].h = NewOut(m, k, n, c)
  BY <1>8 DEF Tok
<1>10. QED
  BY <1>3, <1>4, <1>7, <1>9

\* Two concatenations that are equal and whose first parts have the same
\* length have equal second parts.
LEMMA ConcatCancel ==
  ASSUME NEW S, NEW u1 \in Seq(S), NEW u2 \in Seq(S), NEW v1 \in Seq(S),
         NEW v2 \in Seq(S), Len(u1) = Len(u2), u1 \o v1 = u2 \o v2
  PROVE  v1 = v2
<1>1. Len(v1) = Len(v2)
  BY ConcatProperties
<1>2. \A i \in 1..Len(v1) : v1[i] = (u1 \o v1)[Len(u1) + i]
  OBVIOUS
<1>3. \A i \in 1..Len(v2) : v2[i] = (u2 \o v2)[Len(u2) + i]
  OBVIOUS
<1>4. QED
  BY <1>1, <1>2, <1>3, SeqEqual

-----------------------------------------------------------------------------
(* A checksum that matches                                                 *)

\* What the reader rebuilds and compares is read from the wire: it is a
\* sequence of 3 + (compressed_size - 9) tokens, all of them before the end
\* of the wire.
LEMMA CheckedShape ==
  ASSUME wire \in Seq(Token), rp \in 1..(Len(wire) + 1), Avail >= 4, Whole
  PROVE  /\ CSize \in Nat /\ CSize >= Header
         /\ Payload \in Seq(Token) /\ Len(Payload) = CSize - Header
         /\ SubSeq(wire, rp + 1, rp + 3) \in Seq(Token)
         /\ Len(SubSeq(wire, rp + 1, rp + 3)) = 3
         /\ Checked \in Seq(Token)
         /\ Len(Checked) = 3 + (CSize - Header)
         /\ Len(wire) - rp >= Len(Checked)
<1>1. rp + 3 \in 1..Len(wire) /\ rp + 2 \in 1..Len(wire)
  BY DEF Avail
<1>2. CSize \in Nat
  <2>1. wire[rp + 2] \in Token
    BY <1>1, ElementOfSeq
  <2>2. QED
    BY <2>1 DEF CSize, Token
<1>3. CSize >= Header /\ rp + 3 + CSize - Header <= Len(wire)
  BY <1>2 DEF Whole, Avail, Header
<1>4. Payload \in Seq(Token) /\ Len(Payload) = CSize - Header
  BY <1>2, <1>3 DEF Payload, Header
<1>5. SubSeq(wire, rp + 1, rp + 3) \in Seq(Token) /\ Len(SubSeq(wire, rp + 1, rp + 3)) = 3
  BY <1>1
<1>6. QED
  BY <1>2, <1>3, <1>4, <1>5 DEF Checked, Header

\* A checksum token of a frame as written, compared equal to what the
\* reader rebuilt, fixes compressed_size to the frame's and the payload
\* read to the frame's payload.
LEMMA MatchedFrame ==
  ASSUME wire \in Seq(Token), rp \in 1..(Len(wire) + 1), Avail >= 4, Whole,
         NEW m \in {"LZ4", "ZSTD", "NONE"}, NEW k \in Nat, NEW n \in Nat,
         NEW c \in Nat, Checked = NewOut(m, k, n, c)
  PROVE  CSize - Header = c /\ Payload = Out(k, c)
<1>1. Len(Checked) = 3 + c
  BY FrameShape
<1>2. CSize - Header = c
  BY <1>1, CheckedShape
<1>3. <<Tok("method", MethodByte(m), <<>>),
        Tok("csize", AsU32(c + Header), <<>>),
        Tok("dsize", AsU32(n), <<>>)>> \in Seq(Token)
  <2>1. MethodByte(m) \in Nat /\ AsU32(c + Header) \in Nat /\ AsU32(n) \in Nat
    BY AsU32Nat DEF MethodByte, Header
  <2>2. QED
    BY <2>1 DEF Tok, Token, TokKinds
<1>4. Out(k, c) \in Seq(Token)
  BY OutType, FlatIsToken
<1>5. SubSeq(wire, rp + 1, rp + 3) \o Payload
      = <<Tok("method", MethodByte(m), <<>>),
          Tok("csize", AsU32(c + Header), <<>>),
          Tok("dsize", AsU32(n), <<>>)>> \o Out(k, c)
  BY DEF Checked, NewOut
<1>6. QED
  BY <1>2, <1>3, <1>4, <1>5, CheckedShape, ConcatCancel

\* A token the transport corrupted carries no checksum, and so never
\* matches what the reader rebuilt.
LEMMA CorruptedNoMatch ==
  ASSUME wire \in Seq(Token), rp \in 1..(Len(wire) + 1), Avail >= 4, Whole,
         wire[rp].h = <<>>
  PROVE  wire[rp].h # Checked
BY CheckedShape

\* Every corruption of a token is a token without a checksum.
LEMMA CorruptionsFlat ==
  ASSUME NEW t \in Token
  PROVE  Corruptions(t) \subseteq FlatTok
<1>1. (t.n + 1) % 256 \in Nat
  BY DEF Token
<1>2. (t.n + 1) % 2^SizeBits \in Nat /\ (t.n + 2^SizeBits - 1) % 2^SizeBits \in Nat
  BY PowPos DEF Token
<1>3. QED
  BY <1>1, <1>2 DEF Corruptions, Tok, FlatTok, Token, TokKinds

-----------------------------------------------------------------------------
(* The inductive invariant                                                 *)

\* The frames compress_data has written whole.
NS == Len(sent)

\* Frame i as compress_data wrote it.
FrameAt(i) == Frame(mode, sent[i].blk, sent[i].raw, Len(sent[i].out))

\* Frame i holds block i, and its payload is at least one byte (an LZ4
\* block is never empty); a connection without compression writes none.
SentOk ==
    /\ sent \in Seq([blk : Nat, raw : Nat, out : Seq(FlatTok)])
    /\ NS = IF mode = "NONE" THEN 0 ELSE w - 1
    /\ \A i \in 1..NS :
          /\ sent[i].blk = i
          /\ \E c \in Nat \ {0} : sent[i].out = Out(i, c)

\* The frames as written start at st[1], st[2], ..., one after the other,
\* and the reader stands at the start of the first frame it has not read.
\* Of each frame it has not read, the checksum token is the one written or
\* has been corrupted.  After the last whole frame comes at most a frame
\* cut short by a failed write: its checksum, if intact, covers more than
\* the wire holds.
Layout(st) ==
    /\ st[1] = 1
    /\ \A i \in 1..NS : st[i + 1] = st[i] + 4 + Len(sent[i].out)
    /\ \A i \in 1..NS : st[i] \in 1..Len(wire)
    /\ st[NS + 1] \in 1..(Len(wire) + 1)
    /\ Len(dec) \in 0..NS
    /\ rp = st[Len(dec) + 1]
    /\ wst = "run" => Len(wire) = st[NS + 1] - 1
    /\ \A i \in (Len(dec) + 1)..NS : wire[st[i]].h \in {<<>>, FrameAt(i)[1].h}
    /\ st[NS + 1] <= Len(wire) =>
          \/ wire[st[NS + 1]].h = <<>>
          \/ Len(wire) - st[NS + 1] < Len(wire[st[NS + 1]].h)

\* NoCorruptAccept is not inductive: a step of the reader keeps it only if
\* the reader stands at the start of the next frame, and that frame's
\* checksum token, if intact, is the one written there.  IInv adds the
\* layout of the frames on the wire, which a witness st describes.
IInv ==
    /\ TypeOK
    /\ NoCorruptAccept
    /\ wire \in Seq(Token)
    /\ SentOk
    /\ \E st \in [1..(NS + 1) -> Nat] : Layout(st)

LEMMA InitIInv == Init => IInv
<1> SUFFICES ASSUME Init PROVE IInv
  OBVIOUS
<1>1. blocks \in Seq(Nat) /\ mode \in Methods
  BY ConstantsAssumption DEF Init
<1>2. TypeOK
  BY <1>1, ConstantsAssumption DEF Init, TypeOK
<1>3. NoCorruptAccept /\ wire \in Seq(Token)
  BY DEF Init, NoCorruptAccept
<1>4. SentOk
  BY DEF Init, SentOk, NS
<1>5. Layout([i \in 1..1 |-> 1])
  BY DEF Init, Layout, NS
<1>6. [i \in 1..1 |-> 1] \in [1..(NS + 1) -> Nat]
  BY DEF Init, NS
<1>7. QED
  BY <1>2, <1>3, <1>4, <1>5, <1>6 DEF IInv

\* A reader that returns an Err, or panics, changes nothing else.
LEMMA FailIInv ==
  ASSUME IInv, NEW r \in {"err", "panic"}, Fail(r)
  PROVE  IInv'
<1>1. PICK st \in [1..(NS + 1) -> Nat] : Layout(st)
  BY DEF IInv
<1>2. TypeOK'
  BY DEF IInv, TypeOK, Fail
<1>3. (NoCorruptAccept /\ wire \in Seq(Token) /\ SentOk)'
  BY DEF IInv, NoCorruptAccept, SentOk, NS, Fail
<1>4. Layout(st)'
  BY <1>1 DEF Layout, Fail, NS, FrameAt
<1>5. QED
  BY <1>1, <1>2, <1>3, <1>4 DEF IInv, NS, Fail

\* Distinct blocks have distinct payloads.
LEMMA OutInjective ==
  ASSUME NEW a \in Nat, NEW b \in Nat, NEW c \in Nat \ {0},
         NEW d \in Nat \ {0}, Out(a, c) = Out(b, d)
  PROVE  a = b
<1>1. Out(a, c)[1].n = a /\ Out(b, d)[1].n = b
  BY OutType
<1>2. QED
  BY <1>1

\* The checksum token of a frame covers NewOut.
LEMMA FrameCk ==
  ASSUME NEW m \in {"LZ4", "ZSTD", "NONE"}, NEW k \in Nat, NEW n \in Nat,
         NEW c \in Nat
  PROVE  Frame(m, k, n, c)[1].h = NewOut(m, k, n, c)
BY FrameShape

\* What SentOk says of frame i.
LEMMA SentAt ==
  ASSUME SentOk, NEW i \in 1..NS
  PROVE  /\ sent[i].blk = i
         /\ sent[i].raw \in Nat
         /\ sent[i].out \in Seq(FlatTok)
         /\ \E c \in Nat \ {0} : sent[i].out = Out(i, c)
<1>1. sent[i] \in [blk : Nat, raw : Nat, out : Seq(FlatTok)]
  BY ElementOfSeq DEF SentOk, NS
<1>2. QED
  BY <1>1 DEF SentOk

\* The frame a successful decode reads is the next one written: the reader
\* stands at its start, its checksum token is intact, and the checksum
\* fixes the payload read to the frame's.
LEMMA NextFrameRead ==
  ASSUME IInv, NEW st \in [1..(NS + 1) -> Nat], Layout(st),
         rst = "run", Avail >= 4, Whole, wire[rp].h = Checked
  PROVE  /\ Len(dec) < NS
         /\ CSize - Header = Len(sent[Len(dec) + 1].out)
         /\ Payload = sent[Len(dec) + 1].out
<1> DEFINE k == Len(dec)
<1>0. TypeOK /\ SentOk /\ wire \in Seq(Token) /\ NS \in Nat
  BY DEF IInv, SentOk, NS
<1>1. rp \in 1..(Len(wire) + 1) /\ k \in 0..NS
  BY <1>0 DEF TypeOK, Layout
<1>2. Len(wire) - rp >= Len(Checked)
  BY <1>0, <1>1, CheckedShape
<1>3. wire[rp].h # <<>>
  BY <1>0, <1>1, CorruptedNoMatch
<1>4. k < NS
  <2> SUFFICES ASSUME k = NS PROVE FALSE
    BY <1>0, <1>1
  <2>1. rp = st[NS + 1] /\ st[NS + 1] <= Len(wire)
    BY <1>0, <1>1 DEF Layout, Avail
  <2>2. Len(wire) - st[NS + 1] < Len(wire[st[NS + 1]].h)
    BY <1>3, <2>1 DEF Layout
  <2>3. QED
    BY <1>2, <2>1, <2>2
<1>5. wire[rp].h = FrameAt(k + 1)[1].h
  <2>1. k + 1 \in (Len(dec) + 1)..NS /\ rp = st[k + 1]
    BY <1>0, <1>1, <1>4 DEF Layout
  <2>2. wire[st[k + 1]].h \in {<<>>, FrameAt(k + 1)[1].h}
    BY <2>1 DEF Layout
  <2>3. QED
    BY <1>3, <2>1, <2>2
<1>6a. k + 1 \in 1..NS
  BY <1>0, <1>1, <1>4
<1>6. PICK c \in Nat \ {0} : sent[k + 1].out = Out(k + 1, c)
  BY <1>0, <1>6a, SentAt
<1>7. /\ sent[k + 1].blk = k + 1
      /\ sent[k + 1].raw \in Nat
      /\ Len(sent[k + 1].out) = c
  <2>1. sent[k + 1].blk = k + 1 /\ sent[k + 1].raw \in Nat
    BY <1>0, <1>6a, SentAt
  <2>2. k + 1 \in Nat /\ c \in Nat
    BY <1>6, <1>6a
  <2>3. Len(Out(k + 1, c)) = c
    BY <2>2, OutType
  <2>4. QED
    BY <1>6, <2>1, <2>3
<1>8. mode \in {"LZ4", "ZSTD", "NONE"}
  BY <1>0, ConstantsAssumption DEF TypeOK
<1>9. PICK rw \in Nat : rw = sent[k + 1].raw
  BY <1>7
<1>10. Checked = NewOut(mode, k + 1, rw, c)
  <2>1. FrameAt(k + 1) = Frame(mode, k + 1, rw, c)
    BY <1>7, <1>9 DEF FrameAt
  <2>2. k + 1 \in Nat /\ c \in Nat
    BY <1>1, <1>6
  <2>3. Frame(mode, k + 1, rw, c)[1].h = NewOut(mode, k + 1, rw, c)
    BY <1>8, <2>2, FrameCk
  <2>4. QED
    BY <1>5, <2>1, <2>3
<1>10a. CSize - Header = c /\ Payload = Out(k + 1, c)
  <2>1. k + 1 \in Nat /\ c \in Nat
    BY <1>1, <1>6
  <2>2. QED
    BY <1>0, <1>1, <1>8, <1>10, <2>1, MatchedFrame
<1>11. QED
  BY <1>4, <1>6, <1>7, <1>10a

\* Decompressing the payload of frame i, if it succeeds, gives block i.
LEMMA DecompressBlock ==
  ASSUME SentOk, NEW i \in 1..NS, NEW d,
         Decompress(sent[i].out, d).ok
  PROVE  Decompress(sent[i].out, d).blk = i
<1>1. mode # "NONE"
  BY DEF Decompress
<1>2. \E j \in 1..Len(sent) : sent[i].out = sent[j].out
  BY DEF NS
<1> DEFINE j == CHOOSE j \in 1..Len(sent) : sent[i].out = sent[j].out
<1>3. j \in 1..NS /\ sent[i].out = sent[j].out
  BY <1>2 DEF NS
<1>4. j = i
  <2>1. PICK ci \in Nat \ {0} : sent[i].out = Out(i, ci)
    BY DEF SentOk
  <2>2. PICK cj \in Nat \ {0} : sent[j].out = Out(j, cj)
    BY <1>3 DEF SentOk
  <2>3. QED
    BY <1>3, <2>1, <2>2, OutInjective DEF NS
<1>5. sent[j].blk = i
  BY <1>4 DEF SentOk
<1>6. QED
  BY <1>1, <1>2, <1>5 DEF Decompress, NS

\* A decode that succeeds hands back the next block and moves the reader to
\* the start of the next frame; one that fails is an Err.
LEMMA DecodeIInv ==
  ASSUME IInv, Decode
  PROVE  IInv'
<1>1. PICK st \in [1..(NS + 1) -> Nat] : Layout(st)
  BY DEF IInv
<1> DEFINE k == Len(dec)
           r == Decompress(Payload, DSize)
<1>2. rst = "run" /\ Avail >= 4 /\ Whole /\ wire[rp].h = Checked
  BY DEF Decode
<1>3. /\ k < NS
      /\ CSize - Header = Len(sent[k + 1].out)
      /\ Payload = sent[k + 1].out
  BY <1>1, <1>2, NextFrameRead
<1>4. TypeOK /\ SentOk /\ NS \in Nat /\ NoCorruptAccept /\ wire \in Seq(Token)
  BY DEF IInv, SentOk, NS
<1>5. k \in 0..NS /\ rp = st[k + 1]
  BY <1>1 DEF Layout
<1>6. CASE /\ r.ok
           /\ dec' = Append(dec, r.blk)
           /\ rp' = rp + 4 + CSize - Header
           /\ UNCHANGED <<blocks, mode, w, wst, sent, wire, faults, rst>>
  <2>1. r.blk = k + 1
    <3>1. k + 1 \in 1..NS
      BY <1>3, <1>4, <1>5
    <3>2. QED
      BY <1>3, <1>4, <1>6, <3>1, DecompressBlock
  <2>2. rp' = st[k + 2]
    <3>1. k + 1 \in 1..NS /\ Len(sent[k + 1].out) \in Nat
      BY <1>3, <1>4, <1>5, SentAt
    <3>2. st[k + 2] = st[k + 1] + 4 + Len(sent[k + 1].out)
      BY <1>1, <3>1 DEF Layout
    <3>3. CSize \in Int /\ st[k + 1] \in Nat
      <4>1. rp \in 1..(Len(wire) + 1)
        BY <1>4 DEF TypeOK
      <4>2. CSize \in Nat
        BY <1>2, <1>4, <4>1, CheckedShape
      <4>3. k + 1 \in 1..(NS + 1)
        BY <1>4, <1>5
      <4>4. QED
        BY <1>1, <4>2, <4>3
    <3>4. QED
      BY <1>3, <1>5, <1>6, <3>2, <3>3
  <2>3. st[k + 2] \in 1..(Len(wire) + 1)
    <3>1. CASE k + 2 <= NS
      <4>1. k + 2 \in 1..NS
        BY <1>4, <1>5, <3>1
      <4>2. QED
        BY <1>1, <4>1 DEF Layout
    <3>2. CASE k + 2 = NS + 1
      BY <1>1, <3>2 DEF Layout
    <3>3. QED
      BY <1>3, <1>4, <1>5, <3>1, <3>2
  <2>4. NS <= Len(blocks)
    BY <1>3, <1>4, <1>5 DEF SentOk, TypeOK
  <2>5. TypeOK'
    <3>1. dec' \in Seq(0..Len(blocks))
      <4>1. k + 1 \in 0..Len(blocks) /\ dec \in Seq(0..Len(blocks))
        <5>1. dec \in Seq(0..Len(blocks))
          BY <1>4 DEF TypeOK
        <5>2. k \in Nat /\ NS \in Nat /\ k < NS /\ NS <= Len(blocks) /\ Len(blocks) \in Nat
          BY <1>3, <1>4, <1>5, <2>4 DEF TypeOK
        <5>3. k + 1 \in 0..Len(blocks)
          BY <5>2
        <5>4. QED
          BY <5>1, <5>3
      <4>2. QED
        BY <1>6, <2>1, <4>1
    <3>2. rp' \in 1..(Len(wire') + 1)
      BY <1>6, <2>2, <2>3
    <3>3. QED
      BY <1>4, <1>6, <3>1, <3>2 DEF TypeOK
  <2>6. NoCorruptAccept'
    <3>1. k + 1 \in 1..NS /\ sent[k + 1].blk = k + 1
      BY <1>3, <1>4, <1>5, SentAt
    <3>2. QED
      BY <1>4, <1>5, <1>6, <2>1, <3>1 DEF NoCorruptAccept, NS
  <2>7. (wire \in Seq(Token) /\ SentOk)'
    BY <1>4, <1>6 DEF SentOk, NS
  <2>8. Layout(st)'
    <3>1. Len(dec') = k + 1 /\ k + 1 \in 0..NS
      BY <1>3, <1>4, <1>5, <1>6
    <3>2. QED
      BY <1>1, <1>6, <2>2, <3>1 DEF Layout, NS, FrameAt
  <2>9. QED
    BY <1>1, <1>6, <2>5, <2>6, <2>7, <2>8 DEF IInv, NS
<1>7. CASE ~r.ok /\ Fail("err")
  BY <1>7, FailIInv
<1>8. QED
  BY <1>6, <1>7 DEF Decode

\* Appending tokens to the wire keeps what was there.
LEMMA AppendTokens ==
  ASSUME NEW W \in Seq(Token), NEW G \in Seq(Token)
  PROVE  /\ W \o G \in Seq(Token)
         /\ Len(W \o G) = Len(W) + Len(G)
         /\ \A p \in 1..Len(W) : (W \o G)[p] = W[p]
         /\ \A p \in 1..Len(G) : (W \o G)[Len(W) + p] = G[p]
BY ConcatProperties

\* The compressor's output is never empty.
LEMMA CompressedLensPos ==
  ASSUME NEW n \in Nat
  PROVE  CompressedLens(n) \subseteq Nat \ {0}
BY DEF CompressedLens

\* CompressionMethod::None writes nothing: only the writer moves on.
LEMMA EncodeNoneIInv ==
  ASSUME IInv, EncodeNone
  PROVE  IInv'
<1>1. PICK st \in [1..(NS + 1) -> Nat] : Layout(st)
  BY DEF IInv
<1>2. TypeOK /\ SentOk /\ w \in 1..Len(blocks)
  BY DEF IInv, EncodeNone, WriterBusy, TypeOK
<1>3. TypeOK'
  BY <1>2 DEF TypeOK, EncodeNone
<1>4. SentOk'
  BY <1>2 DEF SentOk, NS, EncodeNone
<1>5. (NoCorruptAccept /\ wire \in Seq(Token))'
  BY DEF IInv, NoCorruptAccept, EncodeNone
<1>6. Layout(st)'
  BY <1>1 DEF Layout, NS, FrameAt, EncodeNone
<1>7. QED
  BY <1>1, <1>3, <1>4, <1>5, <1>6 DEF IInv, NS, EncodeNone

\* A failed zstd compression writes nothing: the wire ends where the last
\* whole frame ends, so no partial frame follows it.
LEMMA CompressFailIInv ==
  ASSUME IInv, CompressFail
  PROVE  IInv'
<1>1. PICK st \in [1..(NS + 1) -> Nat] : Layout(st)
  BY DEF IInv
<1>2. TypeOK /\ SentOk /\ NS \in Nat /\ wst = "run" /\ wire \in Seq(Token)
  BY DEF IInv, CompressFail, WriterBusy, NS
<1>3. st[NS + 1] = Len(wire) + 1 /\ Len(wire) \in Nat
  BY <1>1, <1>2 DEF Layout
<1>4. TypeOK'
  BY <1>2 DEF TypeOK, CompressFail
<1>5. (NoCorruptAccept /\ wire \in Seq(Token) /\ SentOk)'
  BY <1>2 DEF IInv, NoCorruptAccept, SentOk, NS, CompressFail
<1>6. ~(st[NS + 1] <= Len(wire))
  BY <1>3
<1>7. Layout(st)'
  BY <1>1, <1>6 DEF Layout, NS, FrameAt, CompressFail
<1>8. QED
  BY <1>1, <1>4, <1>5, <1>7 DEF IInv, NS, CompressFail

\* A corrupted token carries no checksum: a frame's checksum token stays the
\* one written or becomes one that matches nothing.
LEMMA CorruptIInv ==
  ASSUME IInv, Corrupt
  PROVE  IInv'
<1>1. PICK st \in [1..(NS + 1) -> Nat] : Layout(st)
  BY DEF IInv
<1>2. TypeOK /\ SentOk /\ NS \in Nat /\ wire \in Seq(Token)
  BY DEF IInv, NS
<1>3. PICK p \in rp..Len(wire) :
        \E t \in Corruptions(wire[p]) : wire' = [wire EXCEPT ![p] = t]
  BY DEF Corrupt
<1>4. PICK t \in Corruptions(wire[p]) : wire' = [wire EXCEPT ![p] = t]
  BY <1>3
<1>5. p \in 1..Len(wire)
  BY <1>2, <1>3 DEF TypeOK
<1>6. t \in FlatTok
  BY <1>2, <1>4, <1>5, CorruptionsFlat
<1>7. /\ wire' \in Seq(Token) /\ Len(wire') = Len(wire)
      /\ wire'[p].h = <<>>
      /\ \A q \in 1..Len(wire) : q # p => wire'[q] = wire[q]
  BY <1>2, <1>4, <1>5, <1>6, FlatIsToken DEF FlatTok
<1>8. TypeOK'
  <2>1. faults' \in 0..MaxFaults
    BY <1>2, ConstantsAssumption DEF TypeOK, Corrupt
  <2>2. rp' \in 1..(Len(wire') + 1)
    BY <1>2, <1>7 DEF TypeOK, Corrupt
  <2>3. QED
    BY <1>2, <2>1, <2>2 DEF TypeOK, Corrupt
<1>9. (NoCorruptAccept /\ SentOk)'
  BY <1>2 DEF IInv, NoCorruptAccept, SentOk, NS, Corrupt
<1>10. \A q \in 1..Len(wire) : wire'[q].h \in {<<>>, wire[q].h}
  BY <1>7
<1>11. Layout(st)'
  <2>1. (/\ st[1] = 1
         /\ \A i \in 1..NS : st[i + 1] = st[i] + 4 + Len(sent[i].out)
         /\ \A i \in 1..NS : st[i] \in 1..Len(wire)
         /\ st[NS + 1] \in 1..(Len(wire) + 1)
         /\ Len(dec) \in 0..NS
         /\ rp = st[Len(dec) + 1]
         /\ wst = "run" => Len(wire) = st[NS + 1] - 1)'
    BY <1>1, <1>7 DEF Layout, NS, Corrupt
  <2>2. (\A i \in (Len(dec) + 1)..NS : wire[st[i]].h \in {<<>>, FrameAt(i)[1].h})'
    <3> SUFFICES ASSUME NEW i \in (Len(dec) + 1)..NS
                 PROVE  wire'[st[i]].h \in {<<>>, FrameAt(i)[1].h}
      BY DEF NS, FrameAt, Corrupt
    <3>1. st[i] \in 1..Len(wire) /\ wire[st[i]].h \in {<<>>, FrameAt(i)[1].h}
      BY <1>1, <1>2 DEF Layout
    <3>2. QED
      BY <1>10, <3>1
  <2>3. (st[NS + 1] <= Len(wire) =>
          \/ wire[st[NS + 1]].h = <<>>
          \/ Len(wire) - st[NS + 1] < Len(wire[st[NS + 1]].h))'
    <3> SUFFICES ASSUME st[NS + 1] <= Len(wire)
                 PROVE  \/ wire'[st[NS + 1]].h = <<>>
                        \/ Len(wire') - st[NS + 1] < Len(wire'[st[NS + 1]].h)
      BY <1>7 DEF NS, Corrupt
    <3>1. st[NS + 1] \in 1..Len(wire)
      BY <1>1, <1>2 DEF Layout
    <3>2. \/ wire[st[NS + 1]].h = <<>>
          \/ Len(wire) - st[NS + 1] < Len(wire[st[NS + 1]].h)
      BY <1>1 DEF Layout
    <3>3. CASE st[NS + 1] = p
      BY <1>7, <3>3
    <3>4. CASE st[NS + 1] # p
      BY <1>7, <3>1, <3>2, <3>4
    <3>5. QED
      BY <3>3, <3>4
  <2>4. QED
    BY <2>1, <2>2, <2>3 DEF Layout
<1>12. QED
  BY <1>1, <1>7, <1>8, <1>9, <1>11 DEF IInv, NS, Corrupt

\* A write that fails part way leaves the first j tokens of a frame after
\* the last whole one: its checksum token, if it went out, covers the 3 + c
\* tokens that follow it, of which fewer than 3 + c did.
LEMMA WriteFailIInv ==
  ASSUME IInv, WriteFail
  PROVE  IInv'
<1>1. PICK st \in [1..(NS + 1) -> Nat] : Layout(st)
  BY DEF IInv
<1>2. TypeOK /\ SentOk /\ NS \in Nat /\ NoCorruptAccept /\ wire \in Seq(Token)
  BY DEF IInv, SentOk, NS
<1>3. /\ wst = "run" /\ w \in 1..Len(blocks) /\ blocks[w] \in Nat
      /\ mode \in {"LZ4", "ZSTD", "NONE"}
  <2>1. wst = "run" /\ w \in 1..Len(blocks)
    BY <1>2 DEF WriteFail, WriterBusy, TypeOK
  <2>2. blocks[w] \in Nat
    BY <1>2, <2>1 DEF TypeOK
  <2>3. mode \in {"LZ4", "ZSTD", "NONE"}
    BY <1>2, ConstantsAssumption DEF TypeOK
  <2>4. QED
    BY <2>1, <2>2, <2>3
<1>4. PICK c \in CompressedLens(blocks[w]) :
        \E j \in 0..(Len(Frame(mode, w, blocks[w], c)) - 1) :
           wire' = wire \o SubSeq(Frame(mode, w, blocks[w], c), 1, j)
  BY DEF WriteFail
<1> DEFINE F == Frame(mode, w, blocks[w], c)
<1>5. c \in Nat \ {0}
  BY <1>3, CompressedLensPos
<1>6. /\ F \in Seq(Token) /\ Len(F) = 4 + c
      /\ F[1].h = NewOut(mode, w, blocks[w], c)
      /\ Len(NewOut(mode, w, blocks[w], c)) = 3 + c
  <2>1. w \in Nat /\ c \in Nat
    BY <1>3, <1>5
  <2>2. F \in Seq(Token) /\ Len(F) = 4 + c
    BY <1>3, <2>1, FrameShape
  <2>3. F[1].h = NewOut(mode, w, blocks[w], c)
    BY <1>3, <2>1, FrameCk
  <2>4. Len(NewOut(mode, w, blocks[w], c)) = 3 + c
    BY <1>3, <2>1, FrameShape
  <2>5. QED
    BY <2>2, <2>3, <2>4
<1>7. PICK j \in 0..(3 + c) : wire' = wire \o SubSeq(F, 1, j)
  <2>1. 0..(Len(F) - 1) = 0..(3 + c)
    BY <1>5, <1>6
  <2>2. \E j \in 0..(Len(F) - 1) : wire' = wire \o SubSeq(F, 1, j)
    BY <1>4
  <2>3. QED
    BY <2>1, <2>2, Zenon
<1> DEFINE G == SubSeq(F, 1, j)
<1>8. G \in Seq(Token) /\ Len(G) = j /\ \A q \in 1..j : G[q] = F[q]
  <2>1. \A q \in 1..j : F[q] \in Token
    BY <1>5, <1>6
  <2>2. QED
    BY <1>5, <2>1, SubSeqProperties
<1>9. /\ wire' \in Seq(Token)
      /\ Len(wire') = Len(wire) + j
      /\ \A q \in 1..Len(wire) : wire'[q] = wire[q]
      /\ j >= 1 => wire'[Len(wire) + 1] = F[1]
  <2>1. /\ wire \o G \in Seq(Token)
        /\ Len(wire \o G) = Len(wire) + j
        /\ \A q \in 1..Len(wire) : (wire \o G)[q] = wire[q]
        /\ \A q \in 1..j : (wire \o G)[Len(wire) + q] = G[q]
    BY <1>2, <1>8, AppendTokens
  <2>2. wire' \in Seq(Token)
    BY <1>7, <2>1, Zenon
  <2>3. QED
    BY <1>7, <1>8, <2>1, <2>2
<1>10. st[NS + 1] = Len(wire) + 1 /\ Len(wire) \in Nat
  BY <1>1, <1>2, <1>3 DEF Layout
<1>11. TypeOK'
  <2>1. rp' \in 1..(Len(wire') + 1)
    BY <1>2, <1>9 DEF TypeOK, WriteFail
  <2>2. QED
    BY <1>2, <2>1 DEF TypeOK, WriteFail
<1>12. (NoCorruptAccept /\ SentOk)'
  BY <1>2 DEF IInv, NoCorruptAccept, SentOk, NS, WriteFail
<1>13. Layout(st)'
  <2>1. (/\ st[1] = 1
         /\ \A i \in 1..NS : st[i + 1] = st[i] + 4 + Len(sent[i].out)
         /\ Len(dec) \in 0..NS
         /\ rp = st[Len(dec) + 1]
         /\ wst = "run" => Len(wire) = st[NS + 1] - 1)'
    BY <1>1 DEF Layout, NS, WriteFail
  <2>2. (/\ \A i \in 1..NS : st[i] \in 1..Len(wire)
         /\ st[NS + 1] \in 1..(Len(wire) + 1))'
    BY <1>1, <1>9, <1>10 DEF Layout, NS, WriteFail
  <2>3. (\A i \in (Len(dec) + 1)..NS : wire[st[i]].h \in {<<>>, FrameAt(i)[1].h})'
    <3> SUFFICES ASSUME NEW i \in (Len(dec) + 1)..NS
                 PROVE  wire'[st[i]].h \in {<<>>, FrameAt(i)[1].h}
      BY DEF NS, FrameAt, WriteFail
    <3>1. st[i] \in 1..Len(wire) /\ wire[st[i]].h \in {<<>>, FrameAt(i)[1].h}
      BY <1>1, <1>2 DEF Layout
    <3>2. QED
      BY <1>9, <3>1
  <2>4. (st[NS + 1] <= Len(wire) =>
          \/ wire[st[NS + 1]].h = <<>>
          \/ Len(wire) - st[NS + 1] < Len(wire[st[NS + 1]].h))'
    <3> SUFFICES ASSUME st[NS + 1] <= Len(wire')
                 PROVE  Len(wire') - st[NS + 1] < Len(wire'[st[NS + 1]].h)
      BY DEF NS, WriteFail
    <3>1. j >= 1
      BY <1>5, <1>9, <1>10
    <3>2. wire'[st[NS + 1]].h = NewOut(mode, w, blocks[w], c)
      BY <1>6, <1>9, <1>10, <3>1
    <3>3. QED
      BY <1>5, <1>6, <1>9, <1>10, <3>2
  <2>5. QED
    BY <2>1, <2>2, <2>3, <2>4 DEF Layout
<1>14. QED
  BY <1>1, <1>9, <1>11, <1>12, <1>13 DEF IInv, NS, WriteFail

\* compress_data appends a whole frame: the layout grows by one frame
\* starting where the wire ended.
LEMMA EncodeFrameIInv ==
  ASSUME IInv, EncodeFrame
  PROVE  IInv'
<1>1. PICK st \in [1..(NS + 1) -> Nat] : Layout(st)
  BY DEF IInv
<1>2. TypeOK /\ SentOk /\ NS \in Nat /\ NoCorruptAccept /\ wire \in Seq(Token)
  BY DEF IInv, SentOk, NS
<1>3. /\ wst = "run" /\ w \in 1..Len(blocks) /\ mode # "NONE"
      /\ blocks[w] \in Nat
      /\ mode \in {"LZ4", "ZSTD", "NONE"}
  BY <1>2, ConstantsAssumption DEF EncodeFrame, WriterBusy, TypeOK
<1>4. PICK c \in CompressedLens(blocks[w]) :
        /\ wire' = wire \o Frame(mode, w, blocks[w], c)
        /\ sent' = Append(sent, [blk |-> w, raw |-> blocks[w], out |-> Out(w, c)])
  BY DEF EncodeFrame
<1> DEFINE F == Frame(mode, w, blocks[w], c)
           k == Len(dec)
<1>5. c \in Nat \ {0}
  BY <1>3, CompressedLensPos
<1>6. /\ F \in Seq(Token) /\ Len(F) = 4 + c
      /\ F[1].h = NewOut(mode, w, blocks[w], c)
      /\ Out(w, c) \in Seq(FlatTok) /\ Len(Out(w, c)) = c
  <2>1. w \in Nat /\ c \in Nat
    BY <1>3, <1>5
  <2>2. F \in Seq(Token) /\ Len(F) = 4 + c
    BY <1>3, <2>1, FrameShape
  <2>3. F[1].h = NewOut(mode, w, blocks[w], c)
    BY <1>3, <2>1, FrameCk
  <2>4. Out(w, c) \in Seq(FlatTok) /\ Len(Out(w, c)) = c
    BY <2>1, OutType
  <2>5. QED
    BY <2>2, <2>3, <2>4
<1>7. /\ NS = w - 1
      /\ Len(wire) = st[NS + 1] - 1
      /\ k \in 0..NS /\ rp = st[k + 1]
  BY <1>1, <1>2, <1>3 DEF SentOk, Layout
<1>8. /\ wire' \in Seq(Token)
      /\ Len(wire') = Len(wire) + 4 + c
      /\ \A p \in 1..Len(wire) : wire'[p] = wire[p]
      /\ wire'[Len(wire) + 1] = F[1]
  <2>1. F \in Seq(Token) /\ Len(F) = 4 + c /\ wire \in Seq(Token) /\ wire' = wire \o F
    BY <1>2, <1>4, <1>6
  <2>2. /\ wire \o F \in Seq(Token)
        /\ Len(wire \o F) = Len(wire) + Len(F)
        /\ \A p \in 1..Len(wire) : (wire \o F)[p] = wire[p]
        /\ (wire \o F)[Len(wire) + 1] = F[1]
    <3>1. 1 \in 1..Len(F)
      BY <2>1, <1>5
    <3>2. QED
      BY <2>1, <3>1, AppendTokens
  <2>3. \A p \in 1..Len(wire) : wire'[p] = wire[p]
    BY <2>1, <2>2
  <2>4. wire'[Len(wire) + 1] = F[1]
    BY <2>1, <2>2
  <2>5. wire' \in Seq(Token)
    BY <2>1, <2>2, Zenon
  <2>6. Len(wire') = Len(wire) + 4 + c
    BY <2>1, <2>2, <1>5
  <2>7. QED
    BY <2>3, <2>4, <2>5, <2>6
<1>9. /\ NS' = NS + 1
      /\ \A i \in 1..NS : sent'[i] = sent[i]
      /\ sent'[NS + 1] = [blk |-> w, raw |-> blocks[w], out |-> Out(w, c)]
  BY <1>2, <1>4 DEF SentOk, NS
<1>10. \A i \in 1..NS : FrameAt(i)' = FrameAt(i)
  BY <1>4, <1>9 DEF EncodeFrame, FrameAt
<1>11. \A i \in {NS + 1} : FrameAt(i)' = F
  <2> SUFFICES ASSUME NEW i \in {NS + 1} PROVE FrameAt(i)' = F
    OBVIOUS
  <2>1. sent'[i] = [blk |-> w, raw |-> blocks[w], out |-> Out(w, c)]
    BY <1>9
  <2>2. Len(sent'[i].out) = c
    BY <1>6, <2>1
  <2>3. mode' = mode
    BY DEF EncodeFrame
  <2>4. QED
    BY <2>1, <2>2, <2>3 DEF FrameAt
<1>12. SentOk'
  <2>1. sent' \in Seq([blk : Nat, raw : Nat, out : Seq(FlatTok)])
    BY <1>2, <1>3, <1>4, <1>6 DEF SentOk
  <2>2. NS' = IF mode' = "NONE" THEN 0 ELSE w' - 1
    BY <1>3, <1>7, <1>9 DEF EncodeFrame
  <2>3. \A i \in 1..NS' : sent'[i].blk = i /\ \E cc \in Nat \ {0} : sent'[i].out = Out(i, cc)
    <3> SUFFICES ASSUME NEW i \in 1..(NS + 1)
                 PROVE  sent'[i].blk = i /\ \E cc \in Nat \ {0} : sent'[i].out = Out(i, cc)
      BY <1>9
    <3>1. CASE i <= NS
      <4>1. i \in 1..NS
        BY <1>2, <3>1
      <4>2. sent'[i] = sent[i]
        BY <1>9, <4>1
      <4>3. QED
        BY <1>2, <4>1, <4>2, SentAt
    <3>2. CASE i = NS + 1
      BY <1>2, <1>3, <1>5, <1>7, <1>9, <3>2
    <3>3. QED
      BY <1>2, <3>1, <3>2
  <2>4. QED
    BY <2>1, <2>2, <2>3 DEF SentOk
<1>13. PICK st2 \in [1..(NS + 2) -> Nat] :
          /\ \A i \in 1..(NS + 1) : st2[i] = st[i]
          /\ st2[NS + 2] = st[NS + 1] + 4 + c
  <2> DEFINE g == [i \in 1..(NS + 2) |-> IF i <= NS + 1 THEN st[i] ELSE st[NS + 1] + 4 + c]
  <2>1. g \in [1..(NS + 2) -> Nat]
    BY <1>1, <1>2, <1>5
  <2>2. \A i \in 1..(NS + 1) : g[i] = st[i]
    BY <1>2
  <2>3. g[NS + 2] = st[NS + 1] + 4 + c
    BY <1>2
  <2>4. QED
    BY <2>1, <2>2, <2>3
<1>14. Layout(st2)'
  <2>1. st2[1] = 1
    BY <1>1, <1>2, <1>13 DEF Layout
  <2>2. \A i \in 1..(NS + 1) : st2[i + 1] = st2[i] + 4 + Len(sent'[i].out)
    <3> SUFFICES ASSUME NEW i \in 1..(NS + 1)
                 PROVE  st2[i + 1] = st2[i] + 4 + Len(sent'[i].out)
      OBVIOUS
    <3>1. CASE i <= NS
      <4>1. st2[i + 1] = st[i + 1] /\ st2[i] = st[i] /\ sent'[i] = sent[i]
        BY <1>2, <1>9, <1>13, <3>1
      <4>2. st[i + 1] = st[i] + 4 + Len(sent[i].out)
        <5>1. i \in 1..NS
          BY <1>2, <3>1
        <5>2. QED
          BY <1>1, <5>1 DEF Layout
      <4>3. QED
        BY <4>1, <4>2
    <3>2. CASE i = NS + 1
      BY <1>2, <1>6, <1>9, <1>13, <3>2
    <3>3. QED
      BY <1>2, <3>1, <3>2
  <2>3. \A i \in 1..(NS + 1) : st2[i] \in 1..Len(wire')
    <3> SUFFICES ASSUME NEW i \in 1..(NS + 1) PROVE st2[i] \in 1..Len(wire')
      OBVIOUS
    <3>1. CASE i <= NS
      <4>1. st[i] \in 1..Len(wire)
        BY <1>1, <1>2, <3>1 DEF Layout
      <4>2. QED
        BY <1>2, <1>5, <1>8, <1>13, <3>1, <4>1
    <3>2. CASE i = NS + 1
      <4>1. st2[i] = st[NS + 1]
        BY <1>13, <3>2
      <4>2. st[NS + 1] = Len(wire) + 1 /\ Len(wire) \in Nat
        BY <1>1, <1>2, <1>7
      <4>3. Len(wire') = Len(wire) + 4 + c /\ c \in Nat
        BY <1>5, <1>8
      <4>4. QED
        BY <4>1, <4>2, <4>3
    <3>3. QED
      BY <1>2, <3>1, <3>2
  <2>4. st2[NS + 2] = Len(wire') + 1
    <3>1. st[NS + 1] = Len(wire) + 1 /\ Len(wire) \in Nat
      BY <1>1, <1>2, <1>7
    <3>2. Len(wire') = Len(wire) + 4 + c /\ c \in Nat
      BY <1>5, <1>8
    <3>3. QED
      BY <1>13, <3>1, <3>2
  <2>5. Len(dec') \in 0..(NS + 1) /\ rp' = st2[Len(dec') + 1]
    BY <1>2, <1>7, <1>13 DEF EncodeFrame
  <2>6. \A i \in (k + 1)..(NS + 1) : wire'[st2[i]].h \in {<<>>, FrameAt(i)'[1].h}
    <3> SUFFICES ASSUME NEW i \in (k + 1)..(NS + 1)
                 PROVE  wire'[st2[i]].h \in {<<>>, FrameAt(i)'[1].h}
      OBVIOUS
    <3>1. CASE i <= NS
      <4>1. i \in 1..NS /\ i \in (k + 1)..NS
        BY <1>2, <1>7, <3>1
      <4>2. st2[i] = st[i] /\ st[i] \in 1..Len(wire)
        BY <1>1, <1>13, <4>1 DEF Layout
      <4>3. wire[st[i]].h \in {<<>>, FrameAt(i)[1].h}
        BY <1>1, <4>1 DEF Layout
      <4>4. wire'[st2[i]] = wire[st[i]] /\ FrameAt(i)' = FrameAt(i)
        BY <1>8, <1>10, <4>1, <4>2
      <4>5. QED
        BY <4>3, <4>4
    <3>2. CASE i = NS + 1
      <4>1. st2[i] = Len(wire) + 1
        BY <1>2, <1>7, <1>13, <3>2
      <4>2. QED
        BY <1>6, <1>8, <1>11, <3>2, <4>1
    <3>3. QED
      BY <1>2, <1>7, <3>1, <3>2
  <2>7. NS' = NS + 1 /\ Len(dec') = k /\ Len(wire') \in Nat
    BY <1>2, <1>5, <1>8, <1>9 DEF EncodeFrame
  <2>7a. st2[NS' + 1] = Len(wire') + 1
    <3>1. NS' + 1 = NS + 2
      BY <1>2, <2>7
    <3>2. QED
      BY <2>4, <3>1
  <2>8. \A i \in 1..NS' : st2[i + 1] = st2[i] + 4 + Len(sent'[i].out)
    BY <2>2, <2>7
  <2>9. \A i \in 1..NS' : st2[i] \in 1..Len(wire')
    BY <2>3, <2>7
  <2>10. st2[NS' + 1] \in 1..(Len(wire') + 1)
    BY <2>7, <2>7a
  <2>11. wst' = "run" => Len(wire') = st2[NS' + 1] - 1
    BY <2>7, <2>7a
  <2>12. \A i \in (Len(dec') + 1)..NS' : wire'[st2[i]].h \in {<<>>, FrameAt(i)'[1].h}
    BY <2>6, <2>7
  <2>13. ~(st2[NS' + 1] <= Len(wire'))
    BY <2>7, <2>7a
  <2>14. Len(dec') \in 0..NS' /\ rp' = st2[Len(dec') + 1]
    BY <2>5, <2>7
  <2>15. QED
    BY <2>1, <2>8, <2>9, <2>10, <2>11, <2>12, <2>13, <2>14 DEF Layout
<1>15. TypeOK'
  <2>1. w' \in 1..(Len(blocks') + 1)
    BY <1>3 DEF EncodeFrame
  <2>2. rp' \in 1..(Len(wire') + 1)
    <3>1. rp \in 1..(Len(wire) + 1) /\ Len(wire) \in Nat
      BY <1>2 DEF TypeOK
    <3>2. QED
      BY <1>5, <1>8, <3>1 DEF EncodeFrame
  <2>3. dec' \in Seq(0..Len(blocks')) /\ blocks' \in Seq(Nat) /\ mode' \in Methods
    BY <1>2 DEF TypeOK, EncodeFrame
  <2>4. /\ wst' \in {"run", "failed"} /\ faults' \in 0..MaxFaults
        /\ rst' \in {"run", "err", "panic"}
    BY <1>2 DEF TypeOK, EncodeFrame
  <2>5. QED
    BY <2>1, <2>2, <2>3, <2>4 DEF TypeOK
<1>16. NoCorruptAccept'
  BY <1>2, <1>7, <1>9 DEF NoCorruptAccept, EncodeFrame, NS
<1>17. QED
  <2>1. st2 \in [1..(NS' + 1) -> Nat]
    BY <1>2, <1>9, <1>13
  <2>2. (\E st3 \in [1..(NS + 1) -> Nat] : Layout(st3))'
    BY <1>14, <2>1
  <2>3. QED
    BY <1>8, <1>12, <1>15, <1>16, <2>2 DEF IInv


\* Every step of writer, transport or reader keeps the invariant, and so
\* does a step that changes none of the variables.
LEMMA NextIInv ==
  ASSUME IInv, [Next]_vars
  PROVE  IInv'
<1>1. CASE EncodeFrame
  BY <1>1, EncodeFrameIInv
<1>2. CASE EncodeNone
  BY <1>2, EncodeNoneIInv
<1>3. CASE CompressFail
  BY <1>3, CompressFailIInv
<1>4. CASE WriteFail
  BY <1>4, WriteFailIInv
<1>5. CASE Corrupt
  BY <1>5, CorruptIInv
<1>6. CASE ReadEof \/ RejectMethod \/ RejectSize \/ RejectChecksum
  <2>1. Fail("err")
    BY <1>6 DEF ReadEof, RejectMethod, RejectSize, RejectChecksum
  <2>2. QED
    BY <2>1, FailIInv
<1>7. CASE ShortPanic
  <2>1. Fail("panic")
    BY <1>7 DEF ShortPanic
  <2>2. QED
    BY <2>1, FailIInv
<1>8. CASE Decode
  BY <1>8, DecodeIInv
<1>9. CASE UNCHANGED vars
  <2>1. PICK st \in [1..(NS + 1) -> Nat] : Layout(st)
    BY DEF IInv
  <2>2. (TypeOK /\ NoCorruptAccept /\ wire \in Seq(Token) /\ SentOk)'
    BY <1>9 DEF IInv, vars, TypeOK, NoCorruptAccept, SentOk, NS
  <2>3. Layout(st)'
    BY <1>9, <2>1 DEF vars, Layout, NS, FrameAt
  <2>4. QED
    BY <1>9, <2>1, <2>2, <2>3 DEF IInv, vars, NS
<1>10. QED
  BY <1>1, <1>2, <1>3, <1>4, <1>5, <1>6, <1>7, <1>8, <1>9 DEF Next

\* IInv holds in every state the codec reaches.
LEMMA IInvInvariant == Spec => []IInv
<1>1. Init => IInv
  BY InitIInv
<1>2. IInv /\ [Next]_vars => IInv'
  BY NextIInv
<1>3. QED
  BY <1>1, <1>2, PTL DEF Spec

-----------------------------------------------------------------------------
(* Theorems                                                                *)

\* Writer, transport and reader keep every variable within its type: in
\* particular the reader's cursor never passes the end of the wire, and the
\* transport corrupts no more than MaxFaults tokens.
THEOREM TypeCorrect == Spec => []TypeOK
<1>1. IInv => TypeOK
  BY DEF IInv
<1>2. QED
  BY <1>1, IInvInvariant, PTL

\* decompress_data_async never returns a block other than the one
\* compress_data wrote at that place in the stream, however many tokens the
\* transport corrupts, for every width of the size fields and every pair of
\* reader limits: a checksum that matches fixes the frame.
THEOREM NoCorruptAcceptCorrect == Spec => []NoCorruptAccept
<1>1. IInv => NoCorruptAccept
  BY DEF IInv
<1>2. QED
  BY <1>1, IInvInvariant, PTL

=============================================================================
