-------------------------------- MODULE Varint --------------------------------
(***************************************************************************)
(* The varint codec of src/clickhouse-arrow/src/simd.rs: encode_varint,    *)
(* encode_varints_batch and decode_varint, and a consumer decoding the     *)
(* batch one varint at a time.                                             *)
(*                                                                         *)
(* The widths are constants so that the codec can be checked exhaustively  *)
(* on a scaled instance: Group payload bits per byte (7 in the code),      *)
(* Width bits per value (u64: 64) and MaxLen bytes per varint              *)
(* (MAX_VARINT_LEN = 10 = ceil(64 / 7)).  A byte has Group + 1 bits, the   *)
(* top one being the continuation bit (0x80); a u64 is kept % 2^Width.     *)
(***************************************************************************)
EXTENDS Naturals, Sequences

CONSTANTS
    Group,    \* payload bits per byte
    Width,    \* bits of the value type
    MaxLen,   \* MAX_VARINT_LEN
    Batches,  \* the value slices passed to encode_varints_batch
    Received  \* byte strings a caller of the pub decode_varint may pass

ASSUME WidthAssumption ==
    /\ Group \in Nat \ {0}
    /\ Width \in Nat \ {0}
    /\ MaxLen \in Nat \ {0}
    /\ (MaxLen - 1) * Group < Width
    /\ Width <= MaxLen * Group

\* 0x80: the continuation bit, and the number of distinct payloads.
Cont == 2^Group

\* The values of the value type.
Word == 0..(2^Width - 1)

ASSUME BatchesAssumption == Batches \subseteq Seq(Word)
ASSUME ReceivedAssumption == Received \subseteq Seq(0..(2 * Cont - 1))

\* Mutant: the continuation bit is added to the low byte instead of OR-ed.
EncodeVarintPlus(value) ==
    LET e[v \in 0..value] ==
          IF v < Cont THEN <<v>> ELSE <<(v % (2 * Cont)) + Cont>> \o e[v \div Cont]
    IN  e[value]

\* encode_varint(value): the low Group bits with the continuation bit while
\* value >= 0x80, then the last byte.
EncodeVarint(value) ==
    LET e[v \in 0..value] ==
          IF v < Cont THEN <<v>> ELSE <<(v % Cont) + Cont>> \o e[v \div Cont]
    IN  e[value]

\* Mutant: the loop shifts by one bit too few.
DecodeVarintShort(buf) ==
    IF buf = <<>> THEN [ok |-> FALSE]
    ELSE IF buf[1] < Cont THEN [ok |-> TRUE, val |-> buf[1], n |-> 1]
    ELSE LET last == IF Len(buf) < MaxLen THEN Len(buf) ELSE MaxLen
             stops == {i \in 2..last : buf[i] < Cont}
             acc[i \in 1..last] ==
               IF i = 1 THEN buf[1] % Cont
               ELSE (acc[i - 1] + (buf[i] % Cont) * 2^((Group - 1) * (i - 1))) % 2^Width
         IN  IF stops = {} THEN [ok |-> FALSE]
             ELSE LET i == CHOOSE j \in stops : \A k \in stops : j <= k
                  IN  [ok |-> TRUE, val |-> acc[i], n |-> i]

\* decode_varint(buf): None on an empty slice; the one-byte fast path;
\* else up to MaxLen - 1 further bytes (take(9)), each OR-ing its payload
\* in at the next shift (bits past Width are lost by the u64 shift), until
\* a byte without the continuation bit; None if none comes.
DecodeVarint(buf) ==
    IF buf = <<>> THEN [ok |-> FALSE]
    ELSE IF buf[1] < Cont THEN [ok |-> TRUE, val |-> buf[1], n |-> 1]
    ELSE LET last == IF Len(buf) < MaxLen THEN Len(buf) ELSE MaxLen
             stops == {i \in 2..last : buf[i] < Cont}
             acc[i \in 1..last] ==
               IF i = 1 THEN buf[1] % Cont
               ELSE (acc[i - 1] + (buf[i] % Cont) * 2^(Group * (i - 1))) % 2^Width
         IN  IF stops = {} THEN [ok |-> FALSE]
             ELSE LET i == CHOOSE j \in stops : \A k \in stops : j <= k
                  IN  [ok |-> TRUE, val |-> acc[i], n |-> i]

VARIABLES
    batch,  \* the values passed to encode_varints_batch
    out,    \* the output Vec
    dec,    \* the values the consumer has decoded
    rd,     \* the consumer's position in out
    pc      \* "encode", "decode", "done" (None returned)

vars == <<batch, out, dec, rd, pc>>

Init ==
    /\ batch \in Batches
    /\ out = <<>>
    /\ dec = <<>>
    /\ rd = 1
    /\ pc = "encode"

\* encode_varints_batch: every value's encoding appended in order.
EncodeVarintsBatch ==
    LET enc[k \in 0..Len(batch)] ==
          IF k = 0 THEN <<>> ELSE enc[k - 1] \o EncodeVarint(batch[k])
    IN  /\ pc = "encode"
        /\ out' = out \o enc[Len(batch)]
        /\ pc' = "decode"
        /\ UNCHANGED <<batch, dec, rd>>

\* The consumer calls decode_varint on the rest of the output.
DecodeNext ==
    LET r == DecodeVarint(SubSeq(out, rd, Len(out))) IN
    /\ pc = "decode"
    /\ \/ /\ r.ok
          /\ dec' = Append(dec, r.val)
          /\ rd' = rd + r.n
          /\ UNCHANGED pc
       \/ /\ ~r.ok
          /\ pc' = "done"
          /\ UNCHANGED <<dec, rd>>
    /\ UNCHANGED <<batch, out>>

Next == EncodeVarintsBatch \/ DecodeNext

\* The consumer stops at the first None.
Spec == Init /\ [][Next]_vars

\* A consumer decoding bytes that came from elsewhere (decode_varint is pub).
PeerInit ==
    /\ batch = <<>>
    /\ out \in Received
    /\ dec = <<>>
    /\ rd = 1
    /\ pc = "decode"

PeerSpec == PeerInit /\ [][DecodeNext]_vars

-----------------------------------------------------------------------------
(* Properties                                                              *)

TypeOK ==
    /\ batch \in Seq(Word)
    /\ out \in Seq(0..(2 * Cont - 1))
    /\ dec \in Seq(Word)
    /\ rd \in 1..(Len(out) + 1)
    /\ pc \in {"encode", "decode", "done"}

\* Decoding the batch's output gives back the batch: every value decoded so
\* far is the value encoded at that place, and the decoder stops exactly at
\* the end of the output, all values decoded (spec: varint round trip).
RoundTrip ==
    /\ dec = SubSeq(batch, 1, Len(dec))
    /\ pc = "done" => (dec = batch /\ rd = Len(out) + 1)

\* The number a varint's bytes denote, without truncation.
Denoted(buf, n) ==
    LET s[i \in 0..n] == IF i = 0 THEN 0 ELSE s[i - 1] + (buf[i] % Cont) * 2^(Group * (i - 1))
    IN  s[n]

\* decode_varint returns a value only for a varint whose number fits the
\* value type; one that does not is "borked" and yields None (the doc
\* comment of decode_varint): the consumer's next call never returns a
\* truncated number.
RejectsOverflow ==
    LET buf == SubSeq(out, rd, Len(out))
        r == DecodeVarint(buf)
    IN  (pc = "decode" /\ r.ok) => Denoted(buf, r.n) < 2^Width

=============================================================================
