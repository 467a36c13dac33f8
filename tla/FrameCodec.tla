------------------------------ MODULE FrameCodec ------------------------------
(***************************************************************************)
(* The frame codec of src/clickhouse-arrow/src/compression.rs end to end:  *)
(* a writer encoding blocks with compress_data (and its _sync and _pooled  *)
(* copies), a transport that may corrupt what it carries, and a reader     *)
(* decoding frame after frame with decompress_data_async.                  *)
(*                                                                         *)
(* The wire is a sequence of tokens [kind, n, h]: the 16 checksum bytes    *)
(* are one "ck" token, the method byte and the two u32 sizes one token     *)
(* each, and every payload byte a "z" token naming its block.  CityHash-128 *)
(* is taken as injective: a "ck" token holds, in h, the very tokens it was *)
(* computed over, and the reader's comparison succeeds iff it re-reads     *)
(* exactly those.  The compressors are abstracted to the length of their   *)
(* output, and decompression succeeds on a genuine payload iff the        *)
(* declared decompressed_size is at least the block's length (lz4_flex and *)
(* zstd::bulk take it as the output capacity).  A payload with a corrupted *)
(* byte of the right length decodes to garbage, as a corrupted LZ4 literal *)
(* does.                                                                   *)
(***************************************************************************)
EXTENDS Naturals, Sequences

CONSTANTS
    Blocks,           \* the sequences of raw block lengths a writer may send
    Methods,          \* the CompressionMethods a connection may use
    SizeBits,         \* width of the size fields (u32: 32)
    MaxCompressed,    \* the reader's limit on compressed_size (100_000_000)
    MaxDecompressed,  \* the reader's limit on decompressed_size (1_000_000_000)
    MaxFaults         \* the most tokens the transport corrupts

\* The 9 bytes of method and sizes that compressed_size counts.
Header == 9

ASSUME ConstantsAssumption ==
    /\ Blocks \subseteq Seq(Nat)
    /\ Methods \subseteq {"LZ4", "ZSTD", "NONE"}
    /\ SizeBits \in Nat \ {0}
    /\ Header <= MaxCompressed /\ MaxCompressed < 2^SizeBits
    /\ MaxDecompressed \in Nat /\ MaxDecompressed < 2^SizeBits
    /\ MaxFaults \in Nat

\* CompressionMethod::byte()
MethodByte(m) == CASE m = "LZ4" -> 130 [] m = "ZSTD" -> 144 [] m = "NONE" -> 2

\* `n as u32`
AsU32(n) == n % 2^SizeBits

\* The lengths the compressor's output for n raw bytes may have: fully
\* compressible (an LZ4 block is never empty), half, and incompressible.
CompressedLens(n) == {1, (n + 2) \div 2, n + 1}

Tok(kind, n, h) == [kind |-> kind, n |-> n, h |-> h]

\* `out`: the compressed payload of block k, c bytes.
Out(k, c) == [i \in 1..c |-> Tok("z", k, <<>>)]

\* new_out = method ‖ u32(out.len + 9) ‖ u32(raw.len) ‖ out, preceded by
\* the CityHash-128 of new_out.
Frame(m, k, n, c) ==
    LET newOut == <<Tok("method", MethodByte(m), <<>>),
                    Tok("csize", AsU32(c + Header), <<>>),
                    Tok("dsize", AsU32(n), <<>>)>> \o Out(k, c)
    IN  <<Tok("ck", 0, newOut)>> \o newOut

VARIABLES
    blocks,  \* the raw block lengths the writer sends, in order
    mode,    \* the connection's CompressionMethod
    w,       \* the next block the writer encodes
    wst,     \* "run", or "failed" once a compress or a write returned Err
    sent,    \* the frames written whole: block, raw length, payload
    wire,    \* the tokens on the transport
    faults,  \* tokens corrupted so far
    rp,      \* the reader's position in wire
    dec,     \* the blocks the reader got back (0: bytes no block had)
    rst      \* the reader: "run", "err" (an Err returned), "panic"

vars == <<blocks, mode, w, wst, sent, wire, faults, rp, dec, rst>>

Init ==
    /\ blocks \in Blocks
    /\ mode \in Methods
    /\ w = 1
    /\ wst = "run"
    /\ sent = <<>>
    /\ wire = <<>>
    /\ faults = 0
    /\ rp = 1
    /\ dec = <<>>
    /\ rst = "run"

-----------------------------------------------------------------------------
(* The writer: compress_data(writer, raw, compression) per block.          *)

WriterBusy == wst = "run" /\ w <= Len(blocks)

\* Mutant: compressed_size written as out.len(), without the 9 header bytes.
EncodeFrameNoHeader ==
    /\ WriterBusy
    /\ mode # "NONE"
    /\ \E c \in CompressedLens(blocks[w]) :
       /\ wire' = wire \o [Frame(mode, w, blocks[w], c) EXCEPT ![3].n = AsU32(c),
                                                             ![1].h[2].n = AsU32(c)]
       /\ sent' = Append(sent, [blk |-> w, raw |-> blocks[w], out |-> Out(w, c)])
    /\ w' = w + 1
    /\ UNCHANGED <<blocks, mode, wst, faults, rp, dec, rst>>

\* The block is compressed to some c bytes, the header assembled with both sizes
\* cast to u32, and checksum, header and payload written.
EncodeFrame ==
    /\ WriterBusy
    /\ mode # "NONE"
    /\ \E c \in CompressedLens(blocks[w]) :
       /\ wire' = wire \o Frame(mode, w, blocks[w], c)
       /\ sent' = Append(sent, [blk |-> w, raw |-> blocks[w], out |-> Out(w, c)])
    /\ w' = w + 1
    /\ UNCHANGED <<blocks, mode, wst, faults, rp, dec, rst>>

\* CompressionMethod::None: Ok(()) with nothing written (the caller sends
\* the raw bytes some other way).
EncodeNone ==
    /\ WriterBusy
    /\ mode = "NONE"
    /\ w' = w + 1
    /\ UNCHANGED <<blocks, mode, wst, sent, wire, faults, rp, dec, rst>>

\* zstd::bulk::compress returns Err: SerializeError, nothing written.
CompressFail ==
    /\ WriterBusy
    /\ mode = "ZSTD"
    /\ wst' = "failed"
    /\ UNCHANGED <<blocks, mode, w, sent, wire, faults, rp, dec, rst>>

\* A write_u64_le or the write_all fails after some j tokens of the frame went
\* out: the `?` returns the Err and the frame is left partial.
WriteFail ==
    /\ WriterBusy
    /\ mode # "NONE"
    /\ \E c \in CompressedLens(blocks[w]) :
       \E j \in 0..(Len(Frame(mode, w, blocks[w], c)) - 1) :
          wire' = wire \o SubSeq(Frame(mode, w, blocks[w], c), 1, j)
    /\ wst' = "failed"
    /\ UNCHANGED <<blocks, mode, w, sent, faults, rp, dec, rst>>

-----------------------------------------------------------------------------
(* The transport flips bits of a token the reader has not read yet.       *)

Corruptions(t) ==
    CASE t.kind = "ck"     -> {Tok("ck", 0, <<>>)}
      [] t.kind = "method" -> {Tok("method", (t.n + 1) % 256, <<>>)}
      [] t.kind \in {"csize", "dsize"} ->
             {Tok(t.kind, (t.n + 1) % 2^SizeBits, <<>>),
              Tok(t.kind, (t.n + 2^SizeBits - 1) % 2^SizeBits, <<>>)}
      [] OTHER             -> {Tok("bad", t.n, <<>>)}

Corrupt ==
    /\ faults < MaxFaults
    /\ \E p \in rp..Len(wire) :
          \E t \in Corruptions(wire[p]) : wire' = [wire EXCEPT ![p] = t]
    /\ faults' = faults + 1
    /\ UNCHANGED <<blocks, mode, w, wst, sent, rp, dec, rst>>

-----------------------------------------------------------------------------
(* The reader: decompress_data_async(reader, mode) once per frame.         *)

\* Tokens not yet read; the writer will add no more.
Avail == Len(wire) - rp + 1
WriterIdle == ~WriterBusy

MethodOk == wire[rp + 1].n = MethodByte(mode)
CSize == wire[rp + 2].n
DSize == wire[rp + 3].n
SizesOk == CSize <= MaxCompressed /\ DSize <= MaxDecompressed
\* vec![0; compressed_size] and read_exact(&mut compressed[9..])
Whole == CSize >= Header /\ Avail >= 4 + CSize - Header
Payload == SubSeq(wire, rp + 4, rp + 3 + CSize - Header)
\* compressed[0..9] rebuilt from the fields read, followed by the payload
Checked == SubSeq(wire, rp + 1, rp + 3) \o Payload

\* lz4_flex::decompress / zstd::bulk::decompress(payload, decompressed_size)
Decompress(payload, dsize) ==
    IF mode = "NONE" THEN [ok |-> FALSE]
    ELSE IF \E i \in 1..Len(sent) : payload = sent[i].out
    THEN LET i == CHOOSE i \in 1..Len(sent) : payload = sent[i].out
         IN  IF sent[i].raw <= dsize THEN [ok |-> TRUE, blk |-> sent[i].blk]
             ELSE [ok |-> FALSE]
    ELSE IF \E i \in 1..Len(sent) : Len(payload) = Len(sent[i].out)
    THEN [ok |-> TRUE, blk |-> 0]
    ELSE [ok |-> FALSE]

Fail(r) ==
    /\ rst' = r
    /\ UNCHANGED <<blocks, mode, w, wst, sent, wire, faults, rp, dec>>

\* A read_u64_le, read_u8, read_u32_le or read_exact hits the end of a
\* stream the writer is done with.
ReadEof ==
    /\ rst = "run"
    /\ WriterIdle
    /\ \/ Avail < 2
       \/ Avail \in 2..3 /\ MethodOk
       \/ Avail >= 4 /\ MethodOk /\ SizesOk /\ CSize >= Header
          /\ Avail < 4 + CSize - Header
    /\ Fail("err")

\* "Unexpected compression algorithm"
RejectMethod ==
    /\ rst = "run"
    /\ Avail >= 2
    /\ ~MethodOk
    /\ Fail("err")

\* "Chunk size too large"
RejectSize ==
    /\ rst = "run"
    /\ Avail >= 4
    /\ MethodOk
    /\ ~SizesOk
    /\ Fail("err")

\* compressed_size < 9: the slice compressed[9..] panics.
ShortPanic ==
    /\ rst = "run"
    /\ Avail >= 4
    /\ MethodOk /\ SizesOk
    /\ CSize < Header
    /\ Fail("panic")

\* "Checksum mismatch"
RejectChecksum ==
    /\ rst = "run"
    /\ Avail >= 4
    /\ MethodOk /\ SizesOk /\ Whole
    /\ wire[rp].h # Checked
    /\ Fail("err")

\* Mutant: the payload is decompressed without comparing checksums.
DecodeUnchecked ==
    /\ rst = "run"
    /\ Avail >= 4
    /\ MethodOk /\ SizesOk /\ Whole
    /\ LET r == Decompress(Payload, DSize) IN
       \/ /\ r.ok
          /\ dec' = Append(dec, r.blk)
          /\ rp' = rp + 4 + CSize - Header
          /\ UNCHANGED <<blocks, mode, w, wst, sent, wire, faults, rst>>
       \/ ~r.ok /\ Fail("err")

\* Mutant: the cursor also skips 9 header bytes the frame does not repeat.
DecodeSkipsHeader ==
    /\ rst = "run"
    /\ Avail >= 4
    /\ MethodOk /\ SizesOk /\ Whole
    /\ wire[rp].h = Checked
    /\ LET r == Decompress(Payload, DSize) IN
       \/ /\ r.ok
          /\ dec' = Append(dec, r.blk)
          /\ rp' = rp + 4 + CSize
          /\ UNCHANGED <<blocks, mode, w, wst, sent, wire, faults, rst>>
       \/ ~r.ok /\ Fail("err")

\* The checksum matches and the payload is decompressed: the block is
\* returned (the frame consumed), or DeserializeError.
Decode ==
    /\ rst = "run"
    /\ Avail >= 4
    /\ MethodOk /\ SizesOk /\ Whole
    /\ wire[rp].h = Checked
    /\ LET r == Decompress(Payload, DSize) IN
       \/ /\ r.ok
          /\ dec' = Append(dec, r.blk)
          /\ rp' = rp + 4 + CSize - Header
          /\ UNCHANGED <<blocks, mode, w, wst, sent, wire, faults, rst>>
       \/ ~r.ok /\ Fail("err")

Next ==
    \/ EncodeFrame \/ EncodeNone \/ CompressFail \/ WriteFail
    \/ Corrupt
    \/ ReadEof \/ RejectMethod \/ RejectSize \/ ShortPanic
    \/ RejectChecksum \/ Decode

Spec == Init /\ [][Next]_vars

-----------------------------------------------------------------------------
(* Properties                                                              *)

TypeOK ==
    /\ blocks \in Seq(Nat)
    /\ mode \in Methods
    /\ w \in 1..(Len(blocks) + 1)
    /\ wst \in {"run", "failed"}
    /\ faults \in 0..MaxFaults
    /\ rp \in 1..(Len(wire) + 1)
    /\ dec \in Seq(0..Len(blocks))
    /\ rst \in {"run", "err", "panic"}

\* The reader never hands back bytes that are not the block written at that
\* place, whatever one token of the stream was corrupted into: the checksum
\* over the rebuilt header and the payload catches every corruption of a
\* frame (spec: a corrupted frame fails to decode).
NoCorruptAccept ==
    \A i \in 1..Len(dec) : i <= Len(sent) /\ dec[i] = sent[i].blk

\* A frame as written fits the reader's limits on both sizes (and so no
\* u32 cast of compress_data cuts it).
FitsLimits(s) == s.raw <= MaxDecompressed /\ Len(s.out) + Header <= MaxCompressed

\* On an intact stream of frames within the reader's limits, a reader that
\* has stopped after the writer finished got back every block written
\* (spec: decode(encode(P)) == P for every payload P).
Delivered ==
    (/\ rst # "run" /\ faults = 0 /\ wst = "run" /\ w > Len(blocks)
     /\ \A i \in 1..Len(sent) : FitsLimits(sent[i])) =>
        /\ rst = "err"
        /\ Len(dec) = Len(sent)

\* No frame on an intact stream makes the reader panic: the spec requires
\* CompressedSize >= 9 of every frame and a protocol error for a bad one,
\* and compress_data returns Ok(()) only for frames it considers good.
NoPanic == faults = 0 => rst # "panic"

=============================================================================
