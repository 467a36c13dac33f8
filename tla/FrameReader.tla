----------------------------- MODULE FrameReader -----------------------------
(***************************************************************************)
(* The streaming decompressor of src/clickhouse-arrow/src/compression.rs:  *)
(* DecompressionReader::poll_read driving decompress_data_async, one frame *)
(* at a time, over the inner stream of compressed frames.                  *)
(*                                                                         *)
(* A frame on the wire is abstracted to its kind (which check of           *)
(* decompress_data_async it fails, if any) and the length of its decoded   *)
(* payload; byte j of the payload of frame i is the value <<i, j>>, so the *)
(* order of the delivered bytes is observable.  The decode is split at its *)
(* await points: the two checksum halves, the method byte, the two sizes,  *)
(* and the payload.  The &mut R inner stream is held either by the reader  *)
(* (inner) or by the boxed future (fut); a failed future drops it.        *)
(***************************************************************************)
EXTENDS Naturals, Sequences

CONSTANTS
    Wires,    \* the frame sequences the server may send
    MaxRead   \* the largest buf.remaining() a caller passes

\* Which check of decompress_data_async a frame fails: "ok" passes all of
\* them, "badmethod" line 142, "toolarge" line 158, "short" has
\* compressed_size < 9, "badsum" line 174, "codecerr" lines 183-188.
Kinds == {"ok", "badmethod", "toolarge", "short", "badsum", "codecerr"}

Frame == [kind : Kinds, len : Nat]

ASSUME WiresAssumption == Wires \subseteq Seq(Frame)
ASSUME MaxReadAssumption == MaxRead \in Nat

VARIABLES
    wire,      \* the frames of the inner stream
    fr,        \* the frame the inner stream's cursor is in
    fld,       \* the fields of frame fr already consumed (0..5)
    inner,     \* self.inner is Some
    fut,       \* self.block_reading_future is Some
    bf,        \* the frame whose payload is in self.decompressed
    position,  \* self.position
    out,       \* every byte poll_read has put into the callers' buffers
    pc,        \* "idle" between calls, "polling" inside poll_read's poll of
               \* the future, "panicked", or "dropped"
    req,       \* buf.remaining() of the current call
    res        \* what the last poll_read returned

vars == <<wire, fr, fld, inner, fut, bf, position, out, pc, req, res>>

\* The decoded payload of frame i.
Payload(i) == [j \in 1..wire[i].len |-> <<i, j>>]

\* The payloads of frames 1..n, concatenated.
Payloads(n) ==
    LET f[i \in 0..n] == IF i = 0 THEN <<>> ELSE f[i - 1] \o Payload(i)
    IN  f[n]

MinOf(a, b) == IF a < b THEN a ELSE b

\* self.decompressed.len() - self.position
Available(b, p) == Len(Payload(b)) - p

-----------------------------------------------------------------------------
(* DecompressionReader::new: the first frame is decoded eagerly; a reader  *)
(* exists only if that succeeded.                                          *)

Init ==
    /\ wire \in {w \in Wires : Len(w) > 0 /\ w[1].kind = "ok"}
    /\ fr = 2
    /\ fld = 0
    /\ inner = TRUE
    /\ fut = FALSE
    /\ bf = 1
    /\ position = 0
    /\ out = <<>>
    /\ pc = "idle"
    /\ req = 0
    /\ res = "empty"

\* Mutant: a new frame decode is issued while bytes of the current one
\* remain unserved.
DispatchEager(b, p, h, k) ==
    \/ /\ Available(b, p) > 0
       /\ out' = out \o SubSeq(Payload(b), p + 1, p + MinOf(Available(b, p), k))
       /\ position' = p + MinOf(Available(b, p), k)
       /\ inner' = h /\ fut' = FALSE /\ pc' = "idle" /\ res' = "ready"
    \/ /\ h
       /\ position' = p /\ inner' = FALSE /\ fut' = TRUE /\ pc' = "polling"
       /\ UNCHANGED <<out, res>>
    \/ /\ Available(b, p) = 0 /\ ~h
       /\ position' = p /\ inner' = h /\ fut' = FALSE /\ pc' = "idle"
       /\ res' = "eof" /\ UNCHANGED out

\* poll_read after the pending future has been dealt with, self.decompressed
\* being Payload(b), self.position p and self.inner present iff h: serve
\* what is available, else take inner and issue the next frame decode (the
\* recursive poll_read polls it at once), else report EOF.
Dispatch(b, p, h, k) ==
    \/ /\ Available(b, p) > 0
       /\ out' = out \o SubSeq(Payload(b), p + 1, p + MinOf(Available(b, p), k))
       /\ position' = p + MinOf(Available(b, p), k)
       /\ inner' = h /\ fut' = FALSE /\ pc' = "idle" /\ res' = "ready"
    \/ /\ Available(b, p) = 0 /\ h
       /\ position' = p /\ inner' = FALSE /\ fut' = TRUE /\ pc' = "polling"
       /\ UNCHANGED <<out, res>>
    \/ /\ Available(b, p) = 0 /\ ~h
       /\ position' = p /\ inner' = h /\ fut' = FALSE /\ pc' = "idle"
       /\ res' = "eof" /\ UNCHANGED out

\* Mutant: the future is polled whether or not one is pending.
CallUnchecked(k) ==
    /\ pc = "idle"
    /\ req' = k
    /\ \/ /\ k = 0
          /\ res' = "empty"
          /\ UNCHANGED <<fr, fld, inner, fut, bf, position, out, pc>>
       \/ /\ k > 0
          /\ pc' = "polling"
          /\ UNCHANGED <<fr, fld, inner, fut, bf, position, out, res>>
       \/ /\ k > 0 /\ ~fut
          /\ Dispatch(bf, position, inner, k)
          /\ UNCHANGED <<fr, fld, bf>>
    /\ UNCHANGED wire

\* A caller polls with buf.remaining() = k.  An empty buffer returns at
\* once; a pending future is polled; otherwise the reader dispatches.
Call(k) ==
    /\ pc = "idle"
    /\ req' = k
    /\ \/ /\ k = 0
          /\ res' = "empty"
          /\ UNCHANGED <<fr, fld, inner, fut, bf, position, out, pc>>
       \/ /\ k > 0 /\ fut
          /\ pc' = "polling"
          /\ UNCHANGED <<fr, fld, inner, fut, bf, position, out, res>>
       \/ /\ k > 0 /\ ~fut
          /\ Dispatch(bf, position, inner, k)
          /\ UNCHANGED <<fr, fld, bf>>
    /\ UNCHANGED wire

\* The inner stream's next read is not ready: poll_read returns Pending.
Pending ==
    /\ pc = "polling"
    /\ pc' = "idle"
    /\ res' = "pending"
    /\ UNCHANGED <<wire, fr, fld, inner, fut, bf, position, out, req>>

\* The future completes with Err: it is dropped, and the inner stream it
\* owned with it; poll_read returns InvalidData.
Fail ==
    /\ fut' = FALSE
    /\ pc' = "idle"
    /\ res' = "err"
    /\ UNCHANGED <<wire, inner, bf, position, out, req>>

\* A header field is read and passes its check.
ReadHeaderField ==
    /\ pc = "polling"
    /\ fr <= Len(wire)
    /\ fld < 5
    /\ ~(fld = 2 /\ wire[fr].kind = "badmethod")
    /\ ~(fld = 4 /\ wire[fr].kind \in {"toolarge", "short"})
    /\ fld' = fld + 1
    /\ UNCHANGED <<wire, fr, inner, fut, bf, position, out, pc, req, res>>

\* The method byte differs from the reader's mode, or a size is over the
\* sanity limits: Err(Protocol) after the field has been consumed.
RejectHeader ==
    /\ pc = "polling"
    /\ fr <= Len(wire)
    /\ \/ fld = 2 /\ wire[fr].kind = "badmethod"
       \/ fld = 4 /\ wire[fr].kind = "toolarge"
    /\ fld' = fld + 1
    /\ UNCHANGED fr
    /\ Fail

\* compressed_size < 9 passes the sanity check; vec![0; compressed_size]
\* is then sliced at [9..], which panics inside poll_read.
ShortFramePanic ==
    /\ pc = "polling"
    /\ fr <= Len(wire)
    /\ fld = 4
    /\ wire[fr].kind = "short"
    /\ fld' = 5
    /\ pc' = "panicked"
    /\ res' = "panic"
    /\ UNCHANGED <<wire, fr, inner, fut, bf, position, out, req>>

\* The payload is read, then the checksum or the codec rejects it.
RejectPayload ==
    /\ pc = "polling"
    /\ fr <= Len(wire)
    /\ fld = 5
    /\ wire[fr].kind \in {"badsum", "codecerr"}
    /\ fr' = fr + 1
    /\ fld' = 0
    /\ Fail

\* Mutant: the new value is installed without resetting self.position.
FrameDoneStale ==
    /\ pc = "polling"
    /\ fr <= Len(wire)
    /\ fld = 5
    /\ wire[fr].kind = "ok"
    /\ fr' = fr + 1
    /\ fld' = 0
    /\ bf' = fr
    /\ Dispatch(fr, position, TRUE, req)
    /\ UNCHANGED <<wire, req>>

\* Mutant: the inner stream handed back by the future is not kept.
FrameDoneLosesInner ==
    /\ pc = "polling"
    /\ fr <= Len(wire)
    /\ fld = 5
    /\ wire[fr].kind = "ok"
    /\ fr' = fr + 1
    /\ fld' = 0
    /\ bf' = fr
    /\ Dispatch(fr, 0, FALSE, req)
    /\ UNCHANGED <<wire, req>>

\* The payload is read and decoded: the future yields (value, inner), the
\* reader installs the value at position 0, takes inner back, and falls
\* through to serve (lines 234-240, then 251-274).
FrameDone ==
    /\ pc = "polling"
    /\ fr <= Len(wire)
    /\ fld = 5
    /\ wire[fr].kind = "ok"
    /\ fr' = fr + 1
    /\ fld' = 0
    /\ bf' = fr
    /\ Dispatch(fr, 0, TRUE, req)
    /\ UNCHANGED <<wire, req>>

\* The inner stream has ended: read_u64_le of the checksum fails.
EndOfStream ==
    /\ pc = "polling"
    /\ fr > Len(wire)
    /\ UNCHANGED <<fr, fld>>
    /\ Fail

\* Any read of the inner stream fails with an I/O error mid-frame.
IoError ==
    /\ pc = "polling"
    /\ fr <= Len(wire)
    /\ UNCHANGED <<fr, fld>>
    /\ Fail

\* The steps of the decode that make progress once the I/O is ready.
DecodeStep ==
    \/ ReadHeaderField \/ RejectHeader \/ ShortFramePanic
    \/ RejectPayload \/ FrameDone \/ EndOfStream

Next ==
    \/ \E k \in 0..MaxRead : Call(k)
    \/ Pending
    \/ DecodeStep
    \/ IoError

\* A caller that keeps reading while it is given data, and an inner stream
\* whose reads complete when polled often enough.
Fairness ==
    /\ WF_vars(\E k \in 1..MaxRead : Call(k))
    /\ SF_vars(DecodeStep)

Spec == Init /\ [][Next]_vars /\ Fairness

\* The caller drops the reader between two polls (a select! or a timeout
\* cancelling the read); the &mut R inner stream is the caller's again.
Drop ==
    /\ pc = "idle"
    /\ pc' = "dropped"
    /\ UNCHANGED <<wire, fr, fld, inner, fut, bf, position, out, req, res>>

\* The same reader, for a caller that may cancel it.
CancelSpec == Init /\ [][Next \/ Drop]_vars

-----------------------------------------------------------------------------
(* Refinement: the reader implements ByteStream.  The data it stands for   *)
(* are the payloads of the frames before the first one that fails a       *)
(* check; it has ended once the inner stream is gone (a decode failed and *)
(* dropped it) or the task panicked.                                      *)

\* The number of frames before the first that fails a check.
LeadingOk ==
    CHOOSE n \in 0..Len(wire) :
        /\ \A i \in 1..n : wire[i].kind = "ok"
        /\ n < Len(wire) => wire[n + 1].kind # "ok"

Stream == INSTANCE ByteStream WITH
    data <- Payloads(LeadingOk),
    got <- out,
    ended <- (~inner /\ ~fut) \/ pc = "panicked"

-----------------------------------------------------------------------------
(* Properties                                                              *)

\* The type invariant; the &mut R is held by the reader or by its future,
\* never both, and the future is polled only when there is one.
TypeOK ==
    /\ wire \in Seq(Frame)
    /\ fr \in 1..(Len(wire) + 1)
    /\ fld \in 0..5
    /\ inner \in BOOLEAN /\ fut \in BOOLEAN
    /\ ~(inner /\ fut)
    /\ pc = "polling" => fut
    /\ bf \in 1..(fr - 1)
    /\ position \in 0..Len(Payload(bf))
    /\ out \in Seq(Nat \X Nat)
    /\ pc \in {"idle", "polling", "panicked", "dropped"}
    /\ req \in 0..MaxRead
    /\ res \in {"empty", "ready", "pending", "err", "eof", "panic"}

\* The bytes poll_read has delivered, followed by the unread rest of
\* self.decompressed, are exactly the payloads of the frames decoded so far,
\* in stream order, and each of those frames passed every check: no byte is
\* lost, repeated or reordered across frame boundaries and calls of any
\* size (the "concatenation of all decompressed frames" of the reader).
StreamIntegrity ==
    /\ \A i \in 1..bf : wire[i].kind = "ok"
    /\ out \o SubSeq(Payload(bf), position + 1, Len(Payload(bf))) = Payloads(bf)

\* When poll_read reports an error, every byte of the frames decoded before
\* it has already been served: a new frame decode is only issued once the
\* current one is drained.
ErrorAfterDrain ==
    res = "err" => position = Len(Payload(bf))

\* A caller that keeps reading eventually gets an error or a panic: the
\* stream of frames is finite, and the reader never stalls on a frame, an
\* empty one included.
Terminates ==
    <>(res = "err" \/ pc = "panicked")

\* An error is terminal: after poll_read has failed, later non-empty reads
\* fail as well rather than report a clean end of stream.
ErrorIsTerminal ==
    [][(res = "err" /\ res' # "err") => res' \in {"empty", "pending"}]_vars

\* poll_read behaves as the abstract byte stream: every call that fills
\* the caller's buffer continues exactly where the previous one stopped,
\* with at most buf.remaining() bytes of the frames decoded in order, and
\* no byte is served once a decode has failed or panicked.
StreamSpec == Stream!Spec

\* A dropped reader leaves the inner stream at a frame boundary, or the
\* stream has already failed.
CancelAtBoundary ==
    pc = "dropped" => (fld = 0 \/ (~inner /\ ~fut))

=============================================================================
