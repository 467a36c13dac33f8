# Formal models of clickhouse-arrow's codec layer

TLA+ models of the parts of `src/clickhouse-arrow` whose control is hard
to test, checked with TLC on small instances and, where possible, proved
with TLAPS for every value of the constants.

## The system and its parts

clickhouse-arrow is a ClickHouse client that speaks the native protocol.
Its codec layer consists of the following parts.

- **Sparse columns** (`native/sparse.rs`). For every granule of a sparse
  column, the server sends a stream of VarUInt group sizes.
  `read_sparse_offsets` (async) and `read_sparse_offsets_sync` turn one
  granule into the row positions of its non-default values that fall
  inside the caller's window. They carry a `SparseDeserializeState`
  between calls. `expand_sparse_array` then builds the dense column,
  dispatching on the Arrow data type to one of five per-type loops.
- **Compressed frames** (`compression.rs`).
  - `decompress_data_async` reads one frame: a 16-byte checksum, the method
    byte, the two sizes and the payload. It checks each one, then
    decompresses.
  - `DecompressionReader` is an `AsyncRead` that decodes frame after frame.
    Inside `poll_read`, the `&mut R` inner stream is moved into a boxed
    future and back out of it.
  - `compress_data`, `compress_data_sync` and `compress_data_pooled`
    write frames: the same code on three buffer types.
- **Buffer pool** (`simd.rs` 336-532). `BufferPool` has five tiers, each a
  `Mutex<VecDeque<Vec<u8>>>`. A global `BUFFER_POOL` is shared by all
  threads. A `PooledBuffer` handle gets its buffer from that pool and
  returns it on drop.
- **Null bitmaps** (`simd.rs` 14-196, `arrow/serialize/null.rs`).
  - `expand_null_bitmap` turns Arrow's packed validity bits into
    ClickHouse's one-byte-per-row null mask. It has scalar, AVX2 and NEON
    paths.
  - `prepare_null_bitmap`, `serialize_nulls[_async]` and
    `write_nullable_vectored` write the mask of each column. The mask is
    built in a `PooledBuffer`.
- **Varints** (`simd.rs` 209-270): `encode_varint`,
  `encode_varints_batch` and `decode_varint`.
- Not modelled: the byte and UUID swaps, the error types, the HTTP client, the Python bindings,
  and the benches and tests (see the last section).

These parts interact as follows:
- the null-mask writer allocates through the buffer pool;
- every native-protocol read, including the sparse offsets, goes through
  `DecompressionReader` when compression is on;
- the frames `compress_data*` writes are the frames
  `decompress_data_async` reads. `FrameCodec` composes the two, with a
  transport between them that may corrupt a token.

The other models are checked on their own. None of their properties
depends on another component: the writer only needs *some* zeroed buffer
of `len` bytes, and the sparse reader only needs the varints in order.

## Modules

| Module | Models | State | Actions |
|---|---|---|---|
| `SparseOffsets` | sparse.rs 20-345 | `wire` (the group sizes, each `[run, eog]`), `cur` (the read cursor), `st` (`SparseDeserializeState`), `pos` (`current_position`), `offs`, `want` (`num_rows`), `pc`, `call` (the state at call entry) | `Begin(n)`: prologue, lines 41-55. `ReadValueInWindow`: 79-82. `ReadValueBeyondWindow`: 83-88. `ReadEnd`: 71-77. `ReadFail`: the `?` at 62. `ExpandWith` is the cursor walk all five `expand_*` loops share, as a recursive function; `ExpandPrimitive`, `ExpandString`, `ExpandBinary`, `ExpandBoolean` and `ExpandFixedSizeBinary` give it their type's default, and `ExpandSparseArray` dispatches on `DataTypes` or returns `Unimplemented`. They are used by the properties. |
| `FrameReader` | compression.rs 122-276 | `wire` (frames as `[kind, len]`), `fr`/`fld` (the inner stream's cursor: frame and header field), `inner`/`fut` (`self.inner` and `self.block_reading_future` are `Some`), `bf`/`position` (`self.decompressed` and `self.position`), `out` (bytes delivered), `req`, `res`, `pc` | `Call(k)`: entry of `poll_read`. `Dispatch`: serve, issue the next decode, or EOF. `Pending`. One step per await of `decompress_data_async`: `ReadHeaderField`, `RejectHeader`, `ShortFramePanic`, `RejectPayload`, `FrameDone`, `EndOfStream`, `IoError`. `Drop`: cancellation. |
| `BufferPool` | simd.rs 344-532 | `pools[t]` (each tier's deque), `cap[b]`, `alive`, `held[th]` (the `PooledBuffer` of each thread), `asked[th]`, `sidx`/`snap` (a `stats()` call in progress) | `GetReuse`, `GetDropSmall`, `GetAllocate`: the three outcomes of `get`. `Grow`: the Vec reallocates through `DerefMut`. `Take`. `Release`: `Drop` → `put`. `PutFresh`: `prewarm` or a direct `put`. `StatsBegin` and `StatsRead` |
| `NullBitmap` | simd.rs 14-196, null.rs 19-133 | `path` (the build's SIMD path), `todo` (the columns still to write), `out` (bytes written), `done` | `SerializeNulls`, `WriteNullableVectored`. The expansions are functions on symbolic bits. |
| `Varint` | simd.rs 209-270 | `batch`, `out`, `dec`, `rd`, `pc` | `EncodeVarintsBatch`; `DecodeNext` (a consumer calling `decode_varint`) |
| `FrameCodec` | compression.rs 25-194 | writer: `blocks`, `mode`, `w` (next block), `wst`, `sent`; transport: `wire` (tokens), `faults`; reader: `rp` (read cursor), `dec` (blocks decoded), `rst` | Writer: `EncodeFrame` (a compressed frame), `EncodeNone` (method None), `CompressFail`, `WriteFail`. Transport: `Corrupt`. Reader, one action per outcome of `decompress_data_async`: `ReadEof`, `RejectMethod`, `RejectSize`, `ShortPanic`, `RejectChecksum`, `Decode`. |
| `ByteStream` | — (the `AsyncRead` contract) | `data`, `got`, `ended` | `Read` (1 to `MaxRead` more bytes), `End`. The abstract specification `FrameReader` implements. |
| `SparseOffsetsProofs` | — | — | TLAPS proofs about `SparseOffsets` |
| `BufferPoolProofs` | — | — | TLAPS proofs about `BufferPool` |
| `FrameReaderProofs` | — | — | TLAPS proofs about `FrameReader`, and its refinement of `ByteStream` |
| `FrameCodecProofs` | — | — | TLAPS proofs about `FrameCodec` |

Abstractions:

- A **sparse varint** keeps its flag bit and its run, not its bytes. The
  byte-level codec is the `Varint` module.
- A **frame** is abstracted to which check of `decompress_data_async` it
  fails (`badmethod`, `toolarge`, `short`, `badsum`, `codecerr`, or
  `ok`), plus its payload length. Byte `j` of frame `i`'s payload is
  `<<i, j>>`, so any loss, repetition or reordering is visible. The
  checksum and the codecs are external and appear only as their verdict.
- **Buffers** are identities with a capacity. Their bytes play no part.
  `get` and `put` each hold one tier lock for their whole body, so each
  is one atomic step. `stats()` takes the five locks one after another,
  so it is five steps, with other threads interleaving between them.
- **Bitmaps are symbolic.** Bit `k` of column `c` is the atom `<<c, k>>`,
  and an output byte computed from that bit is `<<"null", <<c, k>>>>`.
  Every output byte of every path depends on exactly one input bit through
  the same inversion. So one symbolic run checks the index arithmetic of a
  path for all 2^len bit patterns at once.
- A **frame on the wire** is a sequence of tokens: one for the 16
  checksum bytes, one each for the method byte and the two sizes, and one
  per payload byte naming its block. CityHash-128 is taken as injective:
  the checksum token holds the tokens it was computed over, and the
  reader's comparison succeeds iff it re-reads exactly those. A
  compressor is abstracted to the length of its output (fully
  compressible, half, or incompressible). The sizes keep their `u32`
  casts, scaled to `SizeBits` bits.
- **Data types** of a sparse column are abstracted to the branch of
  `expand_sparse_array` they take; all primitive types share one.
- The **varint widths are scaled**: 2 payload bits per byte, a 7-bit word
  and at most 4 bytes. This keeps the code's situation in which the last
  byte's top payload bits fall outside the word, as bits 64-69 of the
  tenth byte do for a u64.

## Runs

Every run is listed in `PROJECT.json`, with its properties and the
mutants that must break each of them.

Pass runs:

| Run | Properties | States | What it shows |
|---|---|---|---|
| `sparse_offsets` | `TypeOK`, `StreamAligned`, `OffsetsInWindow`, `DecodeWholeGranule` | 158k | (see below) |
| `frame_reader` | `TypeOK`, `StreamIntegrity`, `ErrorAfterDrain`, `Terminates`, `StreamSpec` | 91k | (see below) |
| `frame_codec` | `TypeOK`, `NoCorruptAccept`, `Delivered` | 84k | (see below) |
| `buffer_pool` | `TypeOK`, `Exclusive`, `TierFit`, `GetSatisfies` | 1.29M | (see below) |
| `null_bitmap` | `TypeOK`, `PathsAgree`, `MaskCorrect` | 8.6k | (see below) |
| `varint` | `TypeOK`, `RoundTrip` | 82k | (see below) |

What each pass run shows:

- **`sparse_offsets`**
  - After any sequence of calls with any window, every call has read
    through its END_OF_GRANULE varint.
  - The returned offsets increase strictly and lie inside the window.
  - A call whose window covers its granule, started with no carried
    state, decodes that granule exactly through `expand_sparse_array`,
    with the right default for every data type it implements, and any
    other type gives `Unimplemented`.
- **`frame_reader`**
  - Across reads of any size, the bytes delivered, followed by the unread
    rest of the current frame, are exactly the payloads of the frames
    decoded so far.
  - An error is reported only after the current frame has been drained.
  - Under fairness, a reading caller always reaches an error or a panic.
  - `StreamSpec`: the reader implements `ByteStream` (see Refinement).
- **`frame_codec`**
  - Whatever single token the transport corrupts, the reader never
    returns a block other than the one written at that place
    (`NoCorruptAccept`).
    This holds for blocks past the reader's limits and for blocks whose
    sizes the `u32` casts cut too: the reader may stop with an error or a
    panic, but it never hands back the wrong bytes.
  - On an intact stream of frames within the reader's limits, once the
    writer is done and the reader has stopped, every block written has
    come back (`Delivered`).
- **`buffer_pool`**
  - Each live buffer is in exactly one place: one pool slot or one
    thread's handle. Two threads never share a buffer.
  - A pooled buffer has at least 512 bytes, sits in the tier of its
    current capacity, and no tier holds more than `MAX_POOL_SIZE`
    buffers.
  - Every handle has at least the capacity it asked for.
- **`null_bitmap`**
  - AVX2 and NEON write exactly what the scalar path writes.
  - The bytes written for a block are the masks (and values) of its
    columns, in order.
- **`varint`**: decoding a batch gives back the batch.

Violation runs check one property each. Each is a finding, described in
`PROJECT.json`:

| Run | Property | What the code does |
|---|---|---|
| `sparse_carry` | `CarryFaithful` | A value beyond the window does not advance `current_position` (sparse.rs:85). The carried state is then one trailing default short per such value, and it holds only one pending value however many there were. This contradicts the field comments at lines 26-28. |
| `frame_error_then_eof` | `ErrorIsTerminal` | After an `Err`, the future has been dropped and `inner` with it, so the next `poll_read` returns a clean EOF (lines 242-247 and 274). |
| `frame_cancel` | `CancelAtBoundary` | Dropping the reader while a decode is pending leaves the inner stream in the middle of a frame (line 264). |
| `null_bitmap_sliced` | `MaskCorrect` | `validity()` drops the `NullBuffer`'s bit offset. A sliced array gets the mask of the rows before its start (null.rs:27, 91, 126). |
| `frame_codec_limits` | `NoPanic` (in `FrameCodec`) | Two findings. `compress_data` checks no limit and casts both sizes to `u32` (compression.rs:43-44), so it writes, with `Ok(())`, a frame whose compressed size has wrapped below 9. `decompress_data_async` does not reject a `compressed_size < 9`, and `&mut compressed[9..]` panics (compression.rs:165). |
| `varint_overflow` | `RejectsOverflow` | A maximal-length varint with payload bits above the word is decoded to a truncated value rather than `None` (simd.rs:249). |

### Bounds

Each model's bounds are set in its MC module.

- **SparseOffsets**: every stream of 1-4 varints with runs 0..2, and
  windows 0..4.
  - This covers a granule that fits in its window.
  - It covers one that ends exactly at the window, and a value exactly at
    `num_rows` (the `<` of lines 50 and 80).
  - It covers several values beyond the window, and a carried state used
    by the next call.
- **FrameReader**: every stream of 1-3 frames of every kind, with
  payloads of 0-2 bytes, and reads of 0-2 bytes.
  - An empty frame makes `poll_read` recurse.
  - A 2-byte payload read 1 byte at a time spans two calls.
  - A read of 2 bytes can straddle a frame boundary only through the next
    call, as in the code.
- **BufferPool**: two threads and three buffers.
  - Requests of 1000, 4000 and 2,000,000 bytes land in tier 0, tier 1 and
    the power-of-two tier.
  - Fresh Vecs of 256 bytes (under the 512-byte floor) and 700 bytes (in
    tier 0 but smaller than a 1000-byte request).
  - `MAX_POOL_SIZE = 2`, so a tier is full with three buffers.
  - Capacities grow up to 8192, enough for a buffer to move up a tier.
  - Thread and buffer symmetry is used. The properties treat threads and
    buffers alike, so the symmetry is sound.
- **NullBitmap**: lengths 0, 5, 8, 37 and 69.
  - 37 and 69 give one and two AVX2/NEON chunks plus a remainder.
  - 5 and 8 give part of a byte and a whole byte.
  - Both plain and array columns, nullable or not, up to two per block.
  - The sliced run adds offset 3.
- **FrameCodec**: `u32` scaled to 5 bits, with limits 13 (compressed)
  and 20 (decompressed) below it, as 100_000_000 < 1_000_000_000 < 2^32.
  - Both runs: every method, and at most one corrupted token anywhere in
    the stream.
  - `frame_codec`: one or two blocks of 0, 2 or 3 bytes, which fit the
    limits, and the two oversize streams below.
  - `frame_codec_limits`: a fitting block followed by a 21-byte block
    (over the decompressed limit) or a 46-byte block. At half compression
    the 46-byte block's compressed size 24 + 9 wraps to 1, below the 9
    header bytes, and its raw size wraps to 14.
- **Varint**: every batch of up to two values of the 7-bit word.
  `RejectsOverflow` ranges over every byte string of 1-4 bytes.

### Fairness

Fairness is used only by `Terminates`:

- **Weak fairness on a caller's non-empty read.** A reader of the
  stream keeps calling `poll_read` while it wants data.
- **Strong fairness on the decode steps.** A future that is polled
  infinitely often gets its I/O completed: tokio re-polls it when the
  inner stream wakes it.

`Pending` and `IoError` have no fairness, so the model may stall on I/O
for a while but not forever.

## Refinement

`ByteStream` states what an `AsyncRead` promises its callers. The bytes
handed out are a growing prefix of the stream's data. Each read adds 1 to
`MaxRead` bytes, and nothing more comes after the end.

`FrameReader` instantiates it with a refinement mapping:
- `data` is the payloads of the leading valid frames;
- `got` is `out`;
- `ended` holds once the reader has neither an inner stream nor a future,
  or has panicked.

The `frame_reader` run checks `StreamSpec == Stream!Spec` as a property:
every step of the detailed reader is a `Read`, an `End` or a stutter of
the abstract stream. An eager dispatch that hands out bytes of a frame
before its checksum is known breaks it.

## Proofs (TLAPS)

`SparseOffsetsProofs` proves the following for every set of streams and
every `MaxRows`, assuming only `WiresAssumption` and `MaxRowsAssumption`:

- `TypeCorrect`: `Spec => []TypeOK`. It rests on two lemmas, `InitTypeOK`
  and `NextTypeOK`, with one case per action. `WireElem` says that each
  varint of the stream is a `Varint` record.
- `AlignedCorrect`: `Spec => []StreamAligned`, from `NextStreamAligned`
  and `TypeOK`.
  - A call leaves the idle state only through `Begin`.
  - It returns to idle only through `ReadEnd`, which consumes an
    END_OF_GRANULE varint.
- `OffsetsCorrect`: `Spec => []OffsetsInWindow`.
  - `OffsetsInWindow` is not inductive. `ReadValueInWindow` appends
    `pos + run`, and only the fact that every offset so far is below
    `pos` keeps the sequence increasing.
  - The inductive invariant is therefore
    `IInv == TypeOK /\ OffsetsInWindow /\ OffsetsBelowPos`, where
    `OffsetsBelowPos == \A i : offs[i] < pos`. `Begin` puts the carried
    value at `pos - 1`, and each in-window read moves `pos` past the value
    it records.
  - `IInv` was checked with TLC, as an invariant of the `sparse_offsets`
    instance, before it was proved. The proof shows `Init => IInv` and `IInv /\ [Next]_vars => IInv'`.

`BufferPoolProofs` proves the following for every set of threads,
buffers and requested sizes, under `ConstantsAssumption` and
`NextPowerAssumption`. `NextPowerAssumption` says that every request over
1 MiB has a next power of two that does not overflow.
- `TypeCorrect`: `Spec => []TypeOK`, which includes that no tier holds
  more than `MAX_POOL_SIZE` buffers.
- `ExclusiveCorrect`, `TierFitCorrect` and `GetSatisfiesCorrect`:
  `Spec => []Exclusive`, `[]TierFit` and `[]GetSatisfies`.
  - None of the three is inductive alone. `Grow` and every allocation
    rewrite `cap`, and only exclusivity shows that the rewritten buffer
    is in no pool slot, so pooled capacities, and `TierFit`, are kept.
    In turn, `get` hands out a pool's head, and only `TierFit` gives its
    capacity.
  - The inductive invariant `IInv` is therefore `TypeOK` and five
    placement facts: pooled and held buffers are alive, a held buffer is
    in no pool, no two threads hold one buffer, no buffer fills two
    slots. It also includes `AliveCovered` (every live buffer is
    somewhere), `TierFit` and `GetSatisfies`.
  - `IInv` was checked with TLC on the `buffer_pool` instance before the
    proof. There is one lemma per operation, each with one step per
    conjunct the operation can disturb, and lemmas `PopFacts` and
    `PushFacts` about `Tail` and `Append` on a pool.

`FrameReaderProofs` proves the following for every wire of frames and
every `MaxRead`, assuming only `WiresAssumption` and `MaxReadAssumption`:
- `TypeCorrect`, `IntegrityCorrect` and `DrainCorrect`: `Spec => []TypeOK`,
  `[]StreamIntegrity` and `[]ErrorAfterDrain`.
  - `StreamIntegrity` is not inductive alone. The proof must know several
    more things:
    - that a frame is held only while the cursor stands right after it
      (`Cursor`);
    - that the inner stream is gone only once the held frame is drained
      (`Drained`);
    - that an error ends the stream (`ErrEnded`);
    - that a pending poll has a read size between 1 and `MaxRead`
      (`Polled`).
  - The inductive invariant is therefore `IInv`, which is `TypeOK`,
    `StreamIntegrity` and those four facts. TLC checked it on the
    `frame_reader` instance before it was proved.
  - `ErrorAfterDrain` follows from `Drained` and `ErrEnded`.
- `RefinesStream`: `Spec => StreamSpec`, the refinement of `ByteStream`.
  It is proved step by step, under the mapping of the Refinement section
  and with `IInv` in both states (`NextRefines`):
  - a dispatch or frame completion that serves bytes is a `Read`;
  - a rejected header or payload, an end of stream, an I/O error or the
    short-frame panic is an `End`;
  - every other step is a stutter.
- `Payloads` is a recursive function, and `LeadingOk` is a CHOOSE over
  frame indices. The provers cannot instantiate induction over data, so
  the lemmas about them (`PayloadsStep`, `PayloadsPrefix`,
  `LeadingOkBound`) argue instead from the least counterexample. They
  pick it with `WFMin` over the naturals (`NatMin`).

`FrameCodecProofs` proves the following for every set of block sequences,
every `SizeBits`, every pair of reader limits and every `MaxFaults`,
assuming only `ConstantsAssumption`:
- `TypeCorrect` and `NoCorruptAcceptCorrect`: `Spec => []TypeOK` and
  `Spec => []NoCorruptAccept`. The run checks `NoCorruptAccept` with one
  corruption; the theorem covers any number of them.
  - `NoCorruptAccept` is not inductive: a `Decode` step keeps it only if
    the reader stands at the start of the next frame as written, and that
    frame's checksum token, if intact, is the one written there.
  - The inductive invariant `IInv` adds `SentOk` (frame i holds block i
    and a non-empty payload) and a layout of the wire, given by a witness
    `st`: frame i starts at `st[i]`, frames follow one another, the
    reader stands at `st[Len(dec) + 1]`, the checksum token of every
    unread frame is the one written or a corrupted one, and a frame cut
    short by `WriteFail` has a checksum, if intact, that covers more tokens
    than the wire holds. TLC checked `IInv` on the `frame_codec` instance
    before it was proved.
  - The argument for `Decode` (`NextFrameRead`, `MatchedFrame`): an
    intact checksum token holds `new_out`, the tokens it was computed
    over. A corrupted token carries none (`CorruptionsFlat`). So a
    checksum equal to what the reader rebuilt forces `compressed_size - 9`
    to be the written payload length, and the payload read to be the one
    written (`ConcatCancel`). Since the payloads of distinct blocks
    differ (`OutInjective`), the block returned is the block written.
  - One lemma per action shows it keeps `IInv` (`EncodeFrameIInv`,
    `WriteFailIInv`, `CorruptIInv`, `DecodeIInv`, ...). They are
    combined in `NextIInv`.

The following are checked by TLC only:

- Liveness (`Terminates`), which is out of TLAPS's reach.
- The properties of `SparseOffsets`, `NullBitmap` and `Varint` that say
  what a recursive definition computes: `DecodeWholeGranule`,
  `MaskCorrect`, `PathsAgree` and `RoundTrip`. They need facts about the
  recursion for every input. The least-counterexample argument that
  `FrameReader` uses would also work for them. It is not written yet, and
  these properties are checked exhaustively on the bounded instances
  above.
- `Delivered` of `FrameCodec`. It needs more than `IInv`. On an intact
  stream, every frame must pass the reader's checks. That requires the
  u32 casts of both sizes not to wrap under `FitsLimits`, and the reader
  to have stopped only at the end of the wire. This proof is not written.
- The type invariants of `NullBitmap` and `Varint`.
- The violation runs. They exist to show a counterexample.

## Not modelled

- **The compressors (lz4_flex, zstd) and CityHash-128.** They are
  external crates. They appear only as output lengths and as a verdict.
- **`swap_bytes_*` and `uuid_*`** (simd.rs 272-332). They are stateless
  byte permutations with a single length check. Nothing in the crate
  calls them, and their unit tests pin each one on a full example.
- **`stats()` as a snapshot** (simd.rs:420-428). `StatsBegin` and
  `StatsRead` model its five separate lock-and-read steps. A buffer moved
  between two reads is counted twice. The spec calls the result a
  "per-tier occupancy snapshot" without saying that the tiers are read at
  one instant, so no property claims more than each count alone.
- **`read_sparse_offsets_sync`** (sparse.rs 95-151) is a line-for-line
  copy of the async function, so the one model of the loop stands for
  both.
- **`errors.rs`, `http/client.rs`, the Python bindings, and the benches
  and tests.** These are data types, I/O plumbing and harnesses.
- **The u64 width of `current_position`** (sparse.rs:69). Group sizes
  are small naturals in the model. A wrap needs at least four group
  sizes, each below 2^62, whose sum passes 2^64. It panics in debug
  builds and wraps in release builds. Modelling the width would replace
  the exact sums on which `AlignedCorrect` and `OffsetsCorrect` rest.
