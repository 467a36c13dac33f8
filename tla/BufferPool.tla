------------------------------ MODULE BufferPool ------------------------------
(***************************************************************************)
(* The buffer pool of src/clickhouse-arrow/src/simd.rs: BufferPool with    *)
(* its five Mutex<VecDeque<Vec<u8>>> tiers, and the PooledBuffer handles   *)
(* that threads take from the global BUFFER_POOL and give back on drop.    *)
(*                                                                         *)
(* get and put hold their tier's lock for their whole body, so each is one *)
(* atomic step; threads interleave between them.  A buffer is an identity  *)
(* from the finite set Buffers with a capacity; its bytes are left out.    *)
(* The number of buffers in existence at once is bounded by Buffers.       *)
(***************************************************************************)
EXTENDS Naturals, Sequences, FiniteSets

CONSTANTS
    Threads,      \* the threads using the pool
    Buffers,      \* identities for the Vec<u8> allocations alive at once
    Requests,     \* the capacities callers pass to PooledBuffer::with_capacity
    MaxPoolSize,  \* MAX_POOL_SIZE (32 in the code)
    FreshCaps,    \* the capacities of Vecs handed to put directly
    MaxCap,       \* the largest capacity a buffer grows to
    NoBuf         \* a thread that holds no buffer

ASSUME ConstantsAssumption ==
    /\ Requests \subseteq Nat
    /\ FreshCaps \subseteq Nat
    /\ MaxPoolSize \in Nat
    /\ MaxCap \in Nat
    /\ NoBuf \notin Buffers

TINY == 1024
SMALL == 4 * 1024
MEDIUM == 64 * 1024
LARGE == 1024 * 1024

Tiers == 0..4

\* BufferPool::bucket_for_size
BucketForSize(size) ==
    IF size <= TINY THEN 0
    ELSE IF size <= SMALL THEN 1
    ELSE IF size <= MEDIUM THEN 2
    ELSE IF size <= LARGE THEN 3
    ELSE 4

\* usize::next_power_of_two, for the sizes below 2^30 a model reaches.
NextPowerOfTwo(n) ==
    CHOOSE p \in {2^i : i \in 0..30} : p >= n /\ (p = 1 \/ p \div 2 < n)

\* Every requested size over LARGE has a next power of two in range:
\* usize::next_power_of_two does not overflow on it.
ASSUME NextPowerAssumption ==
    \A c \in Requests :
        c > LARGE => NextPowerOfTwo(c) \in Nat /\ NextPowerOfTwo(c) >= c

\* BufferPool::round_up_capacity
RoundUpCapacity(size) ==
    IF size <= TINY THEN TINY
    ELSE IF size <= SMALL THEN SMALL
    ELSE IF size <= MEDIUM THEN MEDIUM
    ELSE IF size <= LARGE THEN LARGE
    ELSE NextPowerOfTwo(size)

VARIABLES
    pools,   \* pools[t]: the VecDeque of tier t, front first
    cap,     \* cap[b]: the capacity of buffer b
    alive,   \* the buffers currently allocated
    held,    \* held[th]: the buffer inside th's PooledBuffer, or NoBuf
    asked,   \* asked[th]: the capacity th asked for
    sidx,    \* the next tier a running stats() call locks (5: not running)
    snap     \* snap[t]: the count stats() read for tier t

vars == <<pools, cap, alive, held, asked, sidx, snap>>

Init ==
    /\ pools = [t \in Tiers |-> <<>>]
    /\ cap = [b \in Buffers |-> 0]
    /\ alive = {}
    /\ held = [th \in Threads |-> NoBuf]
    /\ asked = [th \in Threads |-> 0]
    /\ sidx = 5
    /\ snap = [t \in Tiers |-> 0]

\* Vec::with_capacity(RoundUpCapacity(c)) for th, the buffers in live
\* being the ones allocated.
Allocate(th, c, live) ==
    \E b \in Buffers \ live :
        /\ cap' = [cap EXCEPT ![b] = RoundUpCapacity(c)]
        /\ alive' = live \cup {b}
        /\ held' = [held EXCEPT ![th] = b]

\* Mutant: the front buffer is used without the capacity check of line 393.
GetReuseUnchecked(th, c) ==
    LET t == BucketForSize(c) IN
    /\ held[th] = NoBuf
    /\ pools[t] # <<>>
    /\ pools' = [pools EXCEPT ![t] = Tail(pools[t])]
    /\ held' = [held EXCEPT ![th] = Head(pools[t])]
    /\ asked' = [asked EXCEPT ![th] = c]
    /\ UNCHANGED <<cap, alive, sidx, snap>>

\* Mutant: the front buffer is read but left in the queue.
GetReusePeek(th, c) ==
    LET t == BucketForSize(c) IN
    /\ held[th] = NoBuf
    /\ pools[t] # <<>>
    /\ cap[Head(pools[t])] >= c
    /\ held' = [held EXCEPT ![th] = Head(pools[t])]
    /\ asked' = [asked EXCEPT ![th] = c]
    /\ UNCHANGED <<pools, cap, alive, sidx, snap>>

\* PooledBuffer::with_capacity(c), i.e. BUFFER_POOL.get(c), when the front
\* of the tier's queue is big enough: it is popped, cleared and returned.
GetReuse(th, c) ==
    LET t == BucketForSize(c) IN
    /\ held[th] = NoBuf
    /\ pools[t] # <<>>
    /\ cap[Head(pools[t])] >= c
    /\ pools' = [pools EXCEPT ![t] = Tail(pools[t])]
    /\ held' = [held EXCEPT ![th] = Head(pools[t])]
    /\ asked' = [asked EXCEPT ![th] = c]
    /\ UNCHANGED <<cap, alive, sidx, snap>>

\* get(c) when the front buffer is too small: it is popped and dropped, and
\* a fresh buffer is allocated (line 396).
GetDropSmall(th, c) ==
    LET t == BucketForSize(c) IN
    /\ held[th] = NoBuf
    /\ pools[t] # <<>>
    /\ cap[Head(pools[t])] < c
    /\ pools' = [pools EXCEPT ![t] = Tail(pools[t])]
    /\ Allocate(th, c, alive \ {Head(pools[t])})
    /\ asked' = [asked EXCEPT ![th] = c]
    /\ UNCHANGED <<sidx, snap>>

\* get(c) on an empty tier: a fresh buffer of the rounded-up capacity.
GetAllocate(th, c) ==
    LET t == BucketForSize(c) IN
    /\ held[th] = NoBuf
    /\ pools[t] = <<>>
    /\ Allocate(th, c, alive)
    /\ asked' = [asked EXCEPT ![th] = c]
    /\ UNCHANGED <<pools, sidx, snap>>

\* The owner writes past the capacity: the Vec reallocates to twice it.
Grow(th) ==
    /\ held[th] # NoBuf
    /\ 2 * cap[held[th]] <= MaxCap
    /\ cap' = [cap EXCEPT ![held[th]] = 2 * cap[held[th]]]
    /\ UNCHANGED <<pools, alive, held, asked, sidx, snap>>

\* PooledBuffer::take: the Vec leaves the pool's custody for good (it is
\* freed by its new owner).
Take(th) ==
    /\ held[th] # NoBuf
    /\ alive' = alive \ {held[th]}
    /\ held' = [held EXCEPT ![th] = NoBuf]
    /\ UNCHANGED <<pools, cap, asked, sidx, snap>>

\* Mutant: put without the MAX_POOL_SIZE check of line 413.
PoolPutUnbounded(b, c) ==
    \/ /\ c < TINY \div 2
       /\ alive' = alive \ {b}
       /\ UNCHANGED pools
    \/ /\ c >= TINY \div 2
       /\ pools' = [pools EXCEPT ![BucketForSize(c)] = Append(@, b)]
       /\ alive' = alive \cup {b}

\* Mutant: put without the 512-byte floor of line 406.
PoolPutUnfloored(b, c) ==
    \/ /\ Len(pools[BucketForSize(c)]) < MaxPoolSize
       /\ pools' = [pools EXCEPT ![BucketForSize(c)] = Append(@, b)]
       /\ alive' = alive \cup {b}
    \/ /\ Len(pools[BucketForSize(c)]) >= MaxPoolSize
       /\ alive' = alive \ {b}
       /\ UNCHANGED pools

\* BufferPool::put of buffer b of capacity c: under 512 bytes it is dropped;
\* otherwise it goes to the back of the tier of its capacity, or is dropped
\* when that tier already holds MAX_POOL_SIZE buffers.
PoolPut(b, c) ==
    \/ /\ c < TINY \div 2
       /\ alive' = alive \ {b}
       /\ UNCHANGED pools
    \/ /\ c >= TINY \div 2
       /\ Len(pools[BucketForSize(c)]) < MaxPoolSize
       /\ pools' = [pools EXCEPT ![BucketForSize(c)] = Append(@, b)]
       /\ alive' = alive \cup {b}
    \/ /\ c >= TINY \div 2
       /\ Len(pools[BucketForSize(c)]) >= MaxPoolSize
       /\ alive' = alive \ {b}
       /\ UNCHANGED pools

\* Drop of a PooledBuffer that still holds its Vec: BUFFER_POOL.put.
Release(th) ==
    /\ held[th] # NoBuf
    /\ held' = [held EXCEPT ![th] = NoBuf]
    /\ PoolPut(held[th], cap[held[th]])
    /\ UNCHANGED <<cap, asked, sidx, snap>>

\* A Vec made elsewhere is handed to put: the puts of prewarm, or of any
\* caller of the public BufferPool::put.
PutFresh(c) ==
    \E b \in Buffers \ alive :
        /\ cap' = [cap EXCEPT ![b] = c]
        /\ PoolPut(b, c)
        /\ UNCHANGED <<held, asked, sidx, snap>>

\* stats() locks the tiers one after the other, each for one len() read,
\* so get and put run between its reads.
StatsRead ==
    /\ sidx \in Tiers
    /\ snap' = [snap EXCEPT ![sidx] = Len(pools[sidx])]
    /\ sidx' = sidx + 1
    /\ UNCHANGED <<pools, cap, alive, held, asked>>

\* A monitor calls stats().
StatsBegin ==
    /\ sidx = 5
    /\ sidx' = 0
    /\ UNCHANGED <<pools, cap, alive, held, asked, snap>>

Next ==
    \/ StatsBegin \/ StatsRead
    \/ \E th \in Threads, c \in Requests :
          GetReuse(th, c) \/ GetDropSmall(th, c) \/ GetAllocate(th, c)
    \/ \E th \in Threads : Grow(th) \/ Take(th) \/ Release(th)
    \/ \E c \in FreshCaps : PutFresh(c)

Spec == Init /\ [][Next]_vars

-----------------------------------------------------------------------------
(* Properties                                                              *)

\* The type invariant; every tier is a queue of at most MAX_POOL_SIZE
\* buffers (put drops the buffer rather than grow a full tier).
TypeOK ==
    /\ pools \in [Tiers -> Seq(Buffers)]
    /\ \A t \in Tiers : Len(pools[t]) <= MaxPoolSize
    /\ cap \in [Buffers -> Nat]
    /\ alive \subseteq Buffers
    /\ held \in [Threads -> Buffers \cup {NoBuf}]
    /\ asked \in [Threads -> Nat]
    /\ sidx \in 0..5
    /\ snap \in [Tiers -> Nat]

\* The places a buffer can be: a slot of a tier's queue, or a thread.
Slots(b) ==
    UNION {{<<t, i>> : i \in {j \in 1..Len(pools[t]) : pools[t][j] = b}} :
           t \in Tiers}
Holders(b) == {th \in Threads : held[th] = b}

\* Every live buffer is in exactly one place: one slot of one queue or one
\* PooledBuffer, never two threads or a thread and the pool at once (else
\* two writers share one Vec), and every pooled or held buffer is live.
Exclusive ==
    \A b \in Buffers :
        Cardinality(Slots(b)) + Cardinality(Holders(b)) = IF b \in alive THEN 1 ELSE 0

\* Every pooled buffer sits in the tier its current capacity belongs to, and
\* is at least the 512-byte floor, whatever the owner did to it after get
\* (a grown buffer moves up a tier on its way back).
TierFit ==
    \A t \in Tiers : \A i \in 1..Len(pools[t]) :
        /\ cap[pools[t][i]] >= TINY \div 2
        /\ BucketForSize(cap[pools[t][i]]) = t

\* A PooledBuffer always has at least the capacity its owner asked for,
\* whichever buffer of the tier it was given (spec: acquire(c) returns
\* capacity >= c).
GetSatisfies ==
    \A th \in Threads : held[th] # NoBuf => cap[held[th]] >= asked[th]

=============================================================================
