-------------------------- MODULE BufferPoolProofs --------------------------
(***************************************************************************)
(* Proofs about the buffer pool, for every set of threads and buffers,     *)
(* every pool size and every set of requested capacities: the type         *)
(* invariant, that pooled buffers sit in the tier of their capacity, and   *)
(* that a PooledBuffer has at least the capacity asked for.               *)
(***************************************************************************)
EXTENDS BufferPool, SequenceTheorems, FiniteSetTheorems, TLAPS

\* round_up_capacity never returns less than it was asked for.
LEMMA RoundUp ==
  ASSUME NEW c \in Requests
  PROVE  RoundUpCapacity(c) \in Nat /\ RoundUpCapacity(c) >= c
<1>1. c \in Nat
  BY ConstantsAssumption
<1>2. CASE c > LARGE
  BY <1>1, <1>2, NextPowerAssumption DEF RoundUpCapacity, TINY, SMALL, MEDIUM, LARGE
<1>3. CASE c <= LARGE
  BY <1>1, <1>3 DEF RoundUpCapacity, TINY, SMALL, MEDIUM, LARGE
<1>4. QED
  BY <1>2, <1>3, <1>1 DEF LARGE

\* bucket_for_size names a tier.
LEMMA BucketTier ==
  ASSUME NEW c \in Nat
  PROVE  BucketForSize(c) \in Tiers
  BY DEF BucketForSize, Tiers, TINY, SMALL, MEDIUM, LARGE

-----------------------------------------------------------------------------
(* Type correctness                                                         *)

LEMMA InitTypeOK == Init => TypeOK
  BY ConstantsAssumption DEF Init, TypeOK, Tiers

\* put keeps a tier within MAX_POOL_SIZE and its buffers in Buffers.
LEMMA PoolPutType ==
  ASSUME TypeOK, NEW b \in Buffers, NEW c \in Nat, PoolPut(b, c)
  PROVE  /\ pools' \in [Tiers -> Seq(Buffers)]
         /\ \A t \in Tiers : Len(pools'[t]) <= MaxPoolSize
         /\ alive' \subseteq Buffers
<1> DEFINE t == BucketForSize(c)
<1>1. t \in Tiers
  BY BucketTier
<1>2. CASE c < TINY \div 2 /\ alive' = alive \ {b} /\ UNCHANGED pools
  BY <1>2 DEF TypeOK
<1>3. CASE /\ c >= TINY \div 2
           /\ Len(pools[t]) < MaxPoolSize
           /\ pools' = [pools EXCEPT ![t] = Append(pools[t], b)]
           /\ alive' = alive \cup {b}
  <2>1. pools[t] \in Seq(Buffers)
    BY <1>1 DEF TypeOK
  <2>2. Append(pools[t], b) \in Seq(Buffers)
        /\ Len(Append(pools[t], b)) = Len(pools[t]) + 1
    BY <2>1
  <2>3. QED
    BY <1>1, <1>3, <2>2, ConstantsAssumption DEF TypeOK
<1>4. CASE /\ c >= TINY \div 2
           /\ Len(pools[t]) >= MaxPoolSize
           /\ alive' = alive \ {b}
           /\ UNCHANGED pools
  BY <1>4 DEF TypeOK
<1>5. QED
  BY <1>2, <1>3, <1>4 DEF PoolPut

LEMMA NextTypeOK == TypeOK /\ [Next]_vars => TypeOK'
<1> SUFFICES ASSUME TypeOK, [Next]_vars PROVE TypeOK'
  OBVIOUS
<1>1. CASE StatsBegin
  BY <1>1 DEF StatsBegin, TypeOK
<1>2. CASE StatsRead
  BY <1>2 DEF StatsRead, TypeOK, Tiers
<1>3. ASSUME NEW th \in Threads, NEW c \in Requests, GetReuse(th, c)
      PROVE  TypeOK'
  <2> DEFINE t == BucketForSize(c)
  <2>1. t \in Tiers
    BY BucketTier, ConstantsAssumption
  <2>2. QED
    BY <1>3, <2>1, ConstantsAssumption DEF GetReuse, TypeOK
<1>4. ASSUME NEW th \in Threads, NEW c \in Requests, GetDropSmall(th, c)
      PROVE  TypeOK'
  <2> DEFINE t == BucketForSize(c)
  <2>1. t \in Tiers
    BY BucketTier, ConstantsAssumption
  <2>2. RoundUpCapacity(c) \in Nat
    BY RoundUp
  <2>3. QED
    BY <1>4, <2>1, <2>2, ConstantsAssumption DEF GetDropSmall, Allocate, TypeOK
<1>5. ASSUME NEW th \in Threads, NEW c \in Requests, GetAllocate(th, c)
      PROVE  TypeOK'
  <2>2. RoundUpCapacity(c) \in Nat
    BY RoundUp
  <2>3. QED
    BY <1>5, <2>2, ConstantsAssumption DEF GetAllocate, Allocate, TypeOK
<1>6. ASSUME NEW th \in Threads, Grow(th) PROVE TypeOK'
  BY <1>6 DEF Grow, TypeOK
<1>7. ASSUME NEW th \in Threads, Take(th) PROVE TypeOK'
  BY <1>7 DEF Take, TypeOK
<1>8. ASSUME NEW th \in Threads, Release(th) PROVE TypeOK'
  <2>1. held[th] \in Buffers /\ cap[held[th]] \in Nat
    BY <1>8, ConstantsAssumption DEF Release, TypeOK
  <2>2. QED
    BY <1>8, <2>1, PoolPutType DEF Release, TypeOK
<1>9. ASSUME NEW c \in FreshCaps, PutFresh(c) PROVE TypeOK'
  <2>1. PICK b \in Buffers \ alive :
           /\ cap' = [cap EXCEPT ![b] = c]
           /\ PoolPut(b, c)
           /\ UNCHANGED <<held, asked, sidx, snap>>
    BY <1>9 DEF PutFresh
  <2>2. c \in Nat
    BY ConstantsAssumption
  <2>3. QED
    BY <2>1, <2>2, PoolPutType DEF TypeOK
<1>10. CASE UNCHANGED vars
  BY <1>10 DEF vars, TypeOK
<1>11. QED
  BY <1>1, <1>2, <1>3, <1>4, <1>5, <1>6, <1>7, <1>8, <1>9, <1>10 DEF Next

\* Every reachable state of the pool is well typed.
THEOREM TypeCorrect == Spec => []TypeOK
  BY InitTypeOK, NextTypeOK, PTL DEF Spec

-----------------------------------------------------------------------------
(* The inductive invariant.  TierFit is not inductive alone: Grow and a   *)
(* fresh allocation rewrite cap[b], and this keeps a pooled buffer's       *)
(* capacity only if b is neither held nor dead.  So the invariant adds     *)
(* that every pooled or held buffer is alive and is in one place only.     *)

\* b sits in some slot of some tier.
InPool(b) == \E t \in Tiers : \E i \in 1..Len(pools[t]) : pools[t][i] = b

PooledAlive == \A t \in Tiers : \A i \in 1..Len(pools[t]) : pools[t][i] \in alive
HeldAlive == \A th \in Threads : held[th] # NoBuf => held[th] \in alive
HeldNotPooled == \A th \in Threads : ~InPool(held[th])
HeldOnce ==
    \A th1, th2 \in Threads : th1 # th2 /\ held[th1] # NoBuf => held[th1] # held[th2]
AliveCovered == \A b \in alive : InPool(b) \/ \E th \in Threads : held[th] = b
PooledOnce ==
    \A t1, t2 \in Tiers : \A i \in 1..Len(pools[t1]), j \in 1..Len(pools[t2]) :
        pools[t1][i] = pools[t2][j] => t1 = t2 /\ i = j

\* get pops the front of tier t: every other slot keeps its buffer, and
\* slot i of t now holds what slot i + 1 held.
LEMMA PopFacts ==
  ASSUME NEW t \in Tiers, pools \in [Tiers -> Seq(Buffers)], pools[t] # <<>>,
         pools' = [pools EXCEPT ![t] = Tail(pools[t])]
  PROVE  /\ pools' \in [Tiers -> Seq(Buffers)]
         /\ \A u \in Tiers \ {t} : pools'[u] = pools[u]
         /\ Len(pools'[t]) = Len(pools[t]) - 1
         /\ \A i \in 1..Len(pools'[t]) : pools'[t][i] = pools[t][i + 1]
         /\ Head(pools[t]) = pools[t][1] /\ Len(pools[t]) \in Nat \ {0}
<1>1. /\ Tail(pools[t]) \in Seq(Buffers)
      /\ Len(Tail(pools[t])) = Len(pools[t]) - 1
      /\ \A i \in 1..Len(Tail(pools[t])) : Tail(pools[t])[i] = pools[t][i + 1]
  BY HeadTailProperties
<1>2. Len(pools[t]) \in Nat \ {0}
  BY EmptySeq
<1>3. QED
  BY <1>1, <1>2

\* put appends b to tier t: every slot keeps its buffer, and b is in the
\* new last slot of t.
LEMMA PushFacts ==
  ASSUME NEW t \in Tiers, NEW b \in Buffers, pools \in [Tiers -> Seq(Buffers)],
         pools' = [pools EXCEPT ![t] = Append(pools[t], b)]
  PROVE  /\ pools' \in [Tiers -> Seq(Buffers)]
         /\ \A u \in Tiers \ {t} : pools'[u] = pools[u]
         /\ Len(pools'[t]) = Len(pools[t]) + 1
         /\ \A i \in 1..Len(pools[t]) : pools'[t][i] = pools[t][i]
         /\ pools'[t][Len(pools[t]) + 1] = b
<1>1. /\ Append(pools[t], b) \in Seq(Buffers)
      /\ Len(Append(pools[t], b)) = Len(pools[t]) + 1
      /\ \A i \in 1..Len(pools[t]) : Append(pools[t], b)[i] = pools[t][i]
      /\ Append(pools[t], b)[Len(pools[t]) + 1] = b
  BY AppendProperties
<1>2. QED
  BY <1>1

IInv ==
    /\ TypeOK
    /\ PooledAlive /\ HeldAlive /\ HeldNotPooled /\ HeldOnce /\ PooledOnce
    /\ AliveCovered
    /\ TierFit
    /\ GetSatisfies

-----------------------------------------------------------------------------
(* Each step keeps IInv.  A lemma per operation; each takes TypeOK' from   *)
(* NextTypeOK.                                                             *)

\* The exclusivity conjuncts mention only pools, alive and held.
LEMMA PlacesUnchanged ==
  ASSUME IInv, UNCHANGED <<pools, alive, held>>
  PROVE  /\ PooledAlive' /\ HeldAlive' /\ HeldNotPooled' /\ HeldOnce' /\ PooledOnce'
         /\ AliveCovered'
  BY DEF IInv, PooledAlive, HeldAlive, HeldNotPooled, InPool, HeldOnce, PooledOnce,
         AliveCovered

\* stats() reads lengths and writes only sidx and snap.
LEMMA StatsIInv ==
  ASSUME IInv, TypeOK', StatsBegin \/ StatsRead
  PROVE  IInv'
<1>1. UNCHANGED <<pools, cap, alive, held, asked>>
  BY DEF StatsBegin, StatsRead
<1>2. TierFit' /\ GetSatisfies'
  BY <1>1 DEF IInv, TierFit, GetSatisfies
<1>3. QED
  BY <1>1, <1>2, PlacesUnchanged DEF IInv

\* The grown buffer is held, so no pooled buffer and no other holder sees
\* its capacity change.
LEMMA GrowIInv ==
  ASSUME IInv, TypeOK', NEW th \in Threads, Grow(th)
  PROVE  IInv'
<1> DEFINE b == held[th]
<1>1. UNCHANGED <<pools, alive, held, asked>>
  BY DEF Grow
<1>2. b \in Buffers /\ cap' = [cap EXCEPT ![b] = 2 * cap[b]]
  BY DEF Grow, IInv, TypeOK
<1>3. \A t \in Tiers : \A i \in 1..Len(pools[t]) : pools[t][i] # b
  BY DEF IInv, HeldNotPooled, InPool
<1>4. TierFit'
  BY <1>1, <1>2, <1>3 DEF IInv, TypeOK, TierFit
<1>5. \A th2 \in Threads \ {th} : held[th2] # b
  BY <1>2, ConstantsAssumption DEF IInv, HeldOnce, TypeOK
<1>6. cap[b] \in Nat
  BY <1>2 DEF IInv, TypeOK
<1>7. GetSatisfies'
  BY <1>1, <1>2, <1>5, <1>6 DEF IInv, TypeOK, GetSatisfies
<1>8. QED
  BY <1>1, <1>4, <1>7, PlacesUnchanged DEF IInv

\* take hands the held Vec out of the pool's custody: it was in no slot.
LEMMA TakeIInv ==
  ASSUME IInv, TypeOK', NEW th \in Threads, Take(th)
  PROVE  IInv'
<1> DEFINE b == held[th]
<1>1. UNCHANGED <<pools, cap, asked>>
      /\ alive' = alive \ {b} /\ held' = [held EXCEPT ![th] = NoBuf]
  BY DEF Take
<1>2. b \in Buffers
  BY DEF Take, IInv, TypeOK
<1>3. \A t \in Tiers : \A i \in 1..Len(pools[t]) : pools[t][i] # b
  BY DEF IInv, HeldNotPooled, InPool
<1>4. \A th2 \in Threads \ {th} : held[th2] # b
  BY <1>2, ConstantsAssumption DEF IInv, HeldOnce, TypeOK
<1>5. PooledAlive'
  BY <1>1, <1>3 DEF IInv, PooledAlive
<1>6. HeldAlive' /\ HeldOnce'
  BY <1>1, <1>4 DEF IInv, TypeOK, HeldAlive, HeldOnce
<1>7. HeldNotPooled'
  <2>1. ~InPool(NoBuf)
    BY ConstantsAssumption DEF IInv, TypeOK, InPool
  <2>2. QED
    BY <1>1, <2>1 DEF IInv, TypeOK, HeldNotPooled, InPool
<1>8. PooledOnce' /\ TierFit'
  BY <1>1 DEF IInv, PooledOnce, TierFit
<1>9. GetSatisfies'
  BY <1>1 DEF IInv, TypeOK, GetSatisfies
<1>11. AliveCovered'
  BY <1>1, <1>2 DEF IInv, TypeOK, AliveCovered, InPool
<1>10. QED
  BY <1>5, <1>6, <1>7, <1>8, <1>9, <1>11 DEF IInv

\* The slot of the old queues that slot i of tier u held before a pop of t.
PopIndex(t, u, i) == IF u = t THEN i + 1 ELSE i

\* After a pop of tier t, every slot holds what another slot than the
\* front of t held, no slot holds the popped buffer, and slots still hold
\* distinct buffers.
LEMMA PopSlots ==
  ASSUME IInv, NEW t \in Tiers, pools[t] # <<>>,
         pools' = [pools EXCEPT ![t] = Tail(pools[t])]
  PROVE  /\ \A u \in Tiers : \A i \in 1..Len(pools'[u]) :
               /\ PopIndex(t, u, i) \in 1..Len(pools[u])
               /\ ~(u = t /\ PopIndex(t, u, i) = 1)
               /\ pools'[u][i] = pools[u][PopIndex(t, u, i)]
         /\ \A u \in Tiers : \A i \in 1..Len(pools'[u]) : pools'[u][i] # Head(pools[t])
         /\ PooledOnce'
         /\ \A x \in Buffers : InPool(x) /\ x # Head(pools[t]) => InPool(x)'
<1>1. pools \in [Tiers -> Seq(Buffers)]
  BY DEF IInv, TypeOK
<1>2. /\ pools' \in [Tiers -> Seq(Buffers)]
      /\ \A u \in Tiers \ {t} : pools'[u] = pools[u]
      /\ Len(pools'[t]) = Len(pools[t]) - 1
      /\ \A i \in 1..Len(pools'[t]) : pools'[t][i] = pools[t][i + 1]
      /\ Head(pools[t]) = pools[t][1] /\ Len(pools[t]) \in Nat \ {0}
  BY <1>1, PopFacts
<1>3. \A u \in Tiers : Len(pools[u]) \in Nat
  BY <1>1, LenProperties
<1>4. \A u \in Tiers : \A i \in 1..Len(pools'[u]) :
           /\ PopIndex(t, u, i) \in 1..Len(pools[u])
           /\ ~(u = t /\ PopIndex(t, u, i) = 1)
           /\ pools'[u][i] = pools[u][PopIndex(t, u, i)]
  BY <1>2, <1>3 DEF PopIndex
<1>5. \A u \in Tiers : \A i \in 1..Len(pools'[u]) : pools'[u][i] # Head(pools[t])
  <2> SUFFICES ASSUME NEW u \in Tiers, NEW i \in 1..Len(pools'[u]),
                      pools'[u][i] = pools[t][1]
               PROVE  FALSE
    BY <1>2
  <2>1. pools[u][PopIndex(t, u, i)] = pools[t][1]
    BY <1>4
  <2>2. u = t /\ PopIndex(t, u, i) = 1
    BY <1>2, <1>4, <2>1 DEF IInv, PooledOnce
  <2>3. QED
    BY <1>4, <2>2
<1>6. PooledOnce'
  <2> SUFFICES ASSUME NEW u1 \in Tiers, NEW u2 \in Tiers,
                      NEW i \in 1..Len(pools'[u1]), NEW j \in 1..Len(pools'[u2]),
                      pools'[u1][i] = pools'[u2][j]
               PROVE  u1 = u2 /\ i = j
    BY DEF PooledOnce
  <2>1. pools[u1][PopIndex(t, u1, i)] = pools[u2][PopIndex(t, u2, j)]
    BY <1>4
  <2>2. u1 = u2 /\ PopIndex(t, u1, i) = PopIndex(t, u2, j)
    BY <1>4, <2>1 DEF IInv, PooledOnce
  <2>3. QED
    BY <2>2, <1>3 DEF PopIndex
<1>7. ASSUME NEW x \in Buffers, InPool(x), x # Head(pools[t]) PROVE InPool(x)'
  <2>1. PICK u \in Tiers : \E k \in 1..Len(pools[u]) : pools[u][k] = x
    BY <1>7 DEF InPool
  <2>5. PICK k \in 1..Len(pools[u]) : pools[u][k] = x
    BY <2>1
  <2>2. CASE u = t
    <3>1. k - 1 \in 1..Len(pools'[t]) /\ pools'[t][k - 1] = x
      BY <1>2, <1>3, <2>5, <2>2, <1>7
    <3>2. QED
      BY <3>1, <2>2 DEF InPool
  <2>3. CASE u # t
    BY <1>2, <2>5, <2>3 DEF InPool
  <2>4. QED
    BY <2>2, <2>3
<1>8. QED
  BY <1>4, <1>5, <1>6, <1>7

\* get reuses the front buffer of its tier: it leaves every slot for the
\* caller's PooledBuffer, with the capacity checked against the request.
LEMMA GetReuseIInv ==
  ASSUME IInv, TypeOK', NEW th \in Threads, NEW c \in Requests, GetReuse(th, c)
  PROVE  IInv'
<1> DEFINE t == BucketForSize(c)
           h == Head(pools[t])
<1>1. t \in Tiers
  BY BucketTier, ConstantsAssumption
<1>2. /\ held[th] = NoBuf /\ pools[t] # <<>> /\ cap[h] >= c
      /\ pools' = [pools EXCEPT ![t] = Tail(pools[t])]
      /\ held' = [held EXCEPT ![th] = h]
      /\ asked' = [asked EXCEPT ![th] = c]
      /\ UNCHANGED <<cap, alive>>
  BY DEF GetReuse
<1>3. /\ \A u \in Tiers : \A i \in 1..Len(pools'[u]) :
           /\ PopIndex(t, u, i) \in 1..Len(pools[u])
           /\ pools'[u][i] = pools[u][PopIndex(t, u, i)]
      /\ \A u \in Tiers : \A i \in 1..Len(pools'[u]) : pools'[u][i] # h
      /\ PooledOnce'
  BY <1>1, <1>2, PopSlots
<1>4. h = pools[t][1] /\ 1 \in 1..Len(pools[t])
  BY <1>1, <1>2, PopFacts DEF IInv, TypeOK
<1>5. h \in alive
  BY <1>1, <1>4 DEF IInv, PooledAlive
<1>6. PooledAlive' /\ TierFit'
  BY <1>2, <1>3 DEF IInv, PooledAlive, TierFit
<1>7. HeldAlive'
  BY <1>2, <1>5 DEF IInv, TypeOK, HeldAlive
<1>8. \A th2 \in Threads : held[th2] # h
  BY <1>1, <1>4 DEF IInv, HeldNotPooled, InPool
<1>9. HeldNotPooled'
  <2>1. \A th2 \in Threads \ {th} : ~InPool(held[th2])'
    BY <1>2, <1>3 DEF IInv, TypeOK, HeldNotPooled, InPool
  <2>2. ~\E u \in Tiers : \E i \in 1..Len(pools'[u]) : pools'[u][i] = h
    BY <1>3
  <2>3. QED
    BY <1>2, <2>1, <2>2 DEF IInv, TypeOK, HeldNotPooled, InPool
<1>10. HeldOnce'
  BY <1>2, <1>8 DEF IInv, TypeOK, HeldOnce
<1>11. GetSatisfies'
  BY <1>2 DEF IInv, TypeOK, GetSatisfies
<1>13. AliveCovered'
  <2> SUFFICES ASSUME NEW x \in alive
               PROVE  InPool(x)' \/ \E th2 \in Threads : held'[th2] = x
    BY <1>2 DEF AliveCovered
  <2>1. x \in Buffers
    BY DEF IInv, TypeOK
  <2>2. \A y \in Buffers : InPool(y) /\ y # h => InPool(y)'
    BY <1>1, <1>2, PopSlots
  <2>3. CASE x = h
    BY <2>3, <1>2 DEF IInv, TypeOK
  <2>4. CASE x # h /\ InPool(x)
    BY <2>1, <2>2, <2>4
  <2>5. CASE \E th2 \in Threads : held[th2] = x
    BY <2>1, <2>5, <1>2, ConstantsAssumption DEF IInv, TypeOK
  <2>6. QED
    BY <2>3, <2>4, <2>5 DEF IInv, AliveCovered
<1>12. QED
  BY <1>3, <1>6, <1>7, <1>9, <1>10, <1>11, <1>13 DEF IInv

\* A dead buffer is in no slot and held by no thread.
LEMMA DeadNowhere ==
  ASSUME IInv, NEW b \in Buffers \ alive
  PROVE  /\ \A u \in Tiers : \A i \in 1..Len(pools[u]) : pools[u][i] # b
         /\ \A th \in Threads : held[th] # b
  BY ConstantsAssumption DEF IInv, PooledAlive, HeldAlive

\* get on an empty tier allocates round_up_capacity(c) bytes to a buffer
\* that was dead, so no slot and no other holder is affected.
LEMMA GetAllocateIInv ==
  ASSUME IInv, TypeOK', NEW th \in Threads, NEW c \in Requests, GetAllocate(th, c)
  PROVE  IInv'
<1>1. PICK b \in Buffers \ alive :
         /\ cap' = [cap EXCEPT ![b] = RoundUpCapacity(c)]
         /\ alive' = alive \cup {b}
         /\ held' = [held EXCEPT ![th] = b]
  BY DEF GetAllocate, Allocate
<1>2. /\ held[th] = NoBuf
      /\ asked' = [asked EXCEPT ![th] = c]
      /\ UNCHANGED pools
  BY DEF GetAllocate
<1>3. /\ \A u \in Tiers : \A i \in 1..Len(pools[u]) : pools[u][i] # b
      /\ \A th2 \in Threads : held[th2] # b
  BY DeadNowhere
<1>4. RoundUpCapacity(c) \in Nat /\ RoundUpCapacity(c) >= c
  BY RoundUp
<1>5. PooledAlive' /\ HeldAlive'
  BY <1>1, <1>2 DEF IInv, TypeOK, PooledAlive, HeldAlive
<1>6. HeldNotPooled'
  BY <1>1, <1>2, <1>3 DEF IInv, TypeOK, HeldNotPooled, InPool
<1>7. HeldOnce'
  BY <1>1, <1>2, <1>3 DEF IInv, TypeOK, HeldOnce
<1>8. PooledOnce'
  BY <1>2 DEF IInv, PooledOnce
<1>9. TierFit'
  BY <1>1, <1>2, <1>3 DEF IInv, TypeOK, TierFit
<1>10. GetSatisfies'
  BY <1>1, <1>2, <1>3, <1>4 DEF IInv, TypeOK, GetSatisfies
<1>12. AliveCovered'
  <2> SUFFICES ASSUME NEW x \in alive'
               PROVE  InPool(x)' \/ \E th2 \in Threads : held'[th2] = x
    BY DEF AliveCovered
  <2>1. CASE x = b
    BY <2>1, <1>1 DEF IInv, TypeOK
  <2>2. CASE x \in alive /\ InPool(x)
    BY <2>2, <1>2 DEF InPool
  <2>3. CASE x \in alive /\ \E th2 \in Threads : held[th2] = x
    BY <2>3, <1>1, <1>2, ConstantsAssumption DEF IInv, TypeOK
  <2>4. QED
    BY <1>1, <2>1, <2>2, <2>3 DEF IInv, AliveCovered
<1>11. QED
  BY <1>5, <1>6, <1>7, <1>8, <1>9, <1>10, <1>12 DEF IInv

\* get drops a too-small front buffer and allocates: the new buffer is the
\* dropped one or a dead one, in no slot after the pop and held by nobody.
LEMMA GetDropSmallIInv ==
  ASSUME IInv, TypeOK', NEW th \in Threads, NEW c \in Requests, GetDropSmall(th, c)
  PROVE  IInv'
<1> DEFINE t == BucketForSize(c)
           h == Head(pools[t])
<1>1. t \in Tiers
  BY BucketTier, ConstantsAssumption
<1>2. /\ held[th] = NoBuf /\ pools[t] # <<>>
      /\ pools' = [pools EXCEPT ![t] = Tail(pools[t])]
      /\ asked' = [asked EXCEPT ![th] = c]
  BY DEF GetDropSmall
<1>3. PICK b \in Buffers \ (alive \ {h}) :
         /\ cap' = [cap EXCEPT ![b] = RoundUpCapacity(c)]
         /\ alive' = (alive \ {h}) \cup {b}
         /\ held' = [held EXCEPT ![th] = b]
  BY DEF GetDropSmall, Allocate
<1>4. /\ \A u \in Tiers : \A i \in 1..Len(pools'[u]) :
           /\ PopIndex(t, u, i) \in 1..Len(pools[u])
           /\ pools'[u][i] = pools[u][PopIndex(t, u, i)]
      /\ \A u \in Tiers : \A i \in 1..Len(pools'[u]) : pools'[u][i] # h
      /\ PooledOnce'
  BY <1>1, <1>2, PopSlots
<1>5. h = pools[t][1] /\ 1 \in 1..Len(pools[t])
  BY <1>1, <1>2, PopFacts DEF IInv, TypeOK
<1>6. \A th2 \in Threads : held[th2] # h
  BY <1>1, <1>5 DEF IInv, HeldNotPooled, InPool
<1>7. /\ \A u \in Tiers : \A i \in 1..Len(pools'[u]) : pools'[u][i] # b
      /\ \A th2 \in Threads : held[th2] # b
  <2>1. CASE b = h
    BY <1>4, <1>6, <2>1
  <2>2. CASE b # h
    BY <1>4, <2>2, DeadNowhere
  <2>3. QED
    BY <2>1, <2>2
<1>8. RoundUpCapacity(c) \in Nat /\ RoundUpCapacity(c) >= c
  BY RoundUp
<1>9. PooledAlive'
  BY <1>3, <1>4 DEF IInv, PooledAlive
<1>10. HeldAlive'
  BY <1>3, <1>6 DEF IInv, TypeOK, HeldAlive
<1>11. HeldNotPooled'
  <2>1. ASSUME NEW th2 \in Threads \ {th}, NEW u \in Tiers,
               NEW i \in 1..Len(pools'[u]), pools'[u][i] = held[th2]
        PROVE  FALSE
    <3>1. pools[u][PopIndex(t, u, i)] = held[th2] /\ PopIndex(t, u, i) \in 1..Len(pools[u])
      BY <1>4, <2>1
    <3>2. QED
      BY <3>1 DEF IInv, HeldNotPooled, InPool
  <2>2. ~\E u \in Tiers : \E i \in 1..Len(pools'[u]) : pools'[u][i] = b
    BY <1>7
  <2>3. QED
    BY <1>3, <2>1, <2>2 DEF IInv, TypeOK, HeldNotPooled, InPool
<1>12. HeldOnce'
  BY <1>3, <1>2, <1>7 DEF IInv, TypeOK, HeldOnce
<1>13. TierFit'
  <2> SUFFICES ASSUME NEW u \in Tiers, NEW i \in 1..Len(pools'[u])
               PROVE  /\ cap'[pools'[u][i]] >= TINY \div 2
                      /\ BucketForSize(cap'[pools'[u][i]]) = u
    BY DEF TierFit
  <2>1. pools'[u][i] = pools[u][PopIndex(t, u, i)] /\ PopIndex(t, u, i) \in 1..Len(pools[u])
    BY <1>4
  <2>2. cap'[pools'[u][i]] = cap[pools[u][PopIndex(t, u, i)]]
    BY <1>3, <1>7, <2>1 DEF IInv, TypeOK
  <2>3. QED
    BY <2>1, <2>2 DEF IInv, TierFit
<1>14. GetSatisfies'
  BY <1>2, <1>3, <1>7, <1>8 DEF IInv, TypeOK, GetSatisfies
<1>16. AliveCovered'
  <2> SUFFICES ASSUME NEW x \in alive'
               PROVE  InPool(x)' \/ \E th2 \in Threads : held'[th2] = x
    BY DEF AliveCovered
  <2>1. \A y \in Buffers : InPool(y) /\ y # h => InPool(y)'
    BY <1>1, <1>2, PopSlots
  <2>2. CASE x = b
    BY <2>2, <1>3 DEF IInv, TypeOK
  <2>3. CASE x \in alive \ {h} /\ InPool(x)
    BY <2>1, <2>3 DEF IInv, TypeOK
  <2>4. CASE x \in alive \ {h} /\ \E th2 \in Threads : held[th2] = x
    BY <2>4, <1>2, <1>3, ConstantsAssumption DEF IInv, TypeOK
  <2>5. QED
    BY <1>3, <2>2, <2>3, <2>4 DEF IInv, AliveCovered
<1>15. QED
  BY <1>4, <1>9, <1>10, <1>11, <1>12, <1>13, <1>14, <1>16 DEF IInv

\* put(b) of a buffer in no slot, whose capacity is c and stays so while
\* no other capacity changes: the pooled buffers stay alive, distinct and
\* in their tiers, and no buffer but b enters a slot.
LEMMA PutKeeps ==
  ASSUME IInv, NEW b \in Buffers, ~InPool(b), NEW c \in Nat, PoolPut(b, c),
         cap'[b] = c, \A x \in Buffers \ {b} : cap'[x] = cap[x]
  PROVE  /\ PooledAlive' /\ PooledOnce' /\ TierFit'
         /\ \A x \in Buffers \ {b} : InPool(x)' => InPool(x)
         /\ alive \ {b} \subseteq alive'
         /\ \A x \in Buffers : InPool(x) => InPool(x)'
         /\ b \in alive' => InPool(b)'
         /\ alive' \subseteq alive \cup {b}
<1> DEFINE t == BucketForSize(c)
<1>1. t \in Tiers
  BY BucketTier
<1>2. \A u \in Tiers : \A i \in 1..Len(pools[u]) : pools[u][i] # b
  BY DEF InPool
<1>3. \A u \in Tiers : \A i \in 1..Len(pools[u]) : cap'[pools[u][i]] = cap[pools[u][i]]
  BY <1>2 DEF IInv, TypeOK
<1>4. CASE /\ alive' = alive \ {b} /\ UNCHANGED pools
  <2>1. PooledAlive' /\ PooledOnce'
    BY <1>2, <1>4 DEF IInv, PooledAlive, PooledOnce
  <2>2. TierFit'
    BY <1>3, <1>4 DEF IInv, TierFit
  <2>3. QED
    BY <1>2, <1>4, <2>1, <2>2 DEF InPool
<1>5. CASE /\ c >= TINY \div 2
           /\ pools' = [pools EXCEPT ![t] = Append(pools[t], b)]
           /\ alive' = alive \cup {b}
  <2> DEFINE n == Len(pools[t])
  <2>1. /\ \A u \in Tiers \ {t} : pools'[u] = pools[u]
        /\ Len(pools'[t]) = n + 1
        /\ \A i \in 1..n : pools'[t][i] = pools[t][i]
        /\ pools'[t][n + 1] = b
    BY <1>1, <1>5, PushFacts DEF IInv, TypeOK
  <2>2. n \in Nat /\ \A u \in Tiers : Len(pools[u]) \in Nat
    BY <1>1, LenProperties DEF IInv, TypeOK
  \* Slot i of tier u after the put: an old slot, or the new last one of t.
  <2>3. \A u \in Tiers : \A i \in 1..Len(pools'[u]) :
           \/ i \in 1..Len(pools[u]) /\ pools'[u][i] = pools[u][i]
           \/ u = t /\ i = n + 1 /\ pools'[u][i] = b
    BY <2>1, <2>2
  <2>4. PooledAlive'
    BY <1>5, <2>3 DEF IInv, PooledAlive
  <2>5. PooledOnce'
    <3> SUFFICES ASSUME NEW u1 \in Tiers, NEW u2 \in Tiers,
                        NEW i \in 1..Len(pools'[u1]), NEW j \in 1..Len(pools'[u2]),
                        pools'[u1][i] = pools'[u2][j]
                 PROVE  u1 = u2 /\ i = j
      BY DEF PooledOnce
    <3>1. CASE i \in 1..Len(pools[u1]) /\ pools'[u1][i] = pools[u1][i]
               /\ j \in 1..Len(pools[u2]) /\ pools'[u2][j] = pools[u2][j]
      <4>1. pools[u1][i] = pools[u2][j]
        BY <3>1
      <4>2. QED
        BY <4>1, <3>1 DEF IInv, PooledOnce
    <3>2. CASE u1 = t /\ i = n + 1 /\ pools'[u1][i] = b
      BY <1>2, <2>3, <3>2
    <3>3. CASE u2 = t /\ j = n + 1 /\ pools'[u2][j] = b
      BY <1>2, <2>3, <3>3
    <3>4. QED
      BY <2>3, <3>1, <3>2, <3>3
  <2>6. TierFit'
    <3> SUFFICES ASSUME NEW u \in Tiers, NEW i \in 1..Len(pools'[u])
                 PROVE  /\ cap'[pools'[u][i]] >= TINY \div 2
                        /\ BucketForSize(cap'[pools'[u][i]]) = u
      BY DEF TierFit
    <3>1. CASE i \in 1..Len(pools[u]) /\ pools'[u][i] = pools[u][i]
      BY <1>3, <3>1 DEF IInv, TierFit
    <3>2. CASE u = t /\ i = n + 1 /\ pools'[u][i] = b
      BY <1>5, <3>2
    <3>3. QED
      BY <2>3, <3>1, <3>2
  <2>7. \A x \in Buffers \ {b} : InPool(x)' => InPool(x)
    BY <2>3 DEF InPool
  <2>8. \A x \in Buffers : InPool(x) => InPool(x)'
    BY <2>1, <2>2 DEF InPool
  <2>9. InPool(b)'
    <3>1. n + 1 \in 1..Len(pools'[t])
      BY <2>1, <2>2
    <3>2. QED
      BY <1>1, <2>1, <3>1 DEF InPool
  <2>10. QED
    BY <1>5, <2>4, <2>5, <2>6, <2>7, <2>8, <2>9
<1>6. QED
  BY <1>4, <1>5 DEF PoolPut

\* Dropping a PooledBuffer puts its Vec back: it was held by this thread
\* only and in no slot.
LEMMA ReleaseIInv ==
  ASSUME IInv, TypeOK', NEW th \in Threads, Release(th)
  PROVE  IInv'
<1>0. PICK b \in Buffers : b = held[th]
  BY DEF Release, IInv, TypeOK
<1>1. b \in Buffers /\ cap[b] \in Nat
  BY <1>0 DEF IInv, TypeOK
<1>2. /\ held' = [held EXCEPT ![th] = NoBuf]
      /\ PoolPut(b, cap[b])
      /\ UNCHANGED <<cap, asked>>
  BY <1>0 DEF Release
<1>3. ~InPool(b)
  BY <1>0 DEF IInv, HeldNotPooled
<1>4. \A th2 \in Threads \ {th} : held[th2] # b
  BY <1>0, <1>1, ConstantsAssumption DEF IInv, HeldOnce, TypeOK
<1>5. /\ PooledAlive' /\ PooledOnce' /\ TierFit'
      /\ \A x \in Buffers \ {b} : InPool(x)' => InPool(x)
      /\ alive \ {b} \subseteq alive'
  BY <1>1, <1>2, <1>3, PutKeeps
<1>6. HeldAlive' /\ HeldOnce'
  BY <1>2, <1>4, <1>5 DEF IInv, TypeOK, HeldAlive, HeldOnce
<1>7. HeldNotPooled'
  <2>1. ~InPool(NoBuf)'
    BY ConstantsAssumption DEF InPool, TypeOK
  <2>2. \A th2 \in Threads \ {th} : held[th2] = NoBuf \/ held[th2] \in Buffers \ {b}
    BY <1>4 DEF IInv, TypeOK
  <2>3. \A th2 \in Threads \ {th} : ~InPool(held[th2])'
    BY <1>2, <1>5, <2>1, <2>2 DEF IInv, HeldNotPooled
  <2>4. QED
    BY <1>2, <2>1, <2>3 DEF IInv, TypeOK, HeldNotPooled
<1>8. GetSatisfies'
  BY <1>2 DEF IInv, TypeOK, GetSatisfies
<1>10. AliveCovered'
  <2> SUFFICES ASSUME NEW x \in alive'
               PROVE  InPool(x)' \/ \E th2 \in Threads : held'[th2] = x
    BY DEF AliveCovered
  <2>1. /\ \A y \in Buffers : InPool(y) => InPool(y)'
        /\ b \in alive' => InPool(b)'
        /\ alive' \subseteq alive \cup {b}
    BY <1>1, <1>2, <1>3, PutKeeps
  <2>2. CASE x = b
    BY <2>1, <2>2
  <2>3. CASE x \in alive \ {b} /\ InPool(x)
    BY <2>1, <2>3 DEF IInv, TypeOK
  <2>4. CASE x \in alive \ {b} /\ \E th2 \in Threads : held[th2] = x
    BY <2>4, <1>0, <1>2 DEF IInv, TypeOK
  <2>5. QED
    BY <2>1, <2>2, <2>3, <2>4 DEF IInv, AliveCovered
<1>9. QED
  BY <1>5, <1>6, <1>7, <1>8, <1>10 DEF IInv

\* A Vec made elsewhere is put: it was dead, so held by no thread.
LEMMA PutFreshIInv ==
  ASSUME IInv, TypeOK', NEW c \in FreshCaps, PutFresh(c)
  PROVE  IInv'
<1>1. PICK b \in Buffers \ alive :
         /\ cap' = [cap EXCEPT ![b] = c]
         /\ PoolPut(b, c)
         /\ UNCHANGED <<held, asked, sidx, snap>>
  BY DEF PutFresh
<1>2. c \in Nat
  BY ConstantsAssumption
<1>3. /\ \A u \in Tiers : \A i \in 1..Len(pools[u]) : pools[u][i] # b
      /\ \A th \in Threads : held[th] # b
  BY DeadNowhere
<1>4. ~InPool(b)
  BY <1>3 DEF InPool
<1>5. /\ PooledAlive' /\ PooledOnce' /\ TierFit'
      /\ \A x \in Buffers \ {b} : InPool(x)' => InPool(x)
      /\ alive \ {b} \subseteq alive'
  BY <1>1, <1>2, <1>4, PutKeeps DEF IInv, TypeOK
<1>6. HeldAlive' /\ HeldOnce'
  BY <1>1, <1>3, <1>5 DEF IInv, TypeOK, HeldAlive, HeldOnce
<1>7. HeldNotPooled'
  <2>1. ~InPool(NoBuf)'
    BY ConstantsAssumption DEF InPool, TypeOK
  <2>2. \A th \in Threads : held[th] = NoBuf \/ held[th] \in Buffers \ {b}
    BY <1>3 DEF IInv, TypeOK
  <2>3. QED
    BY <1>1, <1>5, <2>1, <2>2 DEF IInv, HeldNotPooled
<1>8. GetSatisfies'
  BY <1>1, <1>3 DEF IInv, TypeOK, GetSatisfies
<1>10. AliveCovered'
  <2> SUFFICES ASSUME NEW x \in alive'
               PROVE  InPool(x)' \/ \E th2 \in Threads : held'[th2] = x
    BY DEF AliveCovered
  <2>1. /\ \A y \in Buffers : InPool(y) => InPool(y)'
        /\ b \in alive' => InPool(b)'
        /\ alive' \subseteq alive \cup {b}
    BY <1>1, <1>2, <1>4, PutKeeps DEF IInv, TypeOK
  <2>2. CASE x = b
    BY <2>1, <2>2
  <2>3. CASE x \in alive /\ InPool(x)
    BY <2>1, <2>3 DEF IInv, TypeOK
  <2>4. CASE x \in alive /\ \E th2 \in Threads : held[th2] = x
    BY <2>4, <1>1
  <2>5. QED
    BY <2>1, <2>2, <2>3, <2>4 DEF IInv, AliveCovered
<1>9. QED
  BY <1>5, <1>6, <1>7, <1>8, <1>10 DEF IInv

LEMMA InitIInv == Init => IInv
<1> SUFFICES ASSUME Init PROVE IInv
  OBVIOUS
<1>1. TypeOK
  BY InitTypeOK
<1>2. \A t \in Tiers : Len(pools[t]) = 0
  BY DEF Init
<1>3. \A th \in Threads : held[th] = NoBuf
  BY DEF Init
<1>5. alive = {}
  BY DEF Init
<1>4. QED
  BY <1>1, <1>2, <1>3, <1>5
  DEF IInv, PooledAlive, HeldAlive, HeldNotPooled, InPool, HeldOnce, PooledOnce,
      AliveCovered, TierFit, GetSatisfies

LEMMA NextIInv == IInv /\ [Next]_vars => IInv'
<1> SUFFICES ASSUME IInv, [Next]_vars PROVE IInv'
  OBVIOUS
<1>1. TypeOK'
  BY NextTypeOK DEF IInv
<1>2. CASE StatsBegin \/ StatsRead
  BY <1>1, <1>2, StatsIInv
<1>3. ASSUME NEW th \in Threads, NEW c \in Requests,
             GetReuse(th, c) \/ GetDropSmall(th, c) \/ GetAllocate(th, c)
      PROVE  IInv'
  BY <1>1, <1>3, GetReuseIInv, GetDropSmallIInv, GetAllocateIInv
<1>4. ASSUME NEW th \in Threads, Grow(th) \/ Take(th) \/ Release(th)
      PROVE  IInv'
  BY <1>1, <1>4, GrowIInv, TakeIInv, ReleaseIInv
<1>5. ASSUME NEW c \in FreshCaps, PutFresh(c) PROVE IInv'
  BY <1>1, <1>5, PutFreshIInv
<1>6. CASE UNCHANGED vars
  BY <1>6 DEF vars, IInv, TypeOK, PooledAlive, HeldAlive, HeldNotPooled, InPool,
            HeldOnce, PooledOnce, AliveCovered, TierFit, GetSatisfies
<1>7. QED
  BY <1>2, <1>3, <1>4, <1>5, <1>6 DEF Next

-----------------------------------------------------------------------------
(* The theorems                                                            *)

\* The places of a buffer, from IInv: one slot if it is pooled, one holder
\* if it is held, none if it is dead.
LEMMA IInvExclusive == IInv => Exclusive
<1> SUFFICES ASSUME IInv, NEW b \in Buffers
             PROVE  Cardinality(Slots(b)) + Cardinality(Holders(b))
                      = IF b \in alive THEN 1 ELSE 0
  BY DEF Exclusive
<1>1. CASE InPool(b)
  <2>1. PICK t \in Tiers : \E i \in 1..Len(pools[t]) : pools[t][i] = b
    BY <1>1 DEF InPool
  <2>2. PICK i \in 1..Len(pools[t]) : pools[t][i] = b
    BY <2>1
  <2>3. Slots(b) = {<<t, i>>}
    <3>1. \A u \in Tiers : \A j \in 1..Len(pools[u]) : pools[u][j] = b => u = t /\ j = i
      BY <2>2 DEF IInv, PooledOnce
    <3>2. QED
      BY <2>2, <3>1 DEF Slots
  <2>4. Holders(b) = {}
    BY <1>1 DEF IInv, HeldNotPooled, Holders
  <2>5. b \in alive
    BY <2>2 DEF IInv, PooledAlive
  <2>6. Cardinality({<<t, i>>}) = 1 /\ Cardinality({}) = 0
    BY FS_Singleton, FS_EmptySet
  <2>7. QED
    BY <2>3, <2>4, <2>5, <2>6
<1>2. CASE ~InPool(b) /\ \E th \in Threads : held[th] = b
  <2>1. PICK th \in Threads : held[th] = b
    BY <1>2
  <2>2. Slots(b) = {}
    BY <1>2 DEF Slots, InPool
  <2>3. Holders(b) = {th}
    BY <2>1, ConstantsAssumption DEF IInv, HeldOnce, Holders
  <2>4. b \in alive
    BY <2>1, ConstantsAssumption DEF IInv, HeldAlive
  <2>5. Cardinality({th}) = 1 /\ Cardinality({}) = 0
    BY FS_Singleton, FS_EmptySet
  <2>6. QED
    BY <2>2, <2>3, <2>4, <2>5
<1>3. CASE ~InPool(b) /\ ~\E th \in Threads : held[th] = b
  <2>1. Slots(b) = {} /\ Holders(b) = {}
    BY <1>3 DEF Slots, InPool, Holders
  <2>2. b \notin alive
    BY <1>3 DEF IInv, AliveCovered
  <2>3. QED
    BY <2>1, <2>2, FS_EmptySet
<1>4. QED
  BY <1>1, <1>2, <1>3

\* Every live buffer is in exactly one place, a slot of one tier or one
\* PooledBuffer, whatever get, put, take and the drops of PooledBuffers on
\* any threads do in between: no two writers ever share a Vec.
THEOREM ExclusiveCorrect == Spec => []Exclusive
  BY InitIInv, NextIInv, IInvExclusive, PTL DEF Spec

\* Every pooled buffer sits in the tier of its current capacity and is over
\* the 512-byte floor, whatever the owners did to the buffers they held:
\* get, put, the growth of a held Vec and take in any interleaving.
THEOREM TierFitCorrect == Spec => []TierFit
<1>1. IInv => TierFit
  BY DEF IInv
<1>2. QED
  BY InitIInv, NextIInv, <1>1, PTL DEF Spec

\* A PooledBuffer always has at least the capacity its owner asked for,
\* whichever buffer get took from the tier (spec: acquire(c) returns a
\* buffer of capacity >= c).
THEOREM GetSatisfiesCorrect == Spec => []GetSatisfies
<1>1. IInv => GetSatisfies
  BY DEF IInv
<1>2. QED
  BY InitIInv, NextIInv, <1>1, PTL DEF Spec

=============================================================================
