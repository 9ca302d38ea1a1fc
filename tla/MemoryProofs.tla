----------------------------- MODULE MemoryProofs -----------------------------
(***************************************************************************)
(* Proofs about Memory for any number of threads and blocks, any bound on  *)
(* the blocks a thread holds and any builder settings.                     *)
(***************************************************************************)
EXTENDS Memory, SequenceFacts, TLAPS

\* A thread that fills the queue found fewer blocks than a minimum above zero.
CheckStillHolds ==
  \A t \in Thread : pc[t] = "fill" => minFree > 0

\* A pool with a setting at zero never gets a block.
UnfillableIsEmpty ==
  minFree = 0 \/ maxFree = 0 => /\ free = <<>>
                                /\ \A t \in Thread : held[t] = {}

\* The inductive invariant: what the checks rely on between the steps of a
\* call, added to the properties themselves.
IInv ==
  /\ TypeOK
  /\ MutualExclusion
  /\ BlocksOwnedOnce
  /\ CheckStillHolds
  /\ UnfillableIsEmpty
  /\ PoisonedOnlyIfUnfillable

\* A pool as it is built satisfies the invariant.
LEMMA InitInv == Init => IInv
<1> SUFFICES ASSUME Init PROVE IInv
  OBVIOUS
<1> USE MemoryAssumption
<1>1. minFree \in Nat /\ maxFree \in Nat
  BY DEF Init
<1> DEFINE n == IF NeedsFill(0) THEN maxFree ELSE 0
<1>2. free \in Injection(1..n, Block) /\ n \in Nat
  BY <1>1 DEF Init
<1>3. free \in [1..n -> Block] /\ IsInjective(free)
  BY <1>2 DEF Injection
<1>4. free \in Seq(Block) /\ Len(free) = n
  BY <1>2, <1>3
<1>5. TypeOK
  BY <1>1, <1>4 DEF Init, TypeOK
<1>6. MutualExclusion
  BY DEF Init, MutualExclusion
<1>7. BlocksOwnedOnce
  BY <1>3 DEF Init, BlocksOwnedOnce
<1>8. CheckStillHolds
  BY DEF Init, CheckStillHolds
<1>9. UnfillableIsEmpty
  BY <1>1, <1>4 DEF Init, UnfillableIsEmpty, NeedsFill
<1> QED
  BY <1>5, <1>6, <1>7, <1>8, <1>9 DEF IInv, Init, PoisonedOnlyIfUnfillable

\* Every step of every call preserves the invariant.
LEMMA NextInv == IInv /\ [Next]_memVars => IInv'
<1> SUFFICES ASSUME IInv, [Next]_memVars PROVE IInv'
  OBVIOUS
<1> USE MemoryAssumption
<1>t. TypeOK
  BY DEF IInv
<1>f. free \in Seq(Block) /\ IsInjective(free)
  BY DEF IInv, TypeOK, BlocksOwnedOnce
<1>1. ASSUME NEW t \in Thread, TakeLock(t) PROVE IInv'
  <2> USE <1>1 DEF TakeLock, fields
  <2>0. \A u \in Thread : u # t => pc'[u] = "idle"
    BY <1>t DEF IInv, MutualExclusion, TypeOK
  <2>1. TypeOK'
    BY <1>t, <2>0 DEF TypeOK, NeedsFill
  <2>2. MutualExclusion'
    BY <1>t DEF IInv, MutualExclusion, TypeOK
  <2>3. BlocksOwnedOnce'
    BY DEF IInv, BlocksOwnedOnce, Spare
  <2>4. CheckStillHolds'
    BY <1>t DEF IInv, CheckStillHolds, NeedsFill, TypeOK
  <2> QED
    BY <2>1, <2>2, <2>3, <2>4 DEF IInv, UnfillableIsEmpty, PoisonedOnlyIfUnfillable
<1>2. ASSUME NEW t \in Thread, FillOne(t) PROVE IInv'
  <2> USE <1>2 DEF FillOne, fields
  <2>1. PICK b \in Unallocated : free' = <<b>> \o free
    OBVIOUS
  <2>2. /\ b \in Block /\ b \notin Range(free)
        /\ \A u \in Thread : b \notin held[u]
    BY <2>1 DEF Unallocated, Spare, HeldBlocks
  <2>3. /\ free' \in Seq(Block)
        /\ Len(free') = Len(free) + 1
        /\ IsInjective(free')
        /\ Range(free') = Range(free) \cup {b}
    BY ONLY <1>f, <2>1, <2>2, ConsFresh
  <2>4. TypeOK'
    BY <1>t, <2>3 DEF TypeOK
  <2>5. BlocksOwnedOnce'
    BY <2>2, <2>3 DEF IInv, BlocksOwnedOnce, Spare
  <2>6. Len(free) \in Nat
    BY <1>t DEF TypeOK
  <2>7. CheckStillHolds'
    BY <1>t, <2>3, <2>6 DEF IInv, CheckStillHolds, TypeOK
  <2>8. ~(minFree = 0 \/ maxFree = 0)
    BY <1>t, <2>6 DEF IInv, CheckStillHolds, TypeOK
  <2> QED
    BY <2>4, <2>5, <2>7, <2>8
    DEF IInv, MutualExclusion, UnfillableIsEmpty, PoisonedOnlyIfUnfillable
<1>3. ASSUME NEW t \in Thread, PopBack(t) PROVE IInv'
  <2> USE <1>3 DEF PopBack, fields
  <2> DEFINE b == Last(free)
  <2>1. /\ free' \in Seq(Block)
        /\ b \in Block
        /\ b \in Range(free)
        /\ IsInjective(free')
        /\ Range(free') = Range(free) \ {b}
    BY <1>t, FrontOfInjective DEF IInv, BlocksOwnedOnce, TypeOK
  <2>2. held' = [held EXCEPT ![t] = @ \cup {b}]
    OBVIOUS
  <2> HIDE DEF b
  <2>3. \A u \in Thread : pc'[u] = "idle"
    BY <1>t DEF IInv, MutualExclusion, TypeOK, FillDone
  <2>4. TypeOK'
    BY <1>t, <2>1, <2>2, <2>3 DEF TypeOK
  <2>5. BlocksOwnedOnce'
    BY <1>t, <2>1, <2>2 DEF IInv, BlocksOwnedOnce, Spare, TypeOK
  <2>6. ~(minFree = 0 \/ maxFree = 0)
    BY DEF IInv, UnfillableIsEmpty
  <2> QED
    BY <1>t, <2>3, <2>4, <2>5, <2>6
    DEF IInv, MutualExclusion, CheckStillHolds, UnfillableIsEmpty, PoisonedOnlyIfUnfillable
<1>4. ASSUME NEW t \in Thread, PopNothing(t) PROVE IInv'
  <2> USE <1>4 DEF PopNothing, fields
  <2>1. Len(free) = 0
    BY <1>t DEF TypeOK
  <2>2. minFree = 0 \/ maxFree = 0
    BY <1>t, <2>1 DEF IInv, CheckStillHolds, FillDone, TypeOK
  <2>3. \A u \in Thread : pc'[u] = "idle"
    BY <1>t DEF IInv, MutualExclusion, TypeOK, FillDone
  <2>4. TypeOK'
    BY <1>t DEF TypeOK
  <2>5. BlocksOwnedOnce'
    BY DEF IInv, BlocksOwnedOnce, Spare
  <2> QED
    BY <1>t, <2>2, <2>3, <2>4, <2>5
    DEF IInv, MutualExclusion, CheckStillHolds, UnfillableIsEmpty, PoisonedOnlyIfUnfillable
<1>5. ASSUME NEW t \in Thread, NEW b \in Block, Return(t, b) PROVE IInv'
  <2> USE <1>5 DEF Return, fields
  <2>1. b \notin Range(free)
    BY DEF IInv, BlocksOwnedOnce, Spare
  <2>2. /\ free' \in Seq(Block)
        /\ Len(free') = Len(free) + 1
        /\ IsInjective(free')
        /\ Range(free') = Range(free) \cup {b}
    BY <1>t, <2>1, AppendFresh DEF IInv, BlocksOwnedOnce, TypeOK
  <2>3. \A u \in Thread : pc'[u] = "idle"
    BY <1>t DEF IInv, MutualExclusion, TypeOK
  <2>4. TypeOK'
    BY <1>t, <2>2, <2>3 DEF TypeOK
  <2>5. BlocksOwnedOnce'
    BY <1>t, <2>2 DEF IInv, BlocksOwnedOnce, Spare, TypeOK
  <2>6. ~(minFree = 0 \/ maxFree = 0)
    BY DEF IInv, UnfillableIsEmpty
  <2> QED
    BY <1>t, <2>3, <2>4, <2>5, <2>6
    DEF IInv, MutualExclusion, CheckStillHolds, UnfillableIsEmpty, PoisonedOnlyIfUnfillable
<1>6. ASSUME NEW t \in Thread, CleanupLock(t) PROVE IInv'
  <2> USE <1>6 DEF CleanupLock, fields
  <2>1. TypeOK'
    BY <1>t DEF TypeOK
  <2>2. MutualExclusion'
    BY <1>t DEF IInv, MutualExclusion, TypeOK
  <2>3. BlocksOwnedOnce'
    BY DEF IInv, BlocksOwnedOnce, Spare
  <2>4. CheckStillHolds'
    BY <1>t DEF IInv, CheckStillHolds, TypeOK
  <2> QED
    BY <2>1, <2>2, <2>3, <2>4 DEF IInv, UnfillableIsEmpty, PoisonedOnlyIfUnfillable
<1>7. ASSUME NEW t \in Thread, CleanOne(t) PROVE IInv'
  <2> USE <1>7 DEF CleanOne, fields
  <2>1. free # <<>>
    BY <1>t DEF TypeOK
  <2>2. /\ free' \in Seq(Block)
        /\ IsInjective(free')
        /\ Range(free') \subseteq Range(free)
    BY <1>t, <2>1, TailOfInjective DEF IInv, BlocksOwnedOnce, TypeOK
  <2>3. \A u \in Thread : pc[u] \in {"idle", "clean"}
    BY <1>t DEF IInv, MutualExclusion, TypeOK
  <2>4. TypeOK'
    BY <1>t, <2>2, <2>3 DEF TypeOK
  <2>5. BlocksOwnedOnce'
    BY <2>2 DEF IInv, BlocksOwnedOnce, Spare
  <2>6. ~(minFree = 0 \/ maxFree = 0)
    BY <2>1 DEF IInv, UnfillableIsEmpty
  <2> QED
    BY <2>3, <2>4, <2>5, <2>6
    DEF IInv, MutualExclusion, CheckStillHolds, UnfillableIsEmpty, PoisonedOnlyIfUnfillable
<1>8. ASSUME NEW t \in Thread, CleanEnd(t) PROVE IInv'
  <2> USE <1>8 DEF CleanEnd, fields
  <2>1. TypeOK'
    BY <1>t DEF TypeOK
  <2>2. \A u \in Thread : pc'[u] = "idle"
    BY <1>t DEF IInv, MutualExclusion, TypeOK
  <2>3. BlocksOwnedOnce'
    BY DEF IInv, BlocksOwnedOnce, Spare
  <2> QED
    BY <2>1, <2>2, <2>3
    DEF IInv, MutualExclusion, CheckStillHolds, UnfillableIsEmpty, PoisonedOnlyIfUnfillable
<1>9. ASSUME UNCHANGED memVars PROVE IInv'
  BY <1>9 DEF memVars, fields, IInv, TypeOK, MutualExclusion, BlocksOwnedOnce, Spare,
              CheckStillHolds, UnfillableIsEmpty, PoisonedOnlyIfUnfillable
<1> QED
  BY <1>1, <1>2, <1>3, <1>4, <1>5, <1>6, <1>7, <1>8, <1>9 DEF Next, Locked, LockPoisoned

\* The invariant holds in every reachable state.
LEMMA Invariance == Spec => []IInv
BY InitInv, NextInv, PTL DEF Spec

\* The fields always have the types the code gives them.
THEOREM TypeCorrect == Spec => []TypeOK
<1>1. IInv => TypeOK
  BY DEF IInv
<1> QED
  BY <1>1, Invariance, PTL

\* The body of a call runs under the lock and alone.
THEOREM Exclusion == Spec => []MutualExclusion
<1>1. IInv => MutualExclusion
  BY DEF IInv
<1> QED
  BY <1>1, Invariance, PTL

\* No block is ever in two places, whatever the threads do.
THEOREM Ownership == Spec => []BlocksOwnedOnce
<1>1. IInv => BlocksOwnedOnce
  BY DEF IInv
<1> QED
  BY <1>1, Invariance, PTL

\* A pool with both settings above zero never panics inside take_block.
THEOREM NoPoison == Spec => []PoisonedOnlyIfUnfillable
<1>1. IInv => PoisonedOnlyIfUnfillable
  BY DEF IInv
<1> QED
  BY <1>1, Invariance, PTL

\* A pool that panics inside take_block never handed out a block.
THEOREM PoisonBeforeUse == Spec => []PoisonedPoolIsEmpty
<1>1. IInv => PoisonedPoolIsEmpty
  BY DEF IInv, PoisonedOnlyIfUnfillable, UnfillableIsEmpty, PoisonedPoolIsEmpty, HeldBlocks
<1> QED
  BY <1>1, Invariance, PTL

-----------------------------------------------------------------------------
(* The locked queue implements the abstract pool.                          *)

\* The number of blocks in the queue is the number of spare blocks.
LEMMA SpareCount ==
  IInv => /\ Spare \in SUBSET Block
          /\ Cardinality(Spare) = Len(free)
          /\ Len(free) \in Nat
          /\ maxFree \in Nat
<1> SUFFICES ASSUME IInv
             PROVE  /\ Spare \in SUBSET Block
                    /\ Cardinality(Spare) = Len(free)
                    /\ Len(free) \in Nat
                    /\ maxFree \in Nat
  OBVIOUS
<1>1. free \in Seq(Block) /\ IsInjective(free)
  BY DEF IInv, TypeOK, BlocksOwnedOnce
<1>2. Cardinality(Range(free)) = Len(free)
  BY ONLY <1>1, CardinalityOfInjective
<1>3. Range(free) \in SUBSET Block
  BY ONLY <1>1, RangeOfSeq
<1> QED
  BY <1>1, <1>2, <1>3 DEF Spare, IInv, TypeOK

\* The abstract pool counts blocks with the same operator.
LEMMA SameCardinality == \A S : Pool!Cardinality(S) = Cardinality(S)
BY DEF Pool!Cardinality, Cardinality

\* The pool starts like the abstract one.
LEMMA PoolInit == Init => Pool!Init
<1> SUFFICES ASSUME Init PROVE Pool!Init
  OBVIOUS
<1>1. IInv
  BY InitInv
<1>2. Len(free) <= maxFree
  <2>1. maxFree \in Nat
    BY <1>1, SpareCount
  <2> DEFINE n == IF NeedsFill(0) THEN maxFree ELSE 0
  <2>2. free \in [1..n -> Block]
    BY DEF Init, Injection
  <2> QED
    BY <2>1, <2>2
<1> QED
  BY <1>1, <1>2, SpareCount, SameCardinality DEF Pool!Init, Init

\* Every step is a step of the abstract pool or none of its business.
LEMMA PoolNext == IInv /\ [Next]_memVars => [Pool!Next]_(Pool!poolVars)
<1> SUFFICES ASSUME IInv, [Next]_memVars PROVE [Pool!Next]_(Pool!poolVars)
  OBVIOUS
<1>t. TypeOK /\ BlocksOwnedOnce
  BY DEF IInv
<1>f. free \in Seq(Block) /\ IsInjective(free)
  BY <1>t DEF TypeOK, BlocksOwnedOnce
<1>1. ASSUME NEW t \in Thread, FillOne(t) PROVE Pool!Grow
  <2>1. PICK b \in Unallocated : free' = <<b>> \o free
    BY <1>1 DEF FillOne
  <2>2. b \in Block /\ b \notin Range(free)
    BY <2>1 DEF Unallocated, Spare
  <2>3. Range(free') = Range(free) \cup {b}
    BY ONLY <1>f, <2>1, <2>2, ConsFresh
  <2>4. b \in Pool!Unallocated
    BY <2>1 DEF Unallocated, HeldBlocks, Pool!Unallocated, Pool!Held
  <2>5. Cardinality(Spare) < maxFree
    BY <1>1, SpareCount DEF FillOne
  <2>6. UNCHANGED <<maxFree, held>>
    BY <1>1 DEF FillOne, fields
  <2> QED
    BY <2>3, <2>4, <2>5, <2>6, SameCardinality DEF Pool!Grow, Spare
<1>2. ASSUME NEW t \in Thread, PopBack(t) PROVE Pool!Take(t)
  <2> DEFINE b == Last(free)
  <2>1. free # <<>> /\ free' = Front(free) /\ UNCHANGED maxFree
    BY <1>2 DEF PopBack, fields
  <2>2. b \in Range(free) /\ Range(free') = Range(free) \ {b}
    BY ONLY <1>f, <2>1, FrontOfInjective
  <2>3. held' = [held EXCEPT ![t] = @ \cup {b}]
    BY <1>2 DEF PopBack
  <2> HIDE DEF b
  <2>4. \E x \in Spare \cup {} : /\ Spare' = (Spare \cup {}) \ {x}
                               /\ held' = [held EXCEPT ![t] = @ \cup {x}]
    BY <2>2, <2>3 DEF Spare
  <2>5. {} \in SUBSET Pool!Unallocated
    OBVIOUS
  <2> QED
    BY <2>1, <2>4, <2>5 DEF Pool!Take
<1>3. ASSUME NEW t \in Thread, NEW b \in Block, Return(t, b) PROVE Pool!Return(t)
  <2>1. /\ b \in held[t]
        /\ free' = Append(free, b)
        /\ held' = [held EXCEPT ![t] = @ \ {b}]
        /\ UNCHANGED maxFree
    BY <1>3 DEF Return, fields
  <2>2. b \notin Range(free)
    BY <1>t, <2>1 DEF BlocksOwnedOnce, Spare
  <2>3. Range(free') = Range(free) \cup {b}
    BY ONLY <1>f, <2>1, <2>2, AppendFresh
  <2> QED
    BY <2>1, <2>3 DEF Pool!Return, Spare
<1>4. ASSUME NEW t \in Thread, CleanOne(t) PROVE Pool!Shrink
  <2>1. /\ Len(free) > maxFree
        /\ free' = Tail(free)
        /\ UNCHANGED <<maxFree, held>>
    BY <1>4 DEF CleanOne, fields
  <2>2. free # <<>>
    BY <2>1, SpareCount
  <2>3. free[1] \in Range(free) /\ Range(free') = Range(free) \ {free[1]}
    BY ONLY <1>f, <2>1, <2>2, TailOfInjective
  <2> QED
    BY <2>1, <2>3, SpareCount, SameCardinality DEF Pool!Shrink, Spare
<1>5. ASSUME NEW t \in Thread, TakeLock(t) \/ PopNothing(t) \/ CleanupLock(t) \/ CleanEnd(t)
      PROVE  UNCHANGED Pool!poolVars
  BY <1>5 DEF TakeLock, PopNothing, CleanupLock, CleanEnd, Pool!poolVars, Spare, fields
<1>6. ASSUME UNCHANGED memVars PROVE UNCHANGED Pool!poolVars
  BY <1>6 DEF memVars, fields, Pool!poolVars, Spare
<1> QED
  BY <1>1, <1>2, <1>3, <1>4, <1>5, <1>6 DEF Next, Locked, LockPoisoned, Pool!Next

\* Lock, queue and loops together behave as the abstract pool: every block is
\* spare or with one client, growth stops at maxFree, trimming above it.
THEOREM Refinement == Spec => ImplementsPool
BY Invariance, PoolInit, PoolNext, PTL DEF Spec, ImplementsPool, Pool!Spec

-----------------------------------------------------------------------------
(* The blocks in use are bounded.                                          *)

\* A thread holds HeldMax blocks at most, and fewer while it takes one.
HeldBounded ==
  \A t \in Thread :
    /\ IsFiniteSet(held[t]) /\ Cardinality(held[t]) <= HeldMax
    /\ pc[t] \in {"fill", "pop"} => Cardinality(held[t]) < HeldMax

\* The blocks of a thread, numbered; the thread that holds a block.
Numbers(t) == CHOOSE n : n \in Injection(held[t], 1..Cardinality(held[t]))
Holder(b)  == CHOOSE t \in Thread : b \in held[t]

\* A thread with room left keeps the threads together below their limit: the
\* blocks in their hands are numbered by pairs of a thread and a number, and
\* one pair is not used.
LEMMA HeldCount ==
  ASSUME IsFiniteSet(Thread), HeldBounded,
         NEW t \in Thread, Cardinality(held[t]) < HeldMax
  PROVE  /\ IsFiniteSet(HeldBlocks)
         /\ Cardinality(HeldBlocks) < HeldMax * Cardinality(Thread)
<1> DEFINE Pairs == Thread \X (1..HeldMax)
           Free  == <<t, HeldMax>>
           f     == [b \in HeldBlocks |-> <<Holder(b), Numbers(Holder(b))[b]>>]
<1>1. HeldMax \in Nat \ {0}
  BY MemoryAssumption
<1>2. /\ IsFiniteSet(Pairs)
      /\ Cardinality(Pairs) = Cardinality(Thread) * HeldMax
      /\ Cardinality(Thread) \in Nat
  <2>1. IsFiniteSet(1..HeldMax) /\ Cardinality(1..HeldMax) = HeldMax
    BY <1>1, FS_Interval
  <2>2. /\ IsFiniteSet(Pairs)
        /\ Cardinality(Pairs) = Cardinality(Thread) * Cardinality(1..HeldMax)
    BY <2>1, FS_Product, Zenon
  <2> QED BY <2>1, <2>2, FS_CardinalityType, Zenon
<1>3. /\ IsFiniteSet(Pairs \ {Free})
      /\ Cardinality(Pairs \ {Free}) = Cardinality(Pairs) - 1
  <2>1. Free \in Pairs
    BY <1>1
  <2> HIDE DEF Free, Pairs
  <2> QED BY <1>2, <2>1, FS_RemoveElement, Zenon
<1>4. ASSUME NEW u \in Thread
      PROVE  /\ Cardinality(held[u]) \in Nat
             /\ Numbers(u) \in Injection(held[u], 1..Cardinality(held[u]))
  <2>1. /\ Cardinality(held[u]) \in Nat
        /\ ExistsBijection(1..Cardinality(held[u]), held[u])
    BY FS_CardinalityType DEF HeldBounded
  <2>2. ExistsBijection(held[u], 1..Cardinality(held[u]))
    BY <2>1, Fun_ExistsBijSymmetric
  <2> QED BY <2>1, <2>2 DEF ExistsBijection, Bijection, Numbers
<1>5. \A b \in HeldBlocks : Holder(b) \in Thread /\ b \in held[Holder(b)]
  BY DEF HeldBlocks, Holder
<1>6. \A b \in HeldBlocks : Numbers(Holder(b))[b] \in 1..Cardinality(held[Holder(b)])
  BY <1>4, <1>5 DEF Injection
<1>7. \A b \in HeldBlocks : f[b] \in Pairs \ {Free}
  <2> SUFFICES ASSUME NEW b \in HeldBlocks PROVE f[b] \in Pairs \ {Free}
    OBVIOUS
  <2>1. Cardinality(held[Holder(b)]) \in Nat /\ Cardinality(held[Holder(b)]) <= HeldMax
    BY <1>4, <1>5 DEF HeldBounded
  <2>2. Numbers(Holder(b))[b] \in 1..HeldMax
    BY <1>1, <1>6, <2>1
  <2>3. Holder(b) = t => Numbers(Holder(b))[b] < HeldMax
    BY <1>1, <1>6, <2>1
  <2> QED BY <1>1, <1>5, <2>2, <2>3
<1>8. \A b, c \in HeldBlocks : f[b] = f[c] => b = c
  BY <1>4, <1>5 DEF Injection, IsInjective
<1>9. f \in Injection(HeldBlocks, Pairs \ {Free})
  <2>1. f \in [HeldBlocks -> Pairs \ {Free}]
    BY <1>7
  <2> HIDE DEF f
  <2> QED BY <1>8, <2>1 DEF Injection, IsInjective
<1>10. IsFiniteSet(HeldBlocks) /\ Cardinality(HeldBlocks) <= Cardinality(Pairs \ {Free})
  <2> HIDE DEF f, Pairs, Free
  <2> QED BY <1>3, <1>9, FS_Injection
<1>11. Cardinality(HeldBlocks) \in Nat
  BY <1>10, FS_CardinalityType
<1> HIDE DEF Pairs, Free, f
<1> QED BY <1>1, <1>2, <1>3, <1>10, <1>11

\* The invariant of the bound.
Bounded == HeldBounded /\ IsFiniteSet(Spare \cup HeldBlocks) /\ PoolBounded

\* A pool as it is built is bounded.
LEMMA InitBounded ==
  ASSUME IsFiniteSet(Thread), Thread # {}, Init
  PROVE  Bounded
<1>1. HeldMax \in Nat \ {0} /\ Cardinality(Thread) \in Nat \ {0}
  BY MemoryAssumption, FS_CardinalityType, FS_EmptySet
<1>2. HeldMax * Cardinality(Thread) > 0
  BY <1>1
<1>3. HeldBlocks = {} /\ HeldBounded
  BY <1>1, FS_EmptySet DEF Init, HeldBlocks, HeldBounded
<1>4. /\ IsFiniteSet(Spare) /\ Cardinality(Spare) = Len(free)
      /\ Len(free) \in Nat /\ maxFree \in Nat
  <2>1. free \in Seq(Block) /\ IsInjective(free) /\ maxFree \in Nat
    BY InitInv DEF IInv, TypeOK, BlocksOwnedOnce
  <2> QED BY <2>1, CardinalityOfInjective DEF Spare
<1>5. Len(free) <= maxFree
  <2> DEFINE n == IF NeedsFill(0) THEN maxFree ELSE 0
  <2>1. free \in [1..n -> Block]
    BY DEF Init, Injection
  <2> QED BY <1>4, <2>1
<1>6. Spare \cup HeldBlocks = Spare
  BY <1>3
<1> QED BY <1>1, <1>2, <1>3, <1>4, <1>5, <1>6 DEF Bounded, PoolBounded

\* Blocks that change hands are in use before and after.
LEMMA NextBounded ==
  ASSUME IsFiniteSet(Thread), IInv, Bounded, [Next]_memVars
  PROVE  Bounded'
<1> DEFINE Used == Spare \cup HeldBlocks
<1>1. HeldMax \in Nat \ {0} /\ Cardinality(Thread) \in Nat /\ TypeOK
  BY MemoryAssumption, FS_CardinalityType DEF IInv
<1>2. maxFree' = maxFree /\ maxFree \in Nat
  BY <1>1 DEF Next, Locked, TakeLock, FillOne, PopBack, PopNothing, Return,
              CleanupLock, CleanOne, CleanEnd, LockPoisoned, memVars, fields, TypeOK
<1>3. ASSUME HeldBounded', Used' \subseteq Used PROVE Bounded'
  <2>1. IsFiniteSet(Used) /\ IsFiniteSet(Used') /\ Cardinality(Used') <= Cardinality(Used)
    BY <1>3, FS_Subset DEF Bounded
  <2>2. Cardinality(Used) \in Nat /\ Cardinality(Used') \in Nat
    BY <2>1, FS_CardinalityType
  <2> QED BY <1>1, <1>2, <1>3, <2>1, <2>2 DEF Bounded, PoolBounded
<1>4. ASSUME NEW t \in Thread, FillOne(t) PROVE Bounded'
  <2>1. HeldBounded' /\ HeldBlocks' = HeldBlocks
    BY <1>4 DEF Bounded, HeldBounded, FillOne, HeldBlocks
  <2>2. IsFiniteSet(HeldBlocks) /\ Cardinality(HeldBlocks) < HeldMax * Cardinality(Thread)
    BY <1>4, HeldCount DEF Bounded, HeldBounded, FillOne
  <2>3. free' \in Seq(Block) /\ IsInjective(free')
    BY NextInv DEF IInv, TypeOK, BlocksOwnedOnce
  <2>4. IsFiniteSet(Spare') /\ Cardinality(Spare') = Len(free') /\ Len(free') \in Nat
    BY ONLY <2>3, CardinalityOfInjective DEF Spare
  <2>5. Len(free') <= maxFree
    BY <1>1, <1>2, <1>4, <2>4 DEF FillOne, TypeOK
  <2>6. IsFiniteSet(Spare' \cup HeldBlocks)
        /\ Cardinality(Spare' \cup HeldBlocks) <= Cardinality(Spare') + Cardinality(HeldBlocks)
    <3> DEFINE A == Spare'
               B == HeldBlocks
    <3>1. IsFiniteSet(A) /\ IsFiniteSet(B)
      BY <2>2, <2>4
    <3> HIDE DEF A, B
    <3>2. /\ IsFiniteSet(A \cup B)
          /\ Cardinality(A \cup B) = Cardinality(A) + Cardinality(B) - Cardinality(A \cap B)
      BY ONLY <3>1, FS_Union
    <3>3. IsFiniteSet(A \cap B)
      BY ONLY <3>1, FS_Intersection
    <3>4. Cardinality(A) \in Nat /\ Cardinality(B) \in Nat /\ Cardinality(A \cap B) \in Nat
      BY ONLY <3>1, <3>3, FS_CardinalityType
    <3>5. Cardinality(A \cup B) <= Cardinality(A) + Cardinality(B)
      BY ONLY <3>2, <3>4
    <3> QED BY <3>2, <3>5 DEF A, B
  <2>7. /\ Cardinality(Spare' \cup HeldBlocks) \in Nat
        /\ Cardinality(HeldBlocks) \in Nat
        /\ HeldMax * Cardinality(Thread) \in Nat
    BY <1>1, <2>2, <2>6, FS_CardinalityType
  <2> QED BY <1>2, <2>1, <2>2, <2>4, <2>5, <2>6, <2>7 DEF Bounded, PoolBounded
<1>5. ASSUME NEW t \in Thread, PopBack(t) PROVE Bounded'
  <2> DEFINE b == Last(free)
  <2>1. b \in Spare /\ Spare' = Spare \ {b}
    BY <1>1, <1>5, FrontOfInjective DEF IInv, BlocksOwnedOnce, PopBack, TypeOK, Spare
  <2>2. held' = [held EXCEPT ![t] = @ \cup {b}]
    BY <1>5 DEF PopBack
  <2> HIDE DEF b
  <2>3. Used' \subseteq Used
    BY <1>1, <2>1, <2>2 DEF HeldBlocks, TypeOK
  <2>4. IsFiniteSet(held[t]) /\ Cardinality(held[t]) \in Nat /\ Cardinality(held[t]) < HeldMax
    BY <1>5, FS_CardinalityType DEF Bounded, HeldBounded, PopBack, FillDone
  <2>5. IsFiniteSet(held[t] \cup {b}) /\ Cardinality(held[t] \cup {b}) <= HeldMax
    <3>1. /\ IsFiniteSet(held[t] \cup {b})
          /\ \/ Cardinality(held[t] \cup {b}) = Cardinality(held[t])
             \/ Cardinality(held[t] \cup {b}) = Cardinality(held[t]) + 1
      BY <2>4, FS_AddElement, Zenon
    <3> QED BY <1>1, <2>4, <3>1
  <2>6. \A u \in Thread : pc'[u] = "idle"
    BY <1>1, <1>5 DEF IInv, MutualExclusion, PopBack, FillDone, TypeOK
  <2>7. HeldBounded'
    BY <1>1, <2>2, <2>5, <2>6 DEF Bounded, HeldBounded, TypeOK
  <2> QED BY <1>3, <2>3, <2>7
<1>6. ASSUME NEW t \in Thread, NEW b \in Block, Return(t, b) PROVE Bounded'
  <2>1. b \in held[t] /\ held' = [held EXCEPT ![t] = @ \ {b}] /\ pc' = pc
    BY <1>6 DEF Return
  <2>2. free \in Seq(Block) /\ IsInjective(free) /\ b \notin Range(free) /\ free' = Append(free, b)
    BY <1>1, <1>6 DEF IInv, BlocksOwnedOnce, Return, TypeOK, Spare
  <2>3. Spare' = Spare \cup {b}
    BY ONLY <2>2, AppendFresh DEF Spare
  <2>4. Used' \subseteq Used
    BY <1>1, <2>1, <2>3 DEF HeldBlocks, TypeOK
  <2>5. /\ IsFiniteSet(held[t] \ {b})
        /\ Cardinality(held[t] \ {b}) <= Cardinality(held[t])
        /\ Cardinality(held[t] \ {b}) \in Nat /\ Cardinality(held[t]) \in Nat
    BY FS_Subset, FS_CardinalityType DEF Bounded, HeldBounded
  <2>6. HeldBounded'
    BY <1>1, <2>1, <2>5 DEF Bounded, HeldBounded, TypeOK
  <2> QED BY <1>3, <2>4, <2>6
<1>7. ASSUME NEW t \in Thread,
             TakeLock(t) \/ CleanupLock(t) \/ LockPoisoned(t) \/ PopNothing(t) \/ CleanEnd(t)
      PROVE  Bounded'
  <2>1. free' = free /\ held' = held
    BY <1>7 DEF TakeLock, CleanupLock, LockPoisoned, PopNothing, CleanEnd, memVars
  <2>2. HeldBounded'
    BY <1>1, <1>7, <2>1 DEF Bounded, HeldBounded, TakeLock, CleanupLock, LockPoisoned,
                            PopNothing, CleanEnd, memVars, TypeOK
  <2> QED BY <1>3, <2>1, <2>2 DEF Spare, HeldBlocks
<1>8. ASSUME NEW t \in Thread, CleanOne(t) PROVE Bounded'
  <2>1. free # <<>> /\ held' = held /\ pc' = pc /\ free' = Tail(free)
    BY <1>1, <1>8 DEF CleanOne, TypeOK
  <2>2. Spare' \subseteq Spare
    BY <1>1, <2>1, TailOfInjective DEF IInv, BlocksOwnedOnce, TypeOK, Spare
  <2>3. HeldBounded' /\ HeldBlocks' = HeldBlocks
    BY <2>1 DEF Bounded, HeldBounded, HeldBlocks
  <2> QED BY <1>3, <2>2, <2>3
<1>9. CASE UNCHANGED memVars
  BY <1>9 DEF memVars, fields, Bounded, HeldBounded, PoolBounded, Spare, HeldBlocks
<1> QED BY <1>4, <1>5, <1>6, <1>7, <1>8, <1>9 DEF Next, Locked

\* However many threads take and return blocks in whatever order, fewer than
\* maxFree blocks exist beyond what the threads can hold: filling and a
\* return never add up to more (memory.rs:22-35).
THEOREM MemoryBounded ==
  IsFiniteSet(Thread) /\ Thread # {} => (Spec => []PoolBounded)
<1> SUFFICES ASSUME IsFiniteSet(Thread), Thread # {} PROVE Spec => []PoolBounded
  OBVIOUS
<1>1. Init => Bounded
  BY InitBounded
<1>2. IInv /\ Bounded /\ [Next]_memVars => Bounded'
  BY NextBounded
<1>3. Bounded => PoolBounded
  BY DEF Bounded
<1> QED BY <1>1, <1>2, <1>3, Invariance, PTL DEF Spec
=============================================================================
