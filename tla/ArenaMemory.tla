------------------------------ MODULE ArenaMemory ------------------------------
(***************************************************************************)
(* Theorems about the blocks of the arenas of Arena: who owns them, that   *)
(* the arenas are clients of the abstract pool of BlockPool, and that no   *)
(* call is left over in memory that was returned - but in an arena whose   *)
(* items hold its last handle.                                             *)
(***************************************************************************)
EXTENDS ArenaProofs

-----------------------------------------------------------------------------
(* What a step does to the blocks                                          *)

\* Arena a gets block b.
Gets(a, b) ==
  /\ TakeBlock(b) /\ chain' = [chain EXCEPT ![a] = Append(@, b)]
  /\ chain[a] = <<>> \/ (Born(a) /\ ~Building(a))

\* The construction of the arena thread t builds has failed.
GivesUp(t, a) ==
  /\ NewFails(t) /\ a = Last(stack[t]).arena /\ Owner[a] = t /\ Building(a)
  /\ chain' = [chain EXCEPT ![a] = <<>>] /\ spare' = spare

\* Thread t returns the last block of a dead arena.
Returns(t, a) ==
  /\ ReclaimBlock(t) /\ a = Last(stack[t]).arena /\ Owner[a] = t
  /\ chain[a] # <<>>
  /\ chain' = [chain EXCEPT ![a] = Front(@)] /\ spare' = spare \cup {Last(chain[a])}

\* The pool is freed.
Frees ==
  /\ \A a \in Arena : chain[a] = <<>>
  /\ chain' = chain /\ spare' = {}

\* An arena with memory has a block.
LEMMA FirstBlock ==
  ASSUME IInv, NEW a \in Arena, HasMemory(a) PROVE chain[a] # <<>>
<1>1. chain[a] \in Seq(Block)
  BY DEF IInv, Structure, TypeOK
<1> QED BY <1>1, InRange DEF HasMemory, Blocks

\* Placing a unit takes a block or leaves the blocks alone.
LEMMA Grows ==
  ASSUME IInv, NEW a \in Arena, Refs(a) # {}, PlaceUnit(a)
  PROVE  UNCHANGED <<chain, spare>> \/ \E b \in Block : Gets(a, b)
<1>1. Born(a) /\ ~Building(a)
  BY DEF IInv, Structure, Unseen
<1> QED BY <1>1 DEF PlaceUnit, Gets

\* Every step gets, gives up, returns or frees blocks, or leaves them alone.
LEMMA BlockSteps ==
  ASSUME IInv, [Next]_vars
  PROVE  \/ UNCHANGED <<chain, spare>>
         \/ Frees
         \/ \E a \in Arena, b \in Block : Gets(a, b)
         \/ \E t \in Thread, a \in Arena : GivesUp(t, a) \/ Returns(t, a)
<1> DEFINE Goal == \/ UNCHANGED <<chain, spare>>
                   \/ Frees
                   \/ \E a \in Arena, b \in Block : Gets(a, b)
                   \/ \E t \in Thread, a \in Arena : GivesUp(t, a) \/ Returns(t, a)
<1>a. TypeOK
  BY DEF IInv, Structure
<1>1. ASSUME NEW a \in Arena, ArenaNew(a) PROVE Goal
  <2>1. PICK b \in Block : TakeBlock(b) /\ chain' = [chain EXCEPT ![a] = <<b>>]
    BY <1>1 DEF ArenaNew
  <2>2. chain[a] = <<>>
    BY <1>1 DEF ArenaNew, IInv, Structure, ChainStarts
  <2>3. Append(<<>>, b) = <<b>>
    OBVIOUS
  <2>4. chain' = [chain EXCEPT ![a] = Append(@, b)]
    BY <1>a, <2>1, <2>2, <2>3 DEF TypeOK
  <2> QED BY <2>1, <2>2, <2>4 DEF Gets
<1>2. ASSUME NEW t \in Thread, NewFails(t) PROVE Goal
  <2>1. PICK a \in Arena : Last(stack[t]).arena = a /\ Owner[a] = t /\ Building(a)
    BY <1>2, Builds DEF NewFails
  <2>2. chain' = [chain EXCEPT ![a] = <<>>] /\ spare' = spare
    BY <1>2, <2>1 DEF NewFails
  <2> QED BY <1>2, <2>1, <2>2 DEF GivesUp
<1>3. ASSUME NEW t \in Thread, NEW h \in Handle, NewDone(t, h) PROVE Goal
  BY <1>3 DEF NewDone, pool
<1>4. ASSUME DropMemory PROVE Goal
  <2>1. CASE arcs' = 0
    <3>1. MemoryCount' /\ memRefs' \in 0..1 /\ chain' = chain
      BY <1>4, MemoryCountKeeps DEF DropMemory, storage
    <3>2. /\ IsFiniteSet({a \in Arena : Born(a)'})
          /\ Cardinality({a \in Arena : Born(a)'}) \in Nat
      BY ArenaAssumption, FS_Subset, FS_CardinalityType
    <3>3. Cardinality({a \in Arena : Born(a)'}) = 0
      BY <2>1, <3>1, <3>2 DEF MemoryCount
    <3>4. \A a \in Arena : ~Born(a)'
      BY <3>2, <3>3, FS_EmptySet
    <3>5. \A a \in Arena : chain[a] = <<>>
      BY <3>1, <3>4, StorageKeeps DEF ChainStarts
    <3> QED BY <1>4, <2>1, <3>1, <3>5 DEF DropMemory, Frees
  <2>2. CASE arcs' # 0
    BY <1>4, <2>2 DEF DropMemory, storage
  <2> QED BY <2>1, <2>2
<1>5. ASSUME NEW a \in Arena, Refs(a) # {}, PlaceUnit(a) PROVE Goal
  BY <1>5, Grows
<1>6. CASE Uploading
  <2>1. ASSUME NEW a \in Arena, NEW h \in Handle, NEW i \in Item, RegisterDropFn(a, h, i)
        PROVE  Goal
    BY <2>1 DEF RegisterDropFn, pool
  <2> QED BY <1>5, <1>6, <2>1 DEF Uploading, Upload, Usable
<1>7. ASSUME NEW t \in Thread, NextList(t) PROVE Goal
  <2>1. PICK a \in Arena : a = Last(stack[t]).arena
    BY <1>7, LinksOwn DEF NextList
  <2> QED BY <1>5, <1>7, <2>1 DEF NextList, IInv, Structure, Linking
<1>8. ASSUME NEW t \in Thread, ReclaimBlock(t) PROVE Goal
  <2>1. /\ Len(stack[t]) \in 1..Len(stack[t]) /\ Last(stack[t]) = stack[t][Len(stack[t])]
        /\ Last(stack[t]).at = "reclaim"
    BY <1>8, <1>a, Top DEF ReclaimBlock, At
  <2>2. PICK a \in Arena : a = Last(stack[t]).arena /\ Owner[a] = t
    BY <2>1, CallComplete
  <2>3. /\ HasMemory(a) /\ spare' = spare \cup {Last(chain[a])}
        /\ chain' = [chain EXCEPT ![a] = Front(@)]
    BY <1>8, <2>2 DEF ReclaimBlock
  <2> QED BY <1>8, <2>2, <2>3, FirstBlock DEF Returns
<1>9. CASE Births
  BY <1>1, <1>2, <1>3, <1>9 DEF Births
<1>10. CASE Storing
  BY <1>4, <1>5, <1>7, <1>8, <1>10 DEF Storing, UploadNoDrop, Usable
<1>11. CASE Handling \/ Walking \/ UNCHANGED vars
  BY <1>11, HandlingLeaves, WalkingLeaves DEF storage, pool, vars
<1> QED BY <1>6, <1>9, <1>10, <1>11, Kinds

\* A block that is taken is in no chain.
LEMMA TakenIsFree ==
  ASSUME BlocksOwnedOnce, NEW b, TakeBlock(b)
  PROVE  /\ \A c \in Arena : b \notin Blocks(c)
         /\ \A c \in Arena : Blocks(c) \cap spare' = {}
         /\ b \notin spare'
BY DEF TakeBlock, Unallocated, BlocksOwnedOnce

\* No step gives a block a second owner.
LEMMA OwnedOnceKeeps ==
  ASSUME IInv, BlocksOwnedOnce, [Next]_vars
  PROVE  BlocksOwnedOnce'
<1>a. chain \in [Arena -> Seq(Block)]
  BY DEF IInv, Structure, TypeOK
<1>o. \A a \in Arena : /\ IsInjective(chain[a])
                       /\ Range(chain[a]) \cap spare = {}
                       /\ \A b \in Arena \ {a} : Range(chain[a]) \cap Range(chain[b]) = {}
  BY DEF BlocksOwnedOnce, Blocks
<1>s. ASSUME \A a \in Arena : /\ IsInjective(chain'[a])
                              /\ Range(chain'[a]) \cap spare' = {}
                              /\ \A b \in Arena \ {a} : Range(chain'[a]) \cap Range(chain'[b]) = {}
      PROVE  BlocksOwnedOnce'
  BY <1>s DEF BlocksOwnedOnce, Blocks
<1>1. CASE chain' = chain /\ spare' \subseteq spare
  BY <1>1, <1>o, <1>s
<1>2. ASSUME NEW a \in Arena, NEW b \in Block, Gets(a, b) PROVE BlocksOwnedOnce'
  <2>1. TakeBlock(b) /\ chain' = [chain EXCEPT ![a] = Append(@, b)]
    BY <1>2 DEF Gets
  <2>2. /\ \A c \in Arena : b \notin Range(chain[c]) /\ Range(chain[c]) \cap spare' = {}
        /\ b \notin spare'
    BY <2>1, TakenIsFree DEF Blocks
  <2>3. /\ IsInjective(Append(chain[a], b))
        /\ Range(Append(chain[a], b)) = Range(chain[a]) \cup {b}
    BY <1>a, <1>o, <2>2, AppendFresh
  <2>4. /\ chain'[a] = Append(chain[a], b)
        /\ \A c \in Arena \ {a} : chain'[c] = chain[c]
    BY <1>a, <2>1
  <2>5. \A c \in Arena : IsInjective(chain'[c])
    BY <1>o, <2>3, <2>4
  <2>6. \A c \in Arena : Range(chain'[c]) \subseteq Range(chain[c]) \cup {b}
    BY <2>3, <2>4
  <2>7. \A c \in Arena : Range(chain'[c]) \cap spare' = {}
    BY <2>2, <2>6
  <2>8. ASSUME NEW c \in Arena, NEW d \in Arena \ {c}
        PROVE  Range(chain'[c]) \cap Range(chain'[d]) = {}
    <3>1. Range(chain[c]) \cap Range(chain[d]) = {}
      BY <1>o
    <3>2. CASE c # a
      <4>1. Range(chain'[c]) = Range(chain[c])
        BY <2>4, <3>2
      <4> QED BY <2>2, <2>6, <3>1, <4>1
    <3>3. CASE d # a
      <4>1. Range(chain'[d]) = Range(chain[d])
        BY <2>4, <3>3
      <4> QED BY <2>2, <2>6, <3>1, <4>1
    <3> QED BY <3>2, <3>3
  <2> QED BY <1>s, <2>5, <2>7, <2>8
<1>3. ASSUME NEW t \in Thread, NEW a \in Arena, GivesUp(t, a) PROVE BlocksOwnedOnce'
  <2>1. /\ chain'[a] = <<>> /\ spare' = spare
        /\ \A c \in Arena \ {a} : chain'[c] = chain[c]
    BY <1>a, <1>3 DEF GivesUp
  <2>2. IsInjective(<<>>) /\ Range(<<>>) = {}
    <3>1. DOMAIN <<>> = {}
      OBVIOUS
    <3> QED BY <3>1 DEF IsInjective, Range
  <2> QED BY <1>o, <1>s, <2>1, <2>2
<1>4. ASSUME NEW t \in Thread, NEW a \in Arena, Returns(t, a) PROVE BlocksOwnedOnce'
  <2>1. chain[a] # <<>> /\ chain[a] \in Seq(Block) /\ IsInjective(chain[a])
    BY <1>a, <1>o, <1>4 DEF Returns
  <2>2. /\ IsInjective(Front(chain[a])) /\ Last(chain[a]) \in Range(chain[a])
        /\ Range(Front(chain[a])) = Range(chain[a]) \ {Last(chain[a])}
    BY <2>1, FrontOfInjective
  <2>3. /\ chain'[a] = Front(chain[a]) /\ spare' = spare \cup {Last(chain[a])}
        /\ \A c \in Arena \ {a} : chain'[c] = chain[c]
    BY <1>a, <1>4 DEF Returns
  <2> QED BY <1>o, <1>s, <2>2, <2>3
<1> QED BY <1>1, <1>2, <1>3, <1>4, BlockSteps DEF Frees

\* A block belongs to the pool or to one place in one arena's chain, on
\* whichever threads arenas are built, used and dropped (arena.rs:452).
THEOREM BlocksHaveOneOwner == Spec => []BlocksOwnedOnce
<1>1. Init => BlocksOwnedOnce
  <2>1. IsInjective(<<>>) /\ Range(<<>>) = {}
    <3>1. DOMAIN <<>> = {}
      OBVIOUS
    <3> QED BY <3>1 DEF IsInjective, Range
  <2> QED BY <2>1 DEF Init, BlocksOwnedOnce, Blocks
<1>2. IInv /\ BlocksOwnedOnce /\ [Next]_vars => BlocksOwnedOnce'
  BY OwnedOnceKeeps
<1> QED BY <1>1, <1>2, Invariance, PTL DEF Spec

-----------------------------------------------------------------------------
(* The arenas are clients of the abstract pool                             *)

\* While it is built, an arena has one block.
OneBlock == \A a \in Arena : Building(a) => Len(chain[a]) = 1

\* The construction of an arena takes no second block.
LEMMA OneBlockKeeps ==
  ASSUME IInv, OneBlock, [Next]_vars
  PROVE  OneBlock'
<1> SUFFICES ASSUME NEW a \in Arena, Building(a)' PROVE Len(chain'[a]) = 1
  BY DEF OneBlock
<1>a. chain \in [Arena -> Seq(Block)] /\ chain' \in [Arena -> Seq(Block)]
  BY StorageKeeps DEF IInv, Structure, TypeOK
<1>1. chain'[a] # <<>>
  <2>1. meta'[a] \in Range(chain'[a])
    BY StorageKeeps DEF HasMemoryWhileUsed, HasMemory, Blocks
  <2> QED BY <1>a, <2>1, InRange
<1>2. CASE chain'[a] = chain[a]
  <2>1. Born(a)
    BY <1>1, <1>2 DEF IInv, Structure, ChainStarts
  <2>2. Building(a)
    BY <2>1, StillUnseen
  <2> QED BY <1>2, <2>2 DEF OneBlock
<1>3. ASSUME NEW b \in Block, Gets(a, b) PROVE Len(chain'[a]) = 1
  <2>1. chain[a] = <<>>
    BY <1>3, StillUnseen DEF Gets
  <2>2. chain'[a] = Append(<<>>, b)
    BY <1>a, <1>3, <2>1 DEF Gets
  <2>3. \A x : Len(Append(<<>>, x)) = 1
    OBVIOUS
  <2> QED BY <2>2, <2>3
<1>4. ASSUME NEW t \in Thread, Returns(t, a) PROVE FALSE
  <2>1. chain[a] # <<>> /\ chain'[a] = Front(chain[a]) /\ chain[a] \in Seq(Block)
    BY <1>a, <1>4 DEF Returns
  <2>2. Len(chain[a]) = 1
    <3>1. Born(a)
      BY <2>1 DEF IInv, Structure, ChainStarts
    <3> QED BY <3>1, StillUnseen DEF OneBlock
  <2>3. Len(chain'[a]) = Len(chain[a]) - 1 /\ chain'[a] \in Seq(Block)
    BY <2>1, Popped
  <2>4. Len(chain'[a]) = 0
    BY <2>2, <2>3
  <2> QED BY <1>1, <2>3, <2>4, EmptySeq
<1>5. ASSUME NEW t \in Thread, GivesUp(t, a) PROVE FALSE
  BY <1>a, <1>1, <1>5 DEF GivesUp
<1>6. ASSUME NEW c \in Arena, c # a,
             (\E b \in Block : Gets(c, b)) \/ \E t \in Thread : GivesUp(t, c) \/ Returns(t, c)
      PROVE  chain'[a] = chain[a]
  BY <1>a, <1>6 DEF Gets, GivesUp, Returns
<1> QED BY <1>2, <1>3, <1>4, <1>5, <1>6, BlockSteps DEF Frees

\* Cardinality means the same in BlockPool.
LEMMA CardinalityInPool == \A S : Pool!Cardinality(S) = Cardinality(S)
BY DEF Pool!Cardinality, Cardinality

\* The arenas start without blocks.
LEMMA PoolStarts == Init => Pool!Init
<1> SUFFICES ASSUME Init PROVE Pool!Init
  OBVIOUS
<1>1. spare \in SUBSET Block /\ Cardinality(spare) = MaxFree /\ MaxFree \in Nat
  BY ArenaAssumption DEF Init
<1>2. [a \in Arena |-> Blocks(a)] = [a \in Arena |-> {}]
  <2>1. Range(<<>>) = {}
    <3>1. DOMAIN <<>> = {}
      OBVIOUS
    <3> QED BY <3>1 DEF Range
  <2> QED BY <2>1 DEF Init, Blocks
<1> QED BY <1>1, <1>2, CardinalityInPool DEF Pool!Init

\* What a step does to the blocks is a step of the abstract pool.
LEMMA PoolSteps ==
  ASSUME IInv, BlocksOwnedOnce, OneBlock, [Next]_vars
  PROVE  [Pool!Next]_(Pool!poolVars)
<1>a. chain \in [Arena -> Seq(Block)] /\ chain' \in [Arena -> Seq(Block)] /\ spare \in SUBSET Block
  BY StorageKeeps DEF IInv, Structure, TypeOK
<1>u. Pool!Unallocated = Unallocated
  BY DEF Pool!Unallocated, Pool!Held, Unallocated
<1> DEFINE held == [a \in Arena |-> Range(chain[a])]
           heldNext == [a \in Arena |-> Range(chain'[a])]
<1>h. [a \in Arena |-> Blocks(a)] = held /\ [a \in Arena |-> Blocks(a)]' = heldNext
  BY DEF Blocks
<1>1. CASE UNCHANGED <<chain, spare>>
  BY <1>1 DEF Pool!poolVars, Blocks
<1>2. CASE Frees
  <2>1. Range(<<>>) = {}
    <3>1. DOMAIN <<>> = {}
      OBVIOUS
    <3> QED BY <3>1 DEF Range
  <2>2. Pool!Held = {}
    BY <1>2, <2>1 DEF Frees, Pool!Held, Blocks
  <2>3. spare' = {} /\ chain' = chain
    BY <1>2 DEF Frees
  <2>4. Pool!Destroy
    BY <1>h, <2>2, <2>3 DEF Pool!Destroy
  <2> QED BY <2>4 DEF Pool!Next
<1>3. ASSUME NEW a \in Arena, NEW b \in Block, Gets(a, b) PROVE Pool!Take(a)
  <2>1. TakeBlock(b) /\ chain' = [chain EXCEPT ![a] = Append(@, b)]
    BY <1>3 DEF Gets
  <2>2. PICK fresh \in SUBSET Unallocated : /\ Cardinality(fresh) = Shortfall
                                            /\ b \in spare \cup fresh
                                            /\ spare' = (spare \cup fresh) \ {b}
    BY <2>1 DEF TakeBlock
  <2>3. /\ IsFiniteSet(spare) /\ IsFiniteSet(fresh) /\ fresh \cap spare = {}
        /\ Cardinality(spare) \in Nat /\ Cardinality(fresh) \in Nat
    <3>1. fresh \subseteq Block /\ fresh \cap spare = {}
      BY <2>2 DEF Unallocated
    <3>2. IsFiniteSet(spare) /\ IsFiniteSet(fresh)
      BY <1>a, <3>1, ArenaAssumption, FS_Subset
    <3> QED BY <3>1, <3>2, FS_CardinalityType
  <2>4. fresh # {} => Cardinality(spare \cup fresh) <= MaxFree
    <3>1. Cardinality(spare \cup fresh) = Cardinality(spare) + Cardinality(fresh)
      <4>1. Cardinality(spare \cup fresh)
              = Cardinality(spare) + Cardinality(fresh) - Cardinality(spare \cap fresh)
        BY <2>3, FS_Union
      <4>2. Cardinality(spare \cap fresh) = 0
        <5>1. spare \cap fresh = {}
          BY <2>3
        <5> QED BY <5>1, FS_EmptySet
      <4> QED BY <2>3, <4>1, <4>2
    <3>2. fresh # {} => Cardinality(fresh) # 0
      BY <2>3, FS_EmptySet
    <3>3. fresh # {} => Cardinality(fresh) = MaxFree - Cardinality(spare)
      BY <2>2, <3>2 DEF Shortfall
    <3> QED BY <2>3, <3>1, <3>3, ArenaAssumption
  <2>5. heldNext = [held EXCEPT ![a] = @ \cup {b}]
    <3>1. b \notin Range(chain[a]) /\ IsInjective(chain[a]) /\ chain[a] \in Seq(Block)
      BY <1>a, <2>1, TakenIsFree DEF Blocks, BlocksOwnedOnce
    <3>2. Range(Append(chain[a], b)) = Range(chain[a]) \cup {b}
      BY <3>1, AppendFresh
    <3>3. chain'[a] = Append(chain[a], b) /\ \A c \in Arena \ {a} : chain'[c] = chain[c]
      BY <1>a, <2>1
    <3> QED BY <3>2, <3>3
  <2> HIDE DEF held, heldNext
  <2> QED BY <1>h, <1>u, <2>2, <2>4, <2>5, CardinalityInPool DEF Pool!Take
<1>4. ASSUME NEW t \in Thread, NEW a \in Arena, GivesUp(t, a) PROVE Pool!Discard(a)
  <2>1. /\ chain'[a] = <<>> /\ spare' = spare /\ Building(a)
        /\ \A c \in Arena \ {a} : chain'[c] = chain[c]
    BY <1>a, <1>4 DEF GivesUp
  <2>2. Len(chain[a]) = 1 /\ chain[a] \in Seq(Block)
    BY <1>a, <2>1 DEF OneBlock
  <2>3. \A x : x \in Range(chain[a]) <=> x = chain[a][1]
    <3>1. \A x : x \in Range(chain[a]) <=> \E i \in 1..1 : chain[a][i] = x
      BY <2>2, InRange
    <3>2. 1..1 = {1}
      OBVIOUS
    <3> QED BY <3>1, <3>2
  <2>4. Range(chain'[a]) = {}
    <3>1. DOMAIN <<>> = {}
      OBVIOUS
    <3> QED BY <2>1, <3>1 DEF Range
  <2>5. heldNext = [held EXCEPT ![a] = @ \ {chain[a][1]}] /\ chain[a][1] \in held[a]
    BY <2>1, <2>3, <2>4
  <2> HIDE DEF held, heldNext
  <2> QED BY <1>h, <2>1, <2>5 DEF Pool!Discard
<1>5. ASSUME NEW t \in Thread, NEW a \in Arena, Returns(t, a) PROVE Pool!Return(a)
  <2>1. /\ chain[a] # <<>> /\ chain[a] \in Seq(Block) /\ IsInjective(chain[a])
        /\ chain'[a] = Front(chain[a]) /\ spare' = spare \cup {Last(chain[a])}
        /\ \A c \in Arena \ {a} : chain'[c] = chain[c]
    BY <1>a, <1>5 DEF Returns, BlocksOwnedOnce
  <2>2. /\ Last(chain[a]) \in Range(chain[a])
        /\ Range(Front(chain[a])) = Range(chain[a]) \ {Last(chain[a])}
    BY <2>1, FrontOfInjective
  <2>3. heldNext = [held EXCEPT ![a] = @ \ {Last(chain[a])}] /\ Last(chain[a]) \in held[a]
    BY <2>1, <2>2
  <2> HIDE DEF held, heldNext
  <2> QED BY <1>h, <2>1, <2>3 DEF Pool!Return
<1> QED BY <1>1, <1>2, <1>3, <1>4, <1>5, BlockSteps DEF Pool!Next

\* Arenas take a block for their metadata and one whenever the last is full,
\* give them back one by one, and discard one if they cannot be completed: to
\* the abstract pool they are clients like any other.
THEOREM ArenasUsePool == Spec => ImplementsPool
<1>1. Init => OneBlock
  <2>1. \A x : <<>> # <<x>>
    OBVIOUS
  <2> QED BY <2>1, ArenaAssumption DEF Init, OneBlock, Building
<1>2. IInv /\ OneBlock /\ [Next]_vars => OneBlock'
  BY OneBlockKeeps
<1>3. IInv /\ BlocksOwnedOnce /\ OneBlock /\ [Next]_vars => [Pool!Next]_(Pool!poolVars)
  BY PoolSteps
<1> QED
  BY <1>1, <1>2, <1>3, PoolStarts, BlocksHaveOneOwner, Invariance, PTL
  DEF Spec, ImplementsPool, Pool!Spec

-----------------------------------------------------------------------------
(* Where the calls of a stack come from                                    *)

\* The k-th call of thread t was there before the step.
CallBefore(t, k) ==
  /\ k \in 1..Len(stack[t])
  /\ stack'[t][k].arena = stack[t][k].arena
  /\ \/ stack'[t][k] = stack[t][k]
     \/ stack[t][k].at = "exec" /\ stack'[t][k].at = "reclaim"
     \/ IsUnwound(t) /\ stack'[t][k].at = "unwind"
  /\ \A j \in 1..(k - 1) : stack'[t][j] = stack[t][j]

\* It is the call f that the step entered.
CallEntered(t, k, f) ==
  /\ Enters(t, f)
  /\ k = Len(stack[t]) + 1 /\ Len(stack'[t]) = k /\ stack'[t][k] = f
  /\ \A j \in 1..(k - 1) : stack'[t][j] = stack[t][j]

\* There is no third way.
LEMMA CallOrigin ==
  ASSUME IInv, [Next]_vars, NEW t \in Thread, NEW k \in 1..Len(stack'[t])
  PROVE  CallBefore(t, k) \/ \E f \in FrameOf : CallEntered(t, k, f)
<1>a. stack \in [Thread -> Seq(FrameOf)] /\ stack' \in [Thread -> Seq(FrameOf)]
  BY NestingKeeps DEF IInv, Structure, TypeOK, FrameOf
<1>b. TypeOK /\ Len(stack[t]) \in Nat /\ Len(stack'[t]) \in Nat
  BY <1>a DEF IInv, Structure
<1>1. CASE stack'[t] = stack[t]
  BY <1>1 DEF CallBefore
<1>2. ASSUME NEW f \in FrameOf, Enters(t, f) PROVE CallBefore(t, k) \/ CallEntered(t, k, f)
  <2>1. stack'[t] = Append(stack[t], f)
    BY <1>a, <1>2 DEF Enters
  <2>2. /\ Len(stack'[t]) = Len(stack[t]) + 1 /\ stack'[t][Len(stack[t]) + 1] = f
        /\ \A j \in 1..Len(stack[t]) : stack'[t][j] = stack[t][j]
    BY <1>a, <2>1, Pushed
  <2>3. CASE k = Len(stack[t]) + 1
    <3>1. \A j \in 1..(k - 1) : stack'[t][j] = stack[t][j]
      BY <1>b, <2>2, <2>3
    <3> QED BY <1>2, <2>2, <2>3, <3>1 DEF CallEntered
  <2>4. CASE k # Len(stack[t]) + 1
    <3>1. k \in 1..Len(stack[t]) /\ \A j \in 1..(k - 1) : j \in 1..Len(stack[t])
      BY <1>b, <2>2, <2>4
    <3> QED BY <2>2, <3>1 DEF CallBefore
  <2> QED BY <2>3, <2>4
<1>3. CASE Leaves(t)
  <2>1. stack'[t] = Front(stack[t]) /\ ~Idle(t)
    BY <1>a, <1>3 DEF Leaves
  <2>2. /\ Len(stack'[t]) = Len(stack[t]) - 1
        /\ \A j \in 1..(Len(stack[t]) - 1) : stack'[t][j] = stack[t][j]
    BY <1>b, <2>1, Top
  <2>3. k \in 1..Len(stack[t]) /\ \A j \in 1..k : j \in 1..(Len(stack[t]) - 1)
    BY <1>b, <2>2
  <2>4. stack'[t][k] = stack[t][k] /\ \A j \in 1..(k - 1) : stack'[t][j] = stack[t][j]
    BY <1>b, <2>2, <2>3
  <2> QED BY <2>3, <2>4 DEF CallBefore
<1>4. CASE GoesOn(t)
  <2>i. ~Idle(t)
    BY <1>4 DEF GoesOn, At
  <2>0. PICK m \in Nat : Len(stack[t]) = m + 1
    <3>1. Len(stack[t]) \in 1..Len(stack[t])
      BY <1>b, <2>i, Top
    <3>2. Len(stack[t]) - 1 \in Nat /\ Len(stack[t]) = (Len(stack[t]) - 1) + 1
      BY <1>b, <3>1
    <3> QED BY <3>2
  <2>1. /\ Last(stack[t]) = stack[t][m + 1] /\ Last(stack[t]) \in FrameOf
        /\ stack[t][m + 1].at = "exec"
        /\ Front(stack[t]) \in Seq(FrameOf) /\ Len(Front(stack[t])) = m
        /\ \A j \in 1..m : Front(stack[t])[j] = stack[t][j]
    BY <1>4, <1>b, <2>i, <2>0, Top DEF GoesOn, At
  <2>f. PICK f \in FrameOf : f = Frame("reclaim", stack[t][m + 1].arena, None)
    BY <2>1 DEF Frame, FrameOf, Step
  <2>2. stack'[t] = Append(Front(stack[t]), f)
    BY <1>a, <1>4, <2>1, <2>f DEF GoesOn
  <2>3. /\ Len(stack'[t]) = m + 1 /\ stack'[t][m + 1] = f
        /\ \A j \in 1..m : stack'[t][j] = Front(stack[t])[j]
    BY ONLY <2>0, <2>1, <2>2, Pushed
  <2>4. k \in 1..Len(stack[t]) /\ (k # m + 1 => k \in 1..m) /\ \A j \in 1..(k - 1) : j \in 1..m
    BY <2>0, <2>3
  <2>5. /\ stack'[t][k].arena = stack[t][k].arena
        /\ stack'[t][k] = stack[t][k] \/ (stack[t][k].at = "exec" /\ stack'[t][k].at = "reclaim")
        /\ \A j \in 1..(k - 1) : stack'[t][j] = stack[t][j]
    <3>1. \A j \in 1..m : stack'[t][j] = stack[t][j]
      BY <2>1, <2>3
    <3>2. f.at = "reclaim" /\ f.arena = stack[t][m + 1].arena
      BY <2>f DEF Frame
    <3>3. CASE k = m + 1
      BY <2>1, <2>3, <2>4, <3>1, <3>2, <3>3
    <3>4. CASE k # m + 1
      BY <2>4, <3>1, <3>4
    <3> QED BY <3>3, <3>4
  <2> QED BY <2>4, <2>5 DEF CallBefore
<1>5. CASE IsUnwound(t)
  <2>1. /\ ~Idle(t) /\ Last(stack[t]).at \in InsideDrop
        /\ Len(stack[t]) \in 1..Len(stack[t]) /\ Last(stack[t]) = stack[t][Len(stack[t])]
        /\ stack[t] \in Seq(FrameOf)
    BY <1>a, <1>b, <1>5, Top DEF IsUnwound, At, InsideDrop
  <2>2. Len(stack[t]) > 1
    BY <2>1 DEF IInv, Structure, Nesting, FrameNested
  <2>3. PICK m \in Nat : Len(stack[t]) = m + 2
    <3>1. Len(stack[t]) - 2 \in Nat /\ Len(stack[t]) = (Len(stack[t]) - 2) + 2
      BY <1>b, <2>2
    <3> QED BY <3>1
  <2>4. stack'[t] = Unwound(stack[t])
    BY <1>a, <1>5 DEF IsUnwound
  <2>5. /\ Len(stack'[t]) = m
        /\ \A j \in 1..(m - 1) : stack'[t][j] = stack[t][j]
        /\ m > 0 => stack'[t][m] = [stack[t][m] EXCEPT !.at = "unwind"]
    <3>1. Len(stack[t]) >= 2 /\ Len(stack[t]) - 2 = m /\ Len(stack[t]) - 3 = m - 1
      BY <2>3
    <3> QED BY <2>1, <2>4, <3>1, UnwoundCalls
  <2>6. /\ k \in 1..Len(stack[t]) /\ m > 0 /\ m \in 1..Len(stack[t])
        /\ (k # m => k \in 1..(m - 1)) /\ \A j \in 1..(k - 1) : j \in 1..(m - 1)
    <3>1. \A n \in Nat : \A l \in 1..n :
            /\ l \in 1..(n + 2) /\ n > 0 /\ n \in 1..(n + 2)
            /\ (l # n => l \in 1..(n - 1)) /\ \A j \in 1..(l - 1) : j \in 1..(n - 1)
      OBVIOUS
    <3>2. k \in 1..m
      BY <2>5
    <3> QED BY <2>3, <3>1, <3>2
  <2>7. stack[t][m] \in FrameOf
    BY <2>1, <2>6
  <2>8. stack'[t][m].arena = stack[t][m].arena /\ stack'[t][m].at = "unwind"
    BY <2>5, <2>6, <2>7 DEF FrameOf
  <2> QED BY <1>5, <2>5, <2>6, <2>8 DEF CallBefore
<1>6. ASSUME NEW u \in Thread, u # t,
             (\E f \in FrameOf : Enters(u, f)) \/ Leaves(u) \/ GoesOn(u) \/ IsUnwound(u)
      PROVE  stack'[t] = stack[t]
  BY <1>a, <1>6 DEF Enters, Leaves, GoesOn, IsUnwound
<1> QED BY <1>1, <1>2, <1>3, <1>4, <1>5, <1>6, CallSteps

-----------------------------------------------------------------------------
(* No call goes on in memory that was returned                             *)

\* From items of a, handles kept in items lead to b.
Leads(a, b) ==
  \A S \in SUBSET Arena :
    /\ \A c \in Arena : <<a, c>> \in MayHold => c \in S
    /\ \A c \in S, d \in Arena : <<c, d>> \in MayHold => d \in S
    => b \in S

\* No handle on a is ever dropped by a drop function that a's own drop
\* functions lead to, or the program keeps one more.
Safe(a) == ~Leads(a, a) \/ a \in Anchored

\* One more handle leads one arena further.
LEMMA LeadsOn ==
  ASSUME NEW a \in Arena, NEW b \in Arena, NEW c \in Arena, <<b, c>> \in MayHold,
         a = b \/ Leads(a, b)
  PROVE  Leads(a, c)
BY DEF Leads

\* What a call entered as the l-th leads from the k-th, except that a drop
\* function is in the arena whose chain is walked.
Below(t, k, l) ==
  \/ Leads(stack[t][k].arena, stack[t][l].arena)
  \/ stack[t][k].arena = stack[t][l].arena /\ stack[t][k].at = "exec" /\ l = k + 1

CallsInOrder ==
  \A t \in Thread : \A l \in 1..Len(stack[t]) : \A k \in 1..(l - 1) : Below(t, k, l)

\* The handles in the item being dropped are on arenas its own may hold
\* handles on.
LEMMA ReachesHeld ==
  ASSUME IInv, NEW t \in Thread, At(t, "user") \/ At(t, "unwind"),
         NEW a \in Arena, inside[User(t)] \cap Refs(a) # {}
  PROVE  <<Last(stack[t]).arena, a>> \in MayHold
<1>1. User(t) \in Item /\ home[User(t)] = Last(stack[t]).arena
  BY DropsOwn
<1>2. PICK h \in inside[User(t)] : h \in Refs(a)
  OBVIOUS
<1>3. PICK b \in Arena : h \in Refs(b) /\ <<home[User(t)], b>> \in MayHold
  BY <1>1 DEF IInv, Structure, HeldHere
<1>4. b = a
  BY <1>2, <1>3 DEF IInv, Structure, HandlesApart
<1> QED BY <1>1, <1>3, <1>4

\* Calls are in arenas.
LEMMA CallArena ==
  ASSUME TypeOK, NEW t \in Thread, NEW k \in 1..Len(stack[t])
  PROVE  stack[t][k].arena \in Arena
<1>1. stack[t] \in Seq(FrameOf)
  BY DEF TypeOK, FrameOf
<1>2. stack[t][k] \in FrameOf
  BY <1>1
<1> QED BY <1>2 DEF FrameOf

\* Every step keeps the calls of a stack in that order.
LEMMA CallsInOrderKeeps ==
  ASSUME IInv, CallsInOrder, [Next]_vars
  PROVE  CallsInOrder'
<1> SUFFICES ASSUME NEW t \in Thread, NEW l \in 1..Len(stack'[t]), NEW k \in 1..(l - 1)
             PROVE  Below(t, k, l)'
  BY DEF CallsInOrder
<1>a. TypeOK /\ stack \in [Thread -> Seq(FrameOf)]
  BY DEF IInv, Structure, TypeOK, FrameOf
<1>1. CASE CallBefore(t, l)
  BY <1>1 DEF CallBefore, CallsInOrder, Below
<1>2. ASSUME NEW f \in FrameOf, CallEntered(t, l, f) PROVE Below(t, k, l)'
  <2>1. PICK n \in Nat : n = Len(stack[t])
    BY <1>a
  <2>2. /\ l = n + 1 /\ stack'[t][l] = f /\ stack'[t][k] = stack[t][k]
        /\ k \in 1..n /\ n \in 1..Len(stack[t]) /\ n > 0
    BY <1>2, <2>1 DEF CallEntered
  <2>3. ~Idle(t) /\ Last(stack[t]) = stack[t][n]
    <3>1. ~Idle(t)
      BY <2>1, <2>2 DEF Idle
    <3> QED BY <1>a, <2>1, <3>1, Top
  <2>4. PICK a \in Arena, b \in Arena : a = stack[t][k].arena /\ b = stack[t][n].arena
    BY <1>a, <2>1, <2>2, CallArena
  <2>5. f.arena \in Arena
    BY DEF FrameOf
  <2>6. k # n => Below(t, k, n)
    <3>1. k # n => k \in 1..(n - 1)
      BY <2>2
    <3> QED BY <2>2, <3>1 DEF CallsInOrder
  <2>7. CASE Asks(t) /\ inside[User(t)] \cap Refs(f.arena) # {}
    <3>1. <<b, f.arena>> \in MayHold
      BY <2>3, <2>4, <2>5, <2>7, ReachesHeld DEF Asks
    <3>2. a = b \/ Leads(a, b)
      BY <2>4, <2>6 DEF Below
    <3>3. Leads(a, f.arena)
      BY ONLY <2>5, <3>1, <3>2, LeadsOn
    <3> QED BY <2>2, <2>4, <3>3 DEF Below
  <2>8. CASE At(t, "exec") /\ f.arena = stack[t][n].arena
    <3>0. stack[t][n].at = "exec"
      BY <2>3, <2>8 DEF At
    <3>1. CASE k = n
      BY <2>2, <2>8, <3>0, <3>1 DEF Below
    <3>2. CASE k # n
      <4>1. ~(stack[t][k].at = "exec" /\ n = k + 1)
        <5> SUFFICES ASSUME stack[t][k].at = "exec", n = k + 1 PROVE FALSE
          OBVIOUS
        <5>1. k \in 1..Len(stack[t]) /\ k < Len(stack[t])
          BY <2>1, <2>2
        <5>2. FrameNested(t, k)
          BY <5>1 DEF IInv, Structure, Nesting
        <5> QED BY <3>0, <5>1, <5>2 DEF FrameNested, InsideDrop
      <4>2. Leads(stack[t][k].arena, stack[t][n].arena)
        BY <2>6, <3>2, <4>1 DEF Below
      <4> QED BY <2>2, <2>8, <4>2 DEF Below
    <3> QED BY <3>1, <3>2
  <2>9. Enters(t, f)
    BY <1>2 DEF CallEntered
  <2> QED BY <2>3, <2>7, <2>8, <2>9 DEF Enters
<1> QED BY <1>1, <1>2, CallOrigin

\* The program keeps a handle of its own on an anchored arena that items hold
\* handles on.
AnchorsHold ==
  \A a \in Anchored : Refs(a) \cap Moved # {} => Refs(a) \cap Outside # {}

\* In an arena, the first call that walks the drop chain is its first call.
WalkedFirst ==
  \A t \in Thread : \A l \in 1..Len(stack[t]) : \A k \in 1..(l - 1) :
    stack[t][l].at = "exec" => stack[t][k].arena # stack[t][l].arena

\* A call that returns a safe arena's memory is the only call in that arena.
ReturnsAlone ==
  \A t \in Thread : \A l \in 1..Len(stack[t]) : \A k \in 1..(l - 1) :
    stack[t][l].at = "reclaim" /\ Safe(stack[t][l].arena) =>
      stack[t][k].arena # stack[t][l].arena

Orderly == CallsInOrder /\ AnchorsHold /\ WalkedFirst /\ ReturnsAlone

\* An arena's own handles are the program's if they are in no item.
LEMMA OwnIsOutside ==
  ASSUME NEW a \in Arena
  PROVE  Refs(a) \cap Outside = Refs(a) \ Moved
BY DEF Outside

\* A handle outside of all items stays while its arena's thread is in a drop
\* function.
LEMMA OwnStays ==
  ASSUME IInv, [Next]_vars, NEW a \in Arena, ~Idle(Owner[a]), NEW x, x \in Refs(a), x \notin Moved
  PROVE  x \in strongs'[a] \cup weaks'[a]
<1>a. /\ x \in strongs[a] \cup weaks[a]
      /\ strongs \in [Arena -> SUBSET Handle] /\ weaks \in [Arena -> SUBSET Handle]
  BY DEF Refs, IInv, Structure, TypeOK
<1>1. CASE UNCHANGED <<strongs, weaks>>
  BY <1>a, <1>1
<1>2. ASSUME NEW t \in Thread, NEW h \in Handle, NewDone(t, h)
      PROVE  strongs'[a] = strongs[a] /\ weaks'[a] = weaks[a]
  <2>1. PICK b \in Arena : Last(stack[t]).arena = b /\ Refs(b) = {}
    BY <1>2, Builds DEF NewDone
  <2>2. a # b /\ strongs' = [strongs EXCEPT ![b] = {h}] /\ weaks' = weaks
    BY <1>2, <2>1 DEF NewDone
  <2> QED BY <1>a, <2>2
<1>3. ASSUME NEW b \in Arena, NEW h \in Handle, NEW new \in Handle, Gains(b, h, new)
      PROVE  strongs[a] \subseteq strongs'[a] /\ weaks[a] \subseteq weaks'[a]
  BY <1>a, <1>3 DEF Gains
<1>4. ASSUME NEW t \in Thread, NEW b \in Arena, NEW h \in Handle, Loses(t, b, h)
      PROVE  x \in strongs'[a] \cup weaks'[a]
  <2>1. \/ strongs' = [strongs EXCEPT ![b] = @ \ {h}] /\ weaks' = weaks
        \/ strongs' = strongs /\ weaks' = [weaks EXCEPT ![b] = @ \ {h}]
    BY <1>4 DEF Loses, DropStrong, DropWeak
  <2>2. b # a \/ x # h
    BY <1>4 DEF Loses, Moved
  <2> QED BY ONLY <1>a, <2>1, <2>2
<1>5. CASE Births
  <2>1. ASSUME NEW b \in Arena, ArenaNew(b) PROVE UNCHANGED <<strongs, weaks>>
    BY <2>1 DEF ArenaNew, handles
  <2>2. ASSUME NEW t \in Thread, NewFails(t) PROVE UNCHANGED <<strongs, weaks>>
    BY <2>2 DEF NewFails, handles
  <2> QED BY <1>a, <1>1, <1>2, <1>5, <2>1, <2>2 DEF Births
<1>6. CASE Handling
  BY <1>a, <1>3, <1>4, <1>6, HandleSteps
<1>7. CASE Uploading \/ Storing \/ Walking \/ UNCHANGED vars
  BY <1>1, <1>7, UploadingLeaves, StoringLeaves, WalkingLeaves DEF handles, vars
<1> QED BY <1>5, <1>6, <1>7, Kinds

\* A program that keeps to the rule of its anchored arenas keeps a handle.
LEMMA AnchorsHoldKeeps ==
  ASSUME IInv, AnchorsHold, [Next]_vars
  PROVE  AnchorsHold'
<1> SUFFICES ASSUME NEW a \in Arena, a \in Anchored,
                    NEW i \in Item, NEW y, y \in strongs'[a] \cup weaks'[a], y \in inside'[i]
             PROVE  \E x \in strongs'[a] \cup weaks'[a] : \A j \in Item : x \notin inside'[j]
  BY ArenaAssumption DEF AnchorsHold, Outside, Moved, Refs
<1> DEFINE Own == strongs[a] \cup weaks[a]
           OwnNext == strongs'[a] \cup weaks'[a]
           Goal == \E x \in OwnNext : \A j \in Item : x \notin inside'[j]
<1>a. /\ strongs \in [Arena -> SUBSET Handle] /\ weaks \in [Arena -> SUBSET Handle]
      /\ inside \in [Item -> SUBSET Handle]
  BY DEF IInv, Structure, TypeOK
<1>b. ASSUME NEW j \in Item, NEW z, z \in Own, z \in inside[j]
      PROVE  \E x \in Own : \A k \in Item : x \notin inside[k]
  BY <1>b DEF AnchorsHold, Outside, Moved, Refs
<1>1. CASE UNCHANGED <<strongs, weaks, inside>>
  BY <1>b, <1>1
<1>2. ASSUME NEW t \in Thread, NEW h \in Handle, NewDone(t, h) PROVE Goal
  <2>1. PICK b \in Arena : Last(stack[t]).arena = b /\ Refs(b) = {}
    BY <1>2, Builds DEF NewDone
  <2>2. /\ strongs' = [strongs EXCEPT ![b] = {h}] /\ weaks' = weaks /\ inside' = inside
        /\ h \in Unused
    BY <1>2, <2>1 DEF NewDone
  <2>3. \A j \in Item : h \notin inside[j]
    BY <2>2, HeldExist
  <2>4. CASE a = b
    <3>1. OwnNext = {h}
      BY <1>a, <2>1, <2>2, <2>4 DEF Refs
    <3> QED BY <2>2, <2>3, <3>1
  <2>5. CASE a # b
    BY <1>a, <1>b, <2>2, <2>5
  <2> QED BY <2>4, <2>5
<1>3. ASSUME NEW b \in Arena, NEW h \in Handle, NEW new \in Handle, Gains(b, h, new)
      PROVE  Goal
  <2>1. /\ \/ strongs' = [strongs EXCEPT ![b] = @ \cup {new}] /\ weaks' = weaks
           \/ strongs' = strongs /\ weaks' = [weaks EXCEPT ![b] = @ \cup {new}]
        /\ h \in Refs(b) /\ new \in Unused
    BY <1>3 DEF Gains, Usable
  <2>2. OwnNext = IF a = b THEN Own \cup {new} ELSE Own
    BY <1>a, <2>1
  <2>3. new \notin Own /\ \A j \in Item : new \notin inside[j]
    BY <2>1, HeldExist DEF Unused, Refs
  <2>4. \A j \in Item : inside'[j] \subseteq inside[j] \cup {new}
    BY <1>3, <1>a DEF Gains, KeepsNew
  <2>5. CASE \E j \in Item : \E z \in Own : z \in inside[j]
    <3>1. PICK x \in Own : \A k \in Item : x \notin inside[k]
      BY <1>b, <2>5
    <3> QED BY <2>2, <2>3, <2>4, <3>1
  <2>6. CASE \A j \in Item : \A z \in Own : z \notin inside[j]
    <3>1. y = new /\ a = b
      <4>1. y \in inside[i] \cup {new}
        BY <2>4
      <4>2. y \notin Own => a = b /\ y = new
        BY <2>2
      <4>3. y \notin Own
        BY <2>3, <2>6, <4>1
      <4> QED BY <4>2, <4>3
    <3>2. h \in Own /\ \A j \in Item : h \notin inside[j]
      BY <2>1, <2>6, <3>1 DEF Refs
    <3> QED BY <2>2, <2>3, <2>4, <3>2
  <2> QED BY <2>5, <2>6
<1>4. ASSUME NEW b \in Arena, NEW h \in Handle, DropHandle(b, h) PROVE Goal
  <2>1. /\ \/ strongs' = [strongs EXCEPT ![b] = @ \ {h}] /\ weaks' = weaks
           \/ strongs' = strongs /\ weaks' = [weaks EXCEPT ![b] = @ \ {h}]
        /\ inside' = inside
    BY <1>4 DEF DropHandle, DropStrong, DropWeak
  <2>2. y \in Own /\ y \in inside[i]
    BY <1>a, <2>1
  <2>3. CASE a = b
    <3>1. PICK x : x \in Refs(a) /\ x \in Outside /\ x # h
      <4>1. Refs(a) \cap Moved # {}
        BY <2>2 DEF Refs, Moved
      <4> QED BY <1>4, <2>3, <4>1 DEF DropHandle, KeepsOneWithout
    <3>2. x \in OwnNext /\ \A j \in Item : x \notin inside[j]
      BY <1>a, <2>1, <2>3, <3>1 DEF Refs, Outside, Moved
    <3> QED BY <2>1, <3>2
  <2>4. CASE a # b
    BY <1>a, <1>b, <2>1, <2>2, <2>4
  <2> QED BY <2>3, <2>4
<1>5. ASSUME NEW t \in Thread, NEW h \in Handle, DropField(t, h) PROVE Goal
  <2>1. PICK b \in Arena : DropStrong(t, b, h) \/ DropWeak(t, b, h)
    BY <1>5 DEF DropField
  <2>2. \/ strongs' = [strongs EXCEPT ![b] = @ \ {h}] /\ weaks' = weaks
        \/ strongs' = strongs /\ weaks' = [weaks EXCEPT ![b] = @ \ {h}]
    BY <2>1 DEF DropStrong, DropWeak
  <2>3. User(t) \in Item /\ h \in inside[User(t)] /\ inside' = [inside EXCEPT ![User(t)] = @ \ {h}]
    BY <1>5, DropsOwn DEF DropField, User
  <2>4. y \in Own /\ \A j \in Item : inside'[j] \subseteq inside[j]
    BY <1>a, <2>2, <2>3
  <2>5. PICK x \in Own : \A k \in Item : x \notin inside[k]
    BY <1>b, <2>4
  <2>6. x # h
    BY <2>3, <2>5
  <2>7. x \in OwnNext
    BY <1>a, <2>2, <2>5, <2>6
  <2> QED BY <2>4, <2>5, <2>7
<1>6. ASSUME NEW b \in Arena, NEW h \in Handle, NEW j \in Item, NEW moved \in SUBSET Handle,
             Upload(b, h, j, moved)
      PROVE  Goal
  <2>1. /\ inside' = [k \in Item |-> IF k = j THEN moved ELSE inside[k] \ moved]
        /\ UNCHANGED <<strongs, weaks>>
    BY <1>6 DEF Upload
  <2>2. CASE Refs(a) \cap moved # {}
    <3>1. PICK x : x \in Refs(a) /\ x \in Outside /\ x \notin moved
      BY <1>6, <2>2 DEF Upload, KeepsOneWithout
    <3> QED BY <2>1, <3>1 DEF Refs, Outside, Moved
  <2>3. CASE Refs(a) \cap moved = {}
    <3>1. y \in Own /\ y \in inside[i]
      BY <1>a, <2>1, <2>3 DEF Refs
    <3>2. PICK x \in Own : \A k \in Item : x \notin inside[k]
      BY <1>b, <3>1
    <3> QED BY <2>1, <2>3, <3>2 DEF Refs
  <2> QED BY <2>2, <2>3
<1>7. CASE Births
  <2>1. ASSUME NEW b \in Arena, ArenaNew(b) PROVE Goal
    BY <1>1, <2>1 DEF ArenaNew, handles
  <2>2. ASSUME NEW t \in Thread, NewFails(t) PROVE Goal
    BY <1>1, <2>2 DEF NewFails, handles
  <2> QED BY <1>2, <1>7, <2>1, <2>2 DEF Births
<1>8. CASE Handling
  <2>1. ASSUME NEW b \in Arena, NEW h \in Handle, NEW new \in Handle,
               CloneArena(b, h, new) \/ NewWeak(b, h, new) \/ Upgrade(b, h, new)
        PROVE  Gains(b, h, new)
    BY <2>1 DEF CloneArena, NewWeak, Upgrade, Gains
  <2> QED BY <1>3, <1>4, <1>5, <1>8, <2>1 DEF Handling
<1>9. CASE Uploading
  <2>1. ASSUME NEW b \in Arena, NEW h \in Handle, NEW j \in Item, RegisterDropFn(b, h, j)
        PROVE  Goal
    BY <1>1, <2>1 DEF RegisterDropFn, handles
  <2> QED BY <1>6, <1>9, <2>1 DEF Uploading
<1>10. CASE Storing \/ Walking \/ UNCHANGED vars
  BY <1>1, <1>10, StoringLeaves, WalkingLeaves DEF handles, vars
<1> QED BY <1>7, <1>8, <1>9, <1>10, Kinds

\* A walk starts when the last strong handle goes, and then no call in the
\* arena was waiting for another one.
LEMMA WalkedFirstKeeps ==
  ASSUME IInv, WalkedFirst, [Next]_vars
  PROVE  WalkedFirst'
<1> SUFFICES ASSUME NEW t \in Thread, NEW l \in 1..Len(stack'[t]), NEW k \in 1..(l - 1),
                    stack'[t][l].at = "exec", stack'[t][k].arena = stack'[t][l].arena
             PROVE  FALSE
  BY DEF WalkedFirst
<1>1. CASE CallBefore(t, l)
  BY <1>1 DEF CallBefore, WalkedFirst
<1>2. ASSUME NEW f \in FrameOf, CallEntered(t, l, f) PROVE FALSE
  <2>1. /\ k \in 1..Len(stack[t]) /\ k \in 1..Len(stack'[t]) /\ k < Len(stack'[t])
        /\ stack'[t][k] = stack[t][k] /\ stack'[t][l] = f
    BY <1>2 DEF CallEntered
  <2>2. stack[t][k].at \in Pausing
    <3>1. FrameNested(t, k)'
      BY <2>1, NestingKeeps DEF Nesting
    <3> QED BY <2>1, <3>1 DEF FrameNested
  <2>3. strongs[f.arena] = {}
    BY <2>1, <2>2 DEF IInv, Structure, Dying
  <2>4. strongs[f.arena] # {} \/ Idle(t)
    BY <1>2, <2>1 DEF CallEntered, Enters, Frame
  <2>5. Len(stack[t]) # 0
    BY <2>1
  <2> QED BY <2>3, <2>4, <2>5 DEF Idle
<1> QED BY <1>1, <1>2, CallOrigin

\* A safe arena's memory is returned by the walk that was its first call, or
\* when no call was in it.
LEMMA ReturnsAloneKeeps ==
  ASSUME IInv, Orderly, [Next]_vars
  PROVE  ReturnsAlone'
<1> SUFFICES ASSUME NEW t \in Thread, NEW l \in 1..Len(stack'[t]), NEW k \in 1..(l - 1),
                    stack'[t][l].at = "reclaim", Safe(stack'[t][l].arena),
                    stack'[t][k].arena = stack'[t][l].arena
             PROVE  FALSE
  BY DEF ReturnsAlone, Safe, Leads
<1>a. TypeOK /\ stack \in [Thread -> Seq(FrameOf)]
  BY DEF IInv, Structure, TypeOK, FrameOf
<1>1. CASE CallBefore(t, l)
  BY <1>1 DEF CallBefore, Orderly, WalkedFirst, ReturnsAlone
<1>2. ASSUME NEW f \in FrameOf, CallEntered(t, l, f) PROVE FALSE
  <2>1. PICK n \in Nat : n = Len(stack[t])
    BY <1>a
  <2>2. /\ l = n + 1 /\ stack'[t][l] = f /\ stack'[t][k] = stack[t][k]
        /\ k \in 1..n /\ n \in 1..Len(stack[t]) /\ n > 0
    BY <1>2, <2>1 DEF CallEntered
  <2>3. ~Idle(t) /\ Last(stack[t]) = stack[t][n]
    <3>1. ~Idle(t)
      BY <2>1, <2>2 DEF Idle
    <3> QED BY <1>a, <2>1, <3>1, Top
  <2>4. PICK a \in Arena, b \in Arena : a = stack[t][k].arena /\ b = stack[t][n].arena
    BY <1>a, <2>1, <2>2, CallArena
  <2>5. f.arena = a /\ f.at = "reclaim" /\ Safe(a)
    BY <2>2, <2>4
  <2>6. /\ Owner[a] = t /\ inside[User(t)] \cap Refs(a) # {}
        /\ At(t, "user") \/ At(t, "unwind")
    BY <1>2, <2>3, <2>5 DEF CallEntered, Enters, Asks, Frame
  <2>7. CASE ~Leads(a, a)
    <3>1. <<b, a>> \in MayHold
      BY <2>3, <2>4, <2>6, ReachesHeld
    <3>2. a = b \/ Leads(a, b)
      <4>1. k # n => k \in 1..(n - 1)
        BY <2>2
      <4> QED BY <2>2, <2>4, <4>1 DEF Orderly, CallsInOrder, Below
    <3> QED BY ONLY <2>7, <3>1, <3>2, LeadsOn
  <2>8. CASE a \in Anchored
    <3>1. User(t) \in Item
      BY <2>6, DropsOwn
    <3>2. Refs(a) \cap Moved # {}
      BY <2>6, <3>1 DEF Moved
    <3>3. PICK x : x \in Refs(a) /\ x \notin Moved
      BY <2>8, <3>2, OwnIsOutside DEF Orderly, AnchorsHold
    <3>4. x \in strongs'[a] \cup weaks'[a]
      BY <2>3, <2>6, <3>3, OwnStays
    <3>5. strongs'[a] \cup weaks'[a] = {}
      BY <2>2, <2>5, DyingKeeps DEF Dying, Refs
    <3> QED BY <3>4, <3>5
  <2> QED BY <2>5, <2>7, <2>8 DEF Safe
<1> QED BY <1>1, <1>2, CallOrigin

\* Every step keeps the stacks in order.
LEMMA OrderlyKeeps ==
  ASSUME IInv, Orderly, [Next]_vars
  PROVE  Orderly'
BY CallsInOrderKeeps, AnchorsHoldKeeps, WalkedFirstKeeps, ReturnsAloneKeeps DEF Orderly

\* The arenas start without handles and calls.
LEMMA OrderlyFirst == Init => Orderly
<1> SUFFICES ASSUME Init PROVE Orderly
  OBVIOUS
<1>1. \A a \in Arena : Refs(a) = {}
  BY DEF Init, Refs
<1>2. AnchorsHold
  BY <1>1, ArenaAssumption DEF AnchorsHold
<1>3. \A t \in Thread : 1..Len(stack[t]) = {}
  BY DEF Init
<1> QED BY <1>2, <1>3 DEF Orderly, CallsInOrder, WalkedFirst, ReturnsAlone

\* A call that returns a safe arena's memory is the only call in that arena.
LEMMA LastOfArena ==
  ASSUME IInv, ReturnsAlone, NEW t \in Thread,
         NEW k \in 1..Len(stack[t]), NEW l \in 1..Len(stack[t]),
         stack[t][l].at = "reclaim", Safe(stack[t][l].arena),
         stack[t][k].arena = stack[t][l].arena
  PROVE  k = l
<1>1. ~(k < l)
  <2>1. k < l => k \in 1..(l - 1)
    OBVIOUS
  <2> QED BY <2>1 DEF ReturnsAlone
<1>2. ~(l < k)
  <2>1. l < k => l < Len(stack[t])
    BY DEF IInv, Structure, TypeOK
  <2>2. FrameNested(t, l)
    BY DEF IInv, Structure, Nesting
  <2> QED BY <2>1, <2>2 DEF FrameNested, Pausing
<1> QED BY <1>1, <1>2

\* An arena's last block goes when its construction failed or its memory is
\* returned.
LEMMA LastBlockGoes ==
  ASSUME IInv, [Next]_vars, NEW a \in Arena, chain[a] # <<>>, chain'[a] = <<>>
  PROVE  \E t \in Thread : GivesUp(t, a) \/ (Returns(t, a) /\ Len(chain[a]) = 1)
<1>a. chain \in [Arena -> Seq(Block)]
  BY DEF IInv, Structure, TypeOK
<1>1. CASE UNCHANGED <<chain, spare>> \/ Frees
  BY <1>1 DEF Frees
<1>2. ASSUME NEW c \in Arena, NEW b \in Block, Gets(c, b) PROVE FALSE
  <2>1. Append(chain[c], b) # <<>>
    BY <1>a
  <2> QED BY <1>a, <1>2, <2>1 DEF Gets
<1>3. ASSUME NEW t \in Thread, NEW c \in Arena, GivesUp(t, c) PROVE c = a
  BY <1>a, <1>3 DEF GivesUp
<1>4. ASSUME NEW t \in Thread, NEW c \in Arena, Returns(t, c) PROVE c = a /\ Len(chain[a]) = 1
  <2>1. chain' = [chain EXCEPT ![c] = Front(@)]
    BY <1>4 DEF Returns
  <2>2. c = a
    BY <1>a, <2>1
  <2>3. Front(chain[a]) = <<>>
    BY <1>a, <2>1, <2>2
  <2>4. Len(chain[a]) \in Nat \ {0} /\ Len(Front(chain[a])) = Len(chain[a]) - 1
    BY <1>a, Popped
  <2>5. Len(Front(chain[a])) = 0
    <3>1. \A s : s = <<>> => Len(s) = 0
      OBVIOUS
    <3> QED BY <2>3, <3>1
  <2>6. \A m, n : m \in Nat \ {0} /\ n = m - 1 /\ n = 0 => m = 1
    OBVIOUS
  <2>7. Len(chain[a]) = 1
    BY ONLY <2>4, <2>5, <2>6, Zenon
  <2> QED BY <2>2, <2>7
<1> QED BY <1>1, <1>2, <1>3, <1>4, BlockSteps

\* An arena that has blocks has the one of its metadata.
LEMMA MemoryAfter ==
  ASSUME IInv, [Next]_vars, NEW a \in Arena, chain'[a] # <<>>
  PROVE  HasMemory(a)'
<1>1. chain'[a] \in Seq(Block) /\ chain'[a][1] = meta'[a]
  BY StorageKeeps DEF ChainStarts
<1>2. 1 \in 1..Len(chain'[a])
  <2>1. Len(chain'[a]) \in Nat /\ Len(chain'[a]) # 0
    BY <1>1, EmptySeq
  <2> QED BY <2>1
<1>3. meta'[a] \in Range(chain'[a])
  BY <1>1, <1>2, InRange
<1> QED BY <1>3 DEF HasMemory, Blocks

\* The memory of a handle's arena outlives every step.
LEMMA ReferredStays ==
  ASSUME IInv, [Next]_vars, NEW a \in Arena, Refs(a) # {}
  PROVE  chain'[a] # <<>>
<1> SUFFICES ASSUME chain'[a] = <<>> PROVE FALSE
  OBVIOUS
<1>1. HasMemory(a)
  BY DEF IInv, Structure, HasMemoryWhileUsed
<1>2. PICK t \in Thread : GivesUp(t, a) \/ Returns(t, a)
  BY <1>1, FirstBlock, LastBlockGoes
<1>3. ~GivesUp(t, a)
  BY DEF GivesUp, IInv, Structure, Unseen
<1>4. CASE Returns(t, a)
  <2>1. ~Idle(t) /\ Last(stack[t]).at = "reclaim" /\ Last(stack[t]).arena = a
    BY <1>4 DEF Returns, ReclaimBlock, At
  <2>2. Len(stack[t]) \in 1..Len(stack[t]) /\ Last(stack[t]) = stack[t][Len(stack[t])]
    <3>1. TypeOK
      BY DEF IInv, Structure
    <3> QED BY <2>1, <3>1, Top
  <2> QED BY <2>1, <2>2 DEF IInv, Structure, Dying
<1> QED BY <1>2, <1>3, <1>4

\* The memory of a call in a safe arena outlives every step, if it goes on.
LEMMA CalledStays ==
  ASSUME IInv, ReturnsAlone, [Next]_vars, NEW t \in Thread,
         NEW k \in 1..Len(stack[t]), Safe(stack[t][k].arena), HasMemory(stack[t][k].arena),
         k \in 1..Len(stack'[t])
  PROVE  chain'[stack[t][k].arena] # <<>>
<1>y. TypeOK
  BY DEF IInv, Structure
<1>a. stack \in [Thread -> Seq(FrameOf)] /\ Len(stack[t]) \in Nat
  <2>1. stack \in [Thread -> Seq(FrameOf)]
    BY <1>y DEF TypeOK, FrameOf
  <2> QED BY <1>y, <2>1
<1>0. PICK a \in Arena : a = stack[t][k].arena
  BY <1>y, CallArena
<1> SUFFICES ASSUME chain'[a] = <<>> PROVE FALSE
  BY <1>0
<1>1. PICK u \in Thread : GivesUp(u, a) \/ (Returns(u, a) /\ Len(chain[a]) = 1)
  BY <1>0, FirstBlock, LastBlockGoes
<1>2. u = t
  <2>1. Owner[a] = t
    BY <1>0 DEF IInv, Structure, Nesting, FrameOwned
  <2> QED BY <1>1, <2>1 DEF GivesUp, Returns
<1>3. ~Idle(t) /\ Last(stack[t]).arena = a /\ stack'[t] = Front(stack[t])
  <2>1. CASE GivesUp(t, a)
    BY <1>a, <2>1 DEF GivesUp, NewFails, At, Pop
  <2>2. CASE Returns(t, a) /\ Len(chain[a]) = 1
    <3>1. ReclaimBlock(t) /\ Last(stack[t]).arena = a /\ Len(chain[a]) = 1
      BY <2>2 DEF Returns
    <3>2. stack' = [stack EXCEPT ![t] = Pop(t)]
      BY <3>1, <1>a DEF ReclaimBlock
    <3> QED BY <1>a, <3>1, <3>2 DEF ReclaimBlock, At, Pop
  <2> QED BY <1>1, <1>2, <2>1, <2>2
<1>4. /\ Len(stack[t]) \in 1..Len(stack[t]) /\ Last(stack[t]) = stack[t][Len(stack[t])]
      /\ Len(stack'[t]) = Len(stack[t]) - 1
  BY <1>y, <1>3, Top
<1>5. k # Len(stack[t])
  BY <1>a, <1>4
<1>6. CASE GivesUp(t, a)
  <2>1. stack[t] = <<Frame("new", a, None)>>
    <3>1. Owner[a] = t /\ Building(a)
      BY <1>6 DEF GivesUp
    <3> QED BY <3>1 DEF Building
  <2>2. \A x : Len(<<x>>) = 1
    OBVIOUS
  <2>3. Len(stack[t]) = 1
    BY <2>1, <2>2
  <2> QED BY <1>5, <2>3
<1>7. CASE Returns(t, a)
  <2>1. stack[t][Len(stack[t])].at = "reclaim"
    BY <1>4, <1>7 DEF Returns, ReclaimBlock, At
  <2> QED BY <1>0, <1>3, <1>4, <1>5, <2>1, LastOfArena
<1> QED BY <1>1, <1>2, <1>6, <1>7

\* The calls that go on in their arena's memory.
SafeHaveMemory ==
  \A t \in Thread : \A k \in 1..Len(stack[t]) :
    Safe(stack[t][k].arena) => HasMemory(stack[t][k].arena)

\* A step leaves no call of a safe arena in memory that it returns.
LEMMA SafeHaveMemoryKeeps ==
  ASSUME IInv, ReturnsAlone, SafeHaveMemory, [Next]_vars
  PROVE  SafeHaveMemory'
<1> SUFFICES ASSUME NEW t \in Thread, NEW k \in 1..Len(stack'[t]), Safe(stack'[t][k].arena)
             PROVE  HasMemory(stack[t][k].arena)'
  BY DEF SafeHaveMemory, Safe, Leads
<1>y. TypeOK
  BY DEF IInv, Structure
<1>a. stack \in [Thread -> Seq(FrameOf)] /\ Len(stack[t]) \in Nat
  <2>1. stack \in [Thread -> Seq(FrameOf)]
    BY <1>y DEF TypeOK, FrameOf
  <2> QED BY <1>y, <2>1
<1>1. CASE CallBefore(t, k)
  <2>1. k \in 1..Len(stack[t]) /\ stack'[t][k].arena = stack[t][k].arena
    BY <1>1 DEF CallBefore
  <2>2. HasMemory(stack[t][k].arena) /\ stack[t][k].arena \in Arena
    BY <1>y, <2>1, CallArena DEF SafeHaveMemory
  <2>3. chain'[stack[t][k].arena] # <<>>
    BY <2>1, <2>2, CalledStays
  <2> QED BY <2>1, <2>2, <2>3, MemoryAfter DEF HasMemory, Blocks
<1>2. ASSUME NEW f \in FrameOf, CallEntered(t, k, f) PROVE HasMemory(f.arena)'
  <2>0. PICK a \in Arena : a = f.arena /\ Safe(a)
    BY <1>2 DEF FrameOf, CallEntered
  <2>1. Enters(t, f) /\ Len(stack'[t]) = Len(stack[t]) + 1
        /\ \A j \in 1..(k - 1) : stack'[t][j] = stack[t][j]
    BY <1>2 DEF CallEntered
  <2>2. CASE f = Frame("new", f.arena, None) /\ Idle(t)
    <3>1. stack'[t] = Append(<<>>, f)
      BY <1>a, <2>1, <2>2 DEF Enters, Idle
    <3>2. stack'[t] = <<Frame("new", a, None)>>
      <4>1. Append(<<>>, f) = <<f>>
        OBVIOUS
      <4> QED BY <2>0, <2>2, <3>1, <4>1
    <3>3. Owner[a] = t
      BY <2>0, <2>1 DEF Enters
    <3>4. Building(a)'
      BY <3>2, <3>3 DEF Building
    <3>5. HasMemory(a)'
      BY <3>4, StorageKeeps DEF HasMemoryWhileUsed
    <3> QED BY <2>0, <3>5
  <2>3. CASE Refs(f.arena) # {}
    <3>1. chain'[a] # <<>>
      BY <2>0, <2>3, ReferredStays
    <3> QED BY <2>0, <3>1, MemoryAfter
  <2>4. CASE At(t, "exec") /\ f.arena = Last(stack[t]).arena
    <3>1. /\ Len(stack[t]) \in 1..Len(stack[t]) /\ Last(stack[t]) = stack[t][Len(stack[t])]
          /\ Len(stack[t]) \in 1..Len(stack'[t])
      <4>1. ~Idle(t)
        BY <2>4 DEF At
      <4>2. Len(stack[t]) \in 1..Len(stack[t]) /\ Last(stack[t]) = stack[t][Len(stack[t])]
        BY <1>y, <4>1, Top
      <4>3. Len(stack[t]) \in 1..(Len(stack[t]) + 1)
        BY <1>a, <4>2
      <4> QED BY <2>1, <4>2, <4>3
    <3>2. HasMemory(stack[t][Len(stack[t])].arena)
      BY <2>0, <2>4, <3>1 DEF SafeHaveMemory
    <3>3. chain'[a] # <<>>
      BY <2>0, <2>4, <3>1, <3>2, CalledStays
    <3> QED BY <2>0, <3>3, MemoryAfter
  <2> QED BY <2>1, <2>2, <2>3, <2>4 DEF Enters
<1>3. ASSUME NEW f \in FrameOf, CallEntered(t, k, f) PROVE stack'[t][k].arena = f.arena
  BY <1>3 DEF CallEntered
<1>4. ASSUME NEW f \in FrameOf, CallEntered(t, k, f) PROVE HasMemory(stack[t][k].arena)'
  BY <1>2, <1>3, <1>4 DEF HasMemory, Blocks
<1> QED BY <1>1, <1>4, CallOrigin

\* A call goes on in memory that was returned (arena.rs:240, :452) only if its
\* arena's drop functions lead back to the arena itself - from an item with a
\* handle on its own arena, or by way of other arenas - and the program does
\* not keep a handle on it.
THEOREM StaleLeadsBack ==
  Spec => [](\A t \in Thread : \A k \in 1..Len(stack[t]) :
               \/ HasMemory(stack[t][k].arena)
               \/ Leads(stack[t][k].arena, stack[t][k].arena) /\ stack[t][k].arena \notin Anchored)
<1>1. Init => SafeHaveMemory
  <2>1. Init => \A t \in Thread : 1..Len(stack[t]) = {}
    BY DEF Init
  <2> QED BY <2>1 DEF SafeHaveMemory
<1>2. IInv /\ Orderly /\ [Next]_vars => Orderly'
  BY OrderlyKeeps
<1>3. IInv /\ Orderly /\ SafeHaveMemory /\ [Next]_vars => SafeHaveMemory'
  BY SafeHaveMemoryKeeps DEF Orderly
<1>4. SafeHaveMemory => \A t \in Thread : \A k \in 1..Len(stack[t]) :
         \/ HasMemory(stack[t][k].arena)
         \/ Leads(stack[t][k].arena, stack[t][k].arena) /\ stack[t][k].arena \notin Anchored
  BY DEF SafeHaveMemory, Safe
<1> QED BY <1>1, <1>2, <1>3, <1>4, OrderlyFirst, Invariance, PTL DEF Spec

\* The program keeps a handle of its own on every arena that handles in items
\* lead back to: on those whose items hold handles on the arena itself, as
\* nested N, List and UStr values do (arena.rs:281-283), and on those of a cycle.
AnchorsCycles == \A a \in Arena : Leads(a, a) => a \in Anchored

\* Such a program never has a call go on in memory that was returned.  The run
\* arena_self_weak shows that the condition is needed.
THEOREM NothingStale == AnchorsCycles => (Spec => []NoStaleAccess)
<1> SUFFICES ASSUME AnchorsCycles PROVE Spec => []NoStaleAccess
  OBVIOUS
<1> DEFINE Explained == \A t \in Thread : \A k \in 1..Len(stack[t]) :
             \/ HasMemory(stack[t][k].arena)
             \/ Leads(stack[t][k].arena, stack[t][k].arena) /\ stack[t][k].arena \notin Anchored
<1>1. IInv /\ Explained => NoStaleAccess
  <2> SUFFICES ASSUME IInv, Explained, NEW t \in Thread, NEW k \in 1..Len(stack[t])
               PROVE  HasMemory(stack[t][k].arena)
    BY DEF NoStaleAccess
  <2>1. stack[t][k].arena \in Arena
    BY CallArena DEF IInv, Structure
  <2> QED BY <2>1 DEF AnchorsCycles
<1>2. Spec => []Explained
  BY StaleLeadsBack
<1> QED BY <1>1, <1>2, Invariance, PTL

-----------------------------------------------------------------------------
(* The drop functions run before the memory is returned                    *)

NoPanicYet == \A j \in MayPanic : dropped[j] = 0

\* Arena a's drop functions are being run.
Walked(a) ==
  \E k \in 1..Len(stack[Owner[a]]) :
    stack[Owner[a]][k].at = "exec" /\ stack[Owner[a]][k].arena = a

\* Until a drop function panics, no call is left by unwinding, and a dead
\* arena's items are being dropped if there are any left.
Uninterrupted ==
  NoPanicYet =>
    /\ \A t \in Thread : \A k \in 1..Len(stack[t]) : stack[t][k].at # "unwind"
    /\ \A a \in Arena : strongs[a] = {} /\ queue[a] # <<>> => Walked(a)

\* What has not panicked yet had not panicked before.
LEMMA NoPanicBefore ==
  ASSUME IInv, [Next]_vars, NoPanicYet'
  PROVE  NoPanicYet
<1> SUFFICES ASSUME NEW j \in MayPanic PROVE dropped[j] = 0
  BY DEF NoPanicYet
<1>1. TypeOK /\ j \in Item
  BY ArenaAssumption DEF IInv, Structure
<1>2. dropped[j] \in Nat /\ dropped'[j] = 0
  BY <1>1 DEF TypeOK, NoPanicYet
<1>3. ~(dropped[j] > 0)
  BY <1>1, <1>2, Lasting
<1> QED BY <1>2, <1>3

\* Nothing unwinds then.
LEMMA NothingUnwinds ==
  ASSUME IInv, Uninterrupted, NoPanicYet, NEW t \in Thread
  PROVE  ~IsUnwound(t)
<1>1. ~At(t, "unwind")
  <2> SUFFICES ASSUME At(t, "unwind") PROVE FALSE
    OBVIOUS
  <2>1. TypeOK /\ ~Idle(t) /\ Last(stack[t]).at = "unwind"
    BY DEF IInv, Structure, At
  <2>2. Len(stack[t]) \in 1..Len(stack[t]) /\ stack[t][Len(stack[t])].at = "unwind"
    BY <2>1, Top
  <2> QED BY <2>2 DEF Uninterrupted
<1>2. ASSUME At(t, "user"), User(t) \in MayPanic PROVE FALSE
  <2>1. dropped[User(t)] > 0 /\ dropped[User(t)] = 0
    BY <1>2, DropsOwn DEF NoPanicYet
  <2> QED BY <2>1
<1> QED BY <1>1, <1>2 DEF IsUnwound

\* A walk goes on until its queue is empty.
LEMMA WalkGoesOn ==
  ASSUME IInv, [Next]_vars, NEW t \in Thread, ~IsUnwound(t),
         NEW k \in 1..Len(stack[t]), stack[t][k].at = "exec", queue[stack[t][k].arena] # <<>>
  PROVE  k \in 1..Len(stack'[t]) /\ stack'[t][k] = stack[t][k]
<1>y. TypeOK
  BY DEF IInv, Structure
<1>a. stack \in [Thread -> Seq(FrameOf)] /\ Len(stack[t]) \in Nat
  <2>1. stack \in [Thread -> Seq(FrameOf)]
    BY <1>y DEF TypeOK, FrameOf
  <2> QED BY <2>1
<1>1. CASE stack'[t] = stack[t]
  BY <1>1
<1>2. ASSUME NEW f \in FrameOf, Enters(t, f)
      PROVE  k \in 1..Len(stack'[t]) /\ stack'[t][k] = stack[t][k]
  <2>1. stack'[t] = Append(stack[t], f)
    BY <1>a, <1>2 DEF Enters
  <2>2. /\ Len(stack'[t]) = Len(stack[t]) + 1
        /\ \A j \in 1..Len(stack[t]) : stack'[t][j] = stack[t][j]
    BY <1>a, <2>1, Pushed
  <2> QED BY <1>a, <2>2
<1>3. CASE Leaves(t) \/ GoesOn(t)
  <2>1. ~Idle(t) /\ (Last(stack[t]).at = "exec" => queue[Last(stack[t]).arena] = <<>>)
    BY <1>3 DEF Leaves, GoesOn, At
  <2>2. /\ Last(stack[t]) = stack[t][Len(stack[t])] /\ Last(stack[t]) \in FrameOf
        /\ Front(stack[t]) \in Seq(FrameOf) /\ Len(Front(stack[t])) = Len(stack[t]) - 1
        /\ \A j \in 1..(Len(stack[t]) - 1) : Front(stack[t])[j] = stack[t][j]
    BY <1>y, <2>1, Top
  <2>3. k \in 1..(Len(stack[t]) - 1)
    BY <1>a, <2>1, <2>2
  <2>4. k \in 1..Len(Front(stack[t])) /\ Front(stack[t])[k] = stack[t][k]
    BY <2>2, <2>3
  <2>5. CASE Leaves(t)
    BY <1>a, <2>4, <2>5 DEF Leaves
  <2>6. CASE GoesOn(t)
    <3>1. PICK f \in FrameOf : f = Frame("reclaim", Last(stack[t]).arena, None)
      BY <2>2 DEF Frame, FrameOf, Step
    <3>2. stack'[t] = Append(Front(stack[t]), f)
      BY <1>a, <2>6, <3>1 DEF GoesOn
    <3>3. /\ Len(stack'[t]) = Len(Front(stack[t])) + 1
          /\ \A j \in 1..Len(Front(stack[t])) : stack'[t][j] = Front(stack[t])[j]
      BY ONLY <2>2, <3>2, Pushed
    <3>4. k \in 1..Len(stack'[t])
      BY <1>a, <2>2, <2>3, <3>3
    <3> QED BY <2>4, <3>3, <3>4
  <2> QED BY <1>3, <2>5, <2>6
<1>4. ASSUME NEW u \in Thread, u # t,
             (\E f \in FrameOf : Enters(u, f)) \/ Leaves(u) \/ GoesOn(u) \/ IsUnwound(u)
      PROVE  stack'[t] = stack[t]
  BY <1>a, <1>4 DEF Enters, Leaves, GoesOn, IsUnwound
<1> QED BY <1>1, <1>2, <1>3, <1>4, CallSteps

\* When the last strong handle goes, the walk starts.
LEMMA WalkStarts ==
  ASSUME IInv, [Next]_vars, NEW a \in Arena, strongs[a] # {}, strongs'[a] = {}
  PROVE  Walked(a)'
<1>a. /\ TypeOK /\ stack \in [Thread -> Seq(FrameOf)]
      /\ strongs \in [Arena -> SUBSET Handle] /\ strong \in [Arena -> Int]
  BY DEF IInv, Structure, TypeOK, FrameOf
<1>1. CASE UNCHANGED strongs
  BY <1>1
<1>2. ASSUME NEW t \in Thread, NEW h \in Handle, NewDone(t, h) PROVE FALSE
  <2>1. PICK b \in Arena : Last(stack[t]).arena = b
    BY <1>2, Builds DEF NewDone
  <2>2. strongs' = [strongs EXCEPT ![b] = {h}]
    BY <1>2, <2>1 DEF NewDone
  <2> QED BY <1>a, <2>2
<1>3. ASSUME NEW b \in Arena, NEW h \in Handle, NEW new \in Handle, Gains(b, h, new) PROVE FALSE
  BY <1>a, <1>3 DEF Gains
<1>4. ASSUME NEW t \in Thread, NEW b \in Arena, NEW h \in Handle, Loses(t, b, h) PROVE Walked(a)'
  <2>1. DropStrong(t, b, h) /\ b = a /\ Owner[a] = t
    BY <1>a, <1>4 DEF Loses, DropStrong, DropWeak
  <2>2. strong[a] - 1 = 0
    <3>1. strong'[a] = 0
      BY ZerosAfter
    <3> QED BY <1>a, <2>1, <3>1 DEF DropStrong
  <2>3. PICK f \in FrameOf : f = Frame("exec", a, None)
    BY DEF Frame, FrameOf, Step
  <2>4. StrongDropCalls(a, strong[a] - 1, rc[a] - 1) = <<f>>
    BY <2>2, <2>3 DEF StrongDropCalls
  <2>5. stack'[t] = stack[t] \o <<f>>
    BY <1>a, <2>1, <2>4 DEF DropStrong
  <2>6. \A s \in Seq(FrameOf) : s \o <<f>> = Append(s, f)
    OBVIOUS
  <2>7. Len(stack'[t]) = Len(stack[t]) + 1 /\ stack'[t][Len(stack[t]) + 1] = f
    BY <1>a, <2>5, <2>6, Pushed
  <2>8. Len(stack[t]) + 1 \in 1..Len(stack'[t])
    BY <1>a, <2>7
  <2>9. f.at = "exec" /\ f.arena = a
    BY <2>3 DEF Frame
  <2> QED BY <2>1, <2>7, <2>8, <2>9 DEF Walked
<1>5. CASE Births
  <2>1. ASSUME NEW b \in Arena, ArenaNew(b) PROVE UNCHANGED strongs
    BY <2>1 DEF ArenaNew, handles
  <2>2. ASSUME NEW t \in Thread, NewFails(t) PROVE UNCHANGED strongs
    BY <2>2 DEF NewFails, handles
  <2> QED BY <1>1, <1>2, <1>5, <2>1, <2>2 DEF Births
<1>6. CASE Handling
  BY <1>3, <1>4, <1>6, HandleSteps
<1>7. CASE Uploading \/ Storing \/ Walking \/ UNCHANGED vars
  BY <1>1, <1>7, UploadingLeaves, StoringLeaves, WalkingLeaves DEF handles, vars
<1> QED BY <1>5, <1>6, <1>7, Kinds

\* Nothing is registered with an arena that has no strong handle.
LEMMA DeadRegisterNothing ==
  ASSUME IInv, [Next]_vars, NEW a \in Arena, strongs[a] = {}, queue[a] = <<>>
  PROVE  queue'[a] = <<>>
<1>a. TypeOK /\ queue \in [Arena -> Seq(Item)] /\ ~(strong[a] > 0)
  <2>1. TypeOK /\ RefCounts
    BY DEF IInv, Structure
  <2>2. strong[a] = 0
    BY <2>1, Zeros
  <2>3. ~(strong[a] > 0)
    BY <2>2
  <2>4. queue \in [Arena -> Seq(Item)]
    BY <2>1 DEF TypeOK
  <2> QED BY <2>1, <2>3, <2>4
<1>1. CASE Uploading
  <2>1. PICK b \in Arena, h \in Handle, i \in Item :
          /\ h \in strongs[b] \/ Accepts(h, b)
          /\ Register(b, i)
    BY <1>1 DEF Uploading, Upload, RegisterDropFn
  <2>2. b # a
    BY <1>a, <2>1 DEF Accepts
  <2>3. queue' = [queue EXCEPT ![b] = Append(@, i)]
    BY <2>1 DEF Register
  <2> QED BY <1>a, <2>2, <2>3
<1>2. ASSUME NEW t \in Thread, ExecNext(t) PROVE queue'[a] = <<>>
  <2>1. PICK b \in Arena : queue[b] # <<>> /\ queue' = [queue EXCEPT ![b] = Tail(@)]
    BY <1>a, <1>2, EntersDrop
  <2> QED BY <1>a, <2>1
<1>3. CASE Births
  BY <1>3 DEF Births, ArenaNew, NewFails, NewDone
<1>4. CASE Walking
  BY <1>2, <1>4 DEF Walking, ExecDone, UserReturn, Unwind
<1>5. CASE Handling \/ Storing \/ UNCHANGED vars
  BY <1>5, HandlingLeaves, StoringLeaves DEF vars
<1> QED BY <1>1, <1>3, <1>4, <1>5, Kinds

\* Every step keeps the walks going.
LEMMA UninterruptedKeeps ==
  ASSUME IInv, Uninterrupted, [Next]_vars
  PROVE  Uninterrupted'
<1> SUFFICES ASSUME NoPanicYet'
             PROVE  /\ \A t \in Thread : \A k \in 1..Len(stack'[t]) : stack'[t][k].at # "unwind"
                    /\ \A a \in Arena : strongs'[a] = {} /\ queue'[a] # <<>> => Walked(a)'
  BY DEF Uninterrupted
<1>1. /\ NoPanicYet
      /\ \A t \in Thread : \A k \in 1..Len(stack[t]) : stack[t][k].at # "unwind"
      /\ \A a \in Arena : strongs[a] = {} /\ queue[a] # <<>> => Walked(a)
  BY NoPanicBefore DEF Uninterrupted
<1>2. \A t \in Thread : ~IsUnwound(t)
  BY <1>1, NothingUnwinds
<1>3. ASSUME NEW t \in Thread, NEW k \in 1..Len(stack'[t]) PROVE stack'[t][k].at # "unwind"
  <2>1. CASE CallBefore(t, k)
    BY <1>1, <1>2, <2>1 DEF CallBefore
  <2>2. ASSUME NEW f \in FrameOf, CallEntered(t, k, f) PROVE stack'[t][k].at # "unwind"
    <3>1. stack'[t][k] = f /\ Enters(t, f)
      BY <2>2 DEF CallEntered
    <3>2. f.at # "unwind"
      BY <3>1 DEF Enters, Frame
    <3> QED BY <3>1, <3>2
  <2> QED BY <2>1, <2>2, CallOrigin
<1>4. ASSUME NEW a \in Arena, strongs'[a] = {}, queue'[a] # <<>> PROVE Walked(a)'
  <2>1. CASE strongs[a] # {}
    BY <1>4, <2>1, WalkStarts
  <2>2. CASE strongs[a] = {} /\ queue[a] = <<>>
    BY <1>4, <2>2, DeadRegisterNothing
  <2>3. CASE strongs[a] = {} /\ queue[a] # <<>>
    <3>1. Owner[a] \in Thread
      BY ArenaAssumption
    <3>2. PICK k \in 1..Len(stack[Owner[a]]) :
            stack[Owner[a]][k].at = "exec" /\ stack[Owner[a]][k].arena = a
      BY <1>1, <2>3 DEF Walked
    <3>3. k \in 1..Len(stack'[Owner[a]]) /\ stack'[Owner[a]][k] = stack[Owner[a]][k]
      BY <1>2, <2>3, <3>1, <3>2, WalkGoesOn
    <3> QED BY <3>2, <3>3 DEF Walked
  <2> QED BY <2>1, <2>2, <2>3
<1> QED BY <1>3, <1>4

\* An item that was not dropped is in memory, and its arena is alive or its
\* drop functions are being run.
LEMMA UndroppedHasMemory ==
  ASSUME AnchorsCycles, IInv, ReturnsAlone, NoStaleAccess, Uninterrupted, DroppedOnce
  PROVE  DroppedBeforeReclaim
<1> SUFFICES ASSUME NEW i \in Item, home[i] # None, NoPanicYet, dropped[i] # 1
             PROVE  /\ HasMemory(home[i])
                    /\ \A t \in Thread : \A l \in 1..Len(stack[t]) :
                         stack[t][l] # Frame("reclaim", home[i], None)
  BY DEF DroppedBeforeReclaim, NoPanicYet
<1>1. PICK a \in Arena : a = home[i]
  BY HomeComplete
<1>2. dropped[i] = 0
  <2>1. dropped[i] \in Nat /\ dropped[i] <= 1
    BY DEF IInv, Structure, TypeOK, DroppedOnce
  <2> QED BY <2>1
<1>3. queue[a] # <<>>
  <2>1. i \in Range(queue[a]) /\ queue[a] \in Seq(Item)
    BY <1>1, <1>2 DEF IInv, Structure, TypeOK, Queued
  <2> QED BY <2>1, InRange
<1>f. \A t \in Thread : \A l \in 1..Len(stack[t]) :
        stack[t][l] = Frame("reclaim", a, None) =>
          stack[t][l].at = "reclaim" /\ stack[t][l].arena = a
  BY DEF Frame
<1>4. CASE strongs[a] # {}
  <2>1. Refs(a) # {} /\ HasMemory(a)
    BY <1>4 DEF IInv, Structure, HasMemoryWhileUsed, Refs
  <2>2. \A t \in Thread : \A l \in 1..Len(stack[t]) :
          stack[t][l].at = "reclaim" => stack[t][l].arena # a
    BY <2>1 DEF IInv, Structure, Dying
  <2> QED BY <1>1, <1>f, <2>1, <2>2
<1>5. CASE strongs[a] = {}
  <2>0. Owner[a] \in Thread
    BY ArenaAssumption
  <2>1. PICK k \in 1..Len(stack[Owner[a]]) :
          stack[Owner[a]][k].at = "exec" /\ stack[Owner[a]][k].arena = a
    BY <1>3, <1>5 DEF Uninterrupted, Walked
  <2>2. HasMemory(a)
    BY <2>0, <2>1 DEF NoStaleAccess
  <2>3. ASSUME NEW t \in Thread, NEW l \in 1..Len(stack[t]),
               stack[t][l].at = "reclaim", stack[t][l].arena = a
        PROVE  FALSE
    <3>1. t = Owner[a]
      BY <2>3 DEF IInv, Structure, Nesting, FrameOwned
    <3>2. k = l
      BY <2>0, <2>1, <2>3, <3>1, LastOfArena DEF AnchorsCycles, Safe
    <3> QED BY <2>1, <2>3, <3>1, <3>2
  <2> QED BY <1>1, <1>f, <2>2, <2>3
<1> QED BY <1>4, <1>5

\* Until a drop function panics, an arena's memory goes back only when the
\* drop functions of all its items have run (lib.rs:4-5) - whatever handles the
\* items hold, if the program keeps one of its own on the arenas that these
\* lead back to.
THEOREM ReclaimedIsDropped == AnchorsCycles => (Spec => []DroppedBeforeReclaim)
<1> SUFFICES ASSUME AnchorsCycles PROVE Spec => []DroppedBeforeReclaim
  OBVIOUS
<1>1. Init => Uninterrupted
  BY DEF Init, Uninterrupted
<1>2. IInv /\ Orderly /\ [Next]_vars => Orderly'
  BY OrderlyKeeps
<1>3. IInv /\ Uninterrupted /\ [Next]_vars => Uninterrupted'
  BY UninterruptedKeeps
<1>4. IInv /\ Orderly /\ NoStaleAccess /\ Uninterrupted /\ DroppedOnce => DroppedBeforeReclaim
  BY UndroppedHasMemory DEF Orderly
<1>5. Spec => []NoStaleAccess
  BY NothingStale
<1> QED
  BY <1>1, <1>2, <1>3, <1>4, <1>5, OrderlyFirst, DroppedAtMostOnce, Invariance, PTL DEF Spec
=============================================================================
