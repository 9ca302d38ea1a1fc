-------------------------------- MODULE Arena --------------------------------
(***************************************************************************)
(* Arenas of src/src/arena.rs: strong and weak handles on reference-       *)
(* counted metadata that lives in the arena's own first block, a chain of  *)
(* blocks taken from the pool of memory.rs, and the registered drop        *)
(* functions that run when the last strong handle goes.                    *)
(*                                                                         *)
(* Dropping a handle is not atomic: running the drop functions enters user *)
(* code, which may drop handles kept inside items - of this arena or of    *)
(* another one of the thread - and so re-enter this code, or may panic.    *)
(* stack[t] is thread t's call stack as far as it is inside this code; an  *)
(* arena never leaves its thread (its handles hold raw pointers and are    *)
(* not Send), but the pool is shared by all threads.                       *)
(*                                                                         *)
(* Space is counted in units: an item, a drop list and the metadata take   *)
(* one each, and a block has blockRoom of them.  The byte arithmetic is    *)
(* the subject of Placement.                                               *)
(***************************************************************************)
EXTENDS Integers, FiniteSets, SequencesExt

CONSTANTS Arena,       \* arenas that may be created, one after the other
          Thread,      \* threads of the program
          Owner,       \* Owner[a]: the thread that creates and uses arena a
          Block,       \* blocks the system can allocate
          Item,        \* values with a drop function that may be uploaded
          Handle,      \* identities of Arena and WeakArena values
          None,        \* no block, no arena, no item
          BlockRooms,  \* sizes a pool may be built with, in units
          MinFree, MaxFree, \* the pool's settings, as in Memory
          ListMax,     \* MAX_DROP_LIST_ITEMS
          MayHold,     \* pairs <<a, b>>: items of a may hold handles on b
          MayPanic,    \* items whose drop function panics
          MayUse,      \* items whose drop function uses the handles it holds
          Anchored,    \* arenas the program keeps an outside handle on
          ChainMax     \* bound: blocks in one arena's chain

ASSUME ArenaAssumption ==
  /\ Owner \in [Arena -> Thread]
  /\ BlockRooms \subseteq Nat \ {0}
  /\ MinFree \in Nat \ {0} /\ MaxFree \in Nat \ {0}
  /\ ListMax \in Nat \ {0}
  /\ MayHold \subseteq { p \in Arena \X Arena : Owner[p[1]] = Owner[p[2]] }
  /\ MayPanic \subseteq Item /\ MayUse \subseteq Item
  /\ Anchored \subseteq Arena
  /\ ChainMax \in Nat
  /\ None \notin Arena \cup Block \cup Item
  /\ IsFiniteSet(Arena) /\ IsFiniteSet(Block) /\ IsFiniteSet(Handle)

VARIABLES
  blockRoom, \* units in a block of this pool
  spare,     \* the pool's free blocks
  memRefs,   \* Memory values in the program's hands
  arcs,      \* strong count of the Arc behind them
  chain,     \* chain[a]: blocks of a, oldest first, last_block last
  meta,      \* meta[a]: the block a's handles point into, None before `new`
  room,      \* room[a]: units left in the last block
  used,      \* used[a]: used_items of the last drop list
  queue,     \* queue[a]: items registered and not yet dropped, in order
  strong,    \* strong[a]: strong_rc
  rc,        \* rc[a]: rc
  strongs,   \* strongs[a]: the Arena values that exist
  weaks,     \* weaks[a]: the WeakArena values that exist
  inside,    \* inside[i]: the handles moved into item i
  home,      \* home[i]: the arena item i was uploaded to, or None
  dropped,   \* dropped[i]: how often i's drop function was entered
  stack      \* stack[t]: the calls thread t is in

pool     == <<blockRoom, spare, memRefs, arcs>>
storage  == <<chain, meta, room, used>>
counters == <<strong, rc>>
handles  == <<strongs, weaks, inside>>
items    == <<home, dropped>>
vars     == <<pool, storage, queue, counters, handles, items, stack>>

\* The steps a call can be at: building an arena, linking a new drop list,
\* running drop functions, inside one, unwinding out of one, and returning the
\* blocks.
Step == {"new", "next", "exec", "user", "unwind", "reclaim"}

Frame(at, a, i) == [at |-> at, arena |-> a, item |-> i]

TypeOK ==
  /\ blockRoom \in Nat
  /\ spare \in SUBSET Block
  /\ memRefs \in 0..1 /\ arcs \in Nat
  /\ chain \in [Arena -> Seq(Block)]
  /\ meta \in [Arena -> Block \cup {None}]
  /\ room \in [Arena -> Nat]
  /\ used \in [Arena -> 0..ListMax]
  /\ queue \in [Arena -> Seq(Item)]
  /\ strong \in [Arena -> Int] /\ rc \in [Arena -> Int]
  /\ strongs \in [Arena -> SUBSET Handle] /\ weaks \in [Arena -> SUBSET Handle]
  /\ inside \in [Item -> SUBSET Handle]
  /\ home \in [Item -> Arena \cup {None}]
  /\ dropped \in [Item -> Nat]
  /\ stack \in [Thread -> Seq([at : Step, arena : Arena, item : Item \cup {None}])]

Init ==
  /\ blockRoom \in BlockRooms
  /\ \E s \in SUBSET Block : Cardinality(s) = MaxFree /\ spare = s
  /\ memRefs = 1 /\ arcs = 1
  /\ chain = [a \in Arena |-> <<>>]
  /\ meta = [a \in Arena |-> None]
  /\ room = [a \in Arena |-> 0]
  /\ used = [a \in Arena |-> 0]
  /\ queue = [a \in Arena |-> <<>>]
  /\ strong = [a \in Arena |-> 0] /\ rc = [a \in Arena |-> 0]
  /\ strongs = [a \in Arena |-> {}] /\ weaks = [a \in Arena |-> {}]
  /\ inside = [i \in Item |-> {}]
  /\ home = [i \in Item |-> None]
  /\ dropped = [i \in Item |-> 0]
  /\ stack = [t \in Thread |-> <<>>]

-----------------------------------------------------------------------------
(* Vocabulary                                                              *)

Born(a)   == meta[a] # None
Refs(a)   == strongs[a] \cup weaks[a]
Blocks(a) == Range(chain[a])

\* The metadata and the first drop list are in memory the arena still owns.
HasMemory(a) == meta[a] \in Blocks(a)

Moved    == UNION {inside[i] : i \in Item}
Outside  == (UNION {Refs(a) : a \in Arena}) \ Moved
Unused   == Handle \ UNION {Refs(a) : a \in Arena}

Idle(t)      == stack[t] = <<>>
At(t, where) == ~Idle(t) /\ Last(stack[t]).at = where
Pop(t)       == Front(stack[t])

\* The drop function a thread is in, if it is one that uses its handles.
Using(t) == At(t, "user") /\ Last(stack[t]).item \in MayUse
User(t)  == Last(stack[t]).item

\* The handles in thread t's hands: in none of this code's calls those outside
\* of all items, in a drop function those in the item being dropped.
InHand(t) == IF Idle(t) THEN Outside ELSE IF Using(t) THEN inside[User(t)] ELSE {}

Usable(h, a) == h \in Refs(a) /\ h \in InHand(Owner[a])

\* Who made a new handle has it: a drop function must drop it before it returns.
KeepsNew(t, new) ==
  inside' = IF Idle(t) THEN inside ELSE [inside EXCEPT ![User(t)] = @ \cup {new}]

\* Whether an upload through h goes ahead: a WeakArena first asks is_alive.
Accepts(h, a) == h \in strongs[a] \/ strong[a] > 0

Unallocated == Block \ (spare \cup UNION {Blocks(a) : a \in Arena})

\* Blocks the pool allocates at the start of a take.
Shortfall ==
  IF Cardinality(spare) < MinFree /\ Cardinality(spare) < MaxFree
    THEN MaxFree - Cardinality(spare) ELSE 0

\* Mutant: the block handed out is still in the queue.
TakeBlockKeeps(b) ==
  \E fresh \in SUBSET Unallocated :
    /\ Cardinality(fresh) = Shortfall
    /\ b \in spare \cup fresh
    /\ spare' = spare \cup fresh

\* take_block hands out b (Memory shows what happens under the lock).
TakeBlock(b) ==
  \E fresh \in SUBSET Unallocated :
    /\ Cardinality(fresh) = Shortfall
    /\ b \in spare \cup fresh
    /\ spare' = (spare \cup fresh) \ {b}

-----------------------------------------------------------------------------
(* Creating an arena                                                       *)

\* Mutant: the Memory is borrowed and not cloned.
ArenaNewBorrows(a) ==
  /\ memRefs > 0 /\ Idle(Owner[a]) /\ ~Born(a)
  /\ \E b \in Block :
       /\ TakeBlock(b)
       /\ chain' = [chain EXCEPT ![a] = <<b>>]
       /\ meta' = [meta EXCEPT ![a] = b]
  /\ room' = [room EXCEPT ![a] = blockRoom]
  /\ stack' = [stack EXCEPT ![Owner[a]] = <<Frame("new", a, None)>>]
  /\ UNCHANGED <<blockRoom, memRefs, arcs, used, queue, counters, handles, items>>

\* Arena::new clones the Memory and takes a block.
ArenaNew(a) ==
  /\ memRefs > 0 /\ Idle(Owner[a]) /\ ~Born(a)
  /\ \E b \in Block :
       /\ TakeBlock(b)
       /\ chain' = [chain EXCEPT ![a] = <<b>>]
       /\ meta' = [meta EXCEPT ![a] = b]
  /\ room' = [room EXCEPT ![a] = blockRoom]
  /\ arcs' = arcs + 1
  /\ stack' = [stack EXCEPT ![Owner[a]] = <<Frame("new", a, None)>>]
  /\ UNCHANGED <<blockRoom, memRefs, used, queue, counters, handles, items>>

\* Drop list and metadata are placed in it, and the first handle exists.
NewDone(t, h) ==
  /\ At(t, "new") /\ h \in Unused
  /\ LET a == Last(stack[t]).arena IN
       /\ room[a] >= 2
       /\ room' = [room EXCEPT ![a] = @ - 2]
       /\ strong' = [strong EXCEPT ![a] = 1]
       /\ rc' = [rc EXCEPT ![a] = 1]
       /\ strongs' = [strongs EXCEPT ![a] = {h}]
  /\ stack' = [stack EXCEPT ![t] = Pop(t)]
  /\ UNCHANGED <<pool, chain, meta, used, queue, weaks, inside, items>>

\* The drop list or the metadata does not fit: block and Memory clone are
\* dropped, so the block is freed and not returned to the pool.
NewFails(t) ==
  /\ At(t, "new")
  /\ LET a == Last(stack[t]).arena IN
       /\ room[a] < 2
       /\ chain' = [chain EXCEPT ![a] = <<>>]
       /\ meta' = [meta EXCEPT ![a] = None]
       /\ room' = [room EXCEPT ![a] = 0]
  /\ arcs' = arcs - 1
  /\ stack' = [stack EXCEPT ![t] = Pop(t)]
  /\ UNCHANGED <<blockRoom, spare, memRefs, used, queue, counters, handles, items>>

\* Mutant: the handle is dropped again.
DropMemoryAgain ==
  /\ \A t \in Thread : ~At(t, "new")
  /\ memRefs' = memRefs - 1
  /\ arcs' = arcs - 1
  /\ spare' = IF arcs' = 0 THEN {} ELSE spare
  /\ UNCHANGED <<blockRoom, storage, queue, counters, handles, items, stack>>

\* The program drops its Memory, which no Arena::new is borrowing; the last
\* owner frees the pool.
DropMemory ==
  /\ memRefs > 0 /\ \A t \in Thread : ~At(t, "new")
  /\ memRefs' = memRefs - 1
  /\ arcs' = arcs - 1
  /\ spare' = IF arcs' = 0 THEN {} ELSE spare
  /\ UNCHANGED <<blockRoom, storage, queue, counters, handles, items, stack>>

-----------------------------------------------------------------------------
(* Handles                                                                 *)

\* Arena::clone.
CloneArena(a, h, new) ==
  /\ Usable(h, a) /\ h \in strongs[a] /\ new \in Unused
  /\ strong' = [strong EXCEPT ![a] = @ + 1]
  /\ rc' = [rc EXCEPT ![a] = @ + 1]
  /\ strongs' = [strongs EXCEPT ![a] = @ \cup {new}]
  /\ KeepsNew(Owner[a], new)
  /\ UNCHANGED <<pool, storage, queue, weaks, items, stack>>

\* Mutant: the weak handle is not counted.
NewWeakUncounted(a, h, new) ==
  /\ Usable(h, a) /\ new \in Unused
  /\ weaks' = [weaks EXCEPT ![a] = @ \cup {new}]
  /\ KeepsNew(Owner[a], new)
  /\ UNCHANGED <<pool, storage, queue, counters, strongs, items, stack>>

\* Arena::to_weak_arena and WeakArena::clone.
NewWeak(a, h, new) ==
  /\ Usable(h, a) /\ new \in Unused
  /\ rc' = [rc EXCEPT ![a] = @ + 1]
  /\ weaks' = [weaks EXCEPT ![a] = @ \cup {new}]
  /\ KeepsNew(Owner[a], new)
  /\ UNCHANGED <<pool, storage, queue, strong, strongs, items, stack>>

\* Mutant: the upgrade does not ask whether the arena is alive.
UpgradeDead(a, h, new) ==
  /\ Usable(h, a) /\ h \in weaks[a] /\ new \in Unused
  /\ strong' = [strong EXCEPT ![a] = @ + 1]
  /\ rc' = [rc EXCEPT ![a] = @ + 1]
  /\ strongs' = [strongs EXCEPT ![a] = @ \cup {new}]
  /\ KeepsNew(Owner[a], new)
  /\ UNCHANGED <<pool, storage, queue, weaks, items, stack>>

\* WeakArena::arena.
Upgrade(a, h, new) ==
  /\ Usable(h, a) /\ h \in weaks[a] /\ new \in Unused
  /\ strong[a] > 0
  /\ strong' = [strong EXCEPT ![a] = @ + 1]
  /\ rc' = [rc EXCEPT ![a] = @ + 1]
  /\ strongs' = [strongs EXCEPT ![a] = @ \cup {new}]
  /\ KeepsNew(Owner[a], new)
  /\ UNCHANGED <<pool, storage, queue, weaks, items, stack>>

\* Mutant: the memory is returned before the objects are dropped.
StrongDropCallsSwapped(a, s, r) ==
  IF s = 0 /\ r = 0 THEN <<Frame("exec", a, None), Frame("reclaim", a, None)>>
  ELSE IF s = 0 THEN <<Frame("exec", a, None)>>
  ELSE <<>>

\* Mutant: the drop functions run with one handle left.
StrongDropCallsEarly(a, s, r) ==
  IF s <= 1 THEN <<Frame("exec", a, None)>>
  ELSE IF r = 0 THEN <<Frame("reclaim", a, None)>>
  ELSE <<>>

\* What Drop for Arena calls once the counters are s and r.
StrongDropCalls(a, s, r) ==
  IF s = 0 THEN <<Frame("exec", a, None)>>
  ELSE IF r = 0 THEN <<Frame("reclaim", a, None)>>
  ELSE <<>>

\* What Drop for WeakArena calls once the counter is r.
WeakDropCalls(a, r) ==
  IF r = 0 THEN <<Frame("reclaim", a, None)>> ELSE <<>>

\* Thread t drops an Arena value.
DropStrong(t, a, h) ==
  /\ h \in strongs[a]
  /\ strongs' = [strongs EXCEPT ![a] = @ \ {h}]
  /\ strong' = [strong EXCEPT ![a] = @ - 1]
  /\ rc' = [rc EXCEPT ![a] = @ - 1]
  /\ stack' = [stack EXCEPT ![t] = @ \o StrongDropCalls(a, strong[a] - 1, rc[a] - 1)]
  /\ UNCHANGED weaks

\* Thread t drops a WeakArena value.
DropWeak(t, a, h) ==
  /\ h \in weaks[a]
  /\ weaks' = [weaks EXCEPT ![a] = @ \ {h}]
  /\ rc' = [rc EXCEPT ![a] = @ - 1]
  /\ stack' = [stack EXCEPT ![t] = @ \o WeakDropCalls(a, rc[a] - 1)]
  /\ UNCHANGED <<strong, strongs>>

\* The rule for an anchored arena: while items hold handles on it, of which the
\* last one to be dropped would be dropped by a drop function, the program keeps
\* a handle of its own - say a WeakArena that outlives the last Arena.
KeepsOneWithout(a, gone) ==
  a \in Anchored => (Refs(a) \cap Outside) \ gone # {}

\* The program drops a handle it holds.  (A drop function: see DropField.)
DropHandle(a, h) ==
  /\ Idle(Owner[a]) /\ Usable(h, a)
  /\ Refs(a) \cap Moved # {} => KeepsOneWithout(a, {h})
  /\ DropStrong(Owner[a], a, h) \/ DropWeak(Owner[a], a, h)
  /\ UNCHANGED <<pool, storage, queue, inside, items>>

-----------------------------------------------------------------------------
(* Uploads                                                                 *)

\* A unit is placed in the last block or, if that is full, in a new one.
PlaceUnit(a) ==
  \/ /\ room[a] > 0
     /\ room' = [room EXCEPT ![a] = @ - 1]
     /\ UNCHANGED <<chain, spare>>
  \/ /\ room[a] = 0
     /\ \E b \in Block :
          /\ TakeBlock(b)
          /\ chain' = [chain EXCEPT ![a] = Append(@, b)]
     /\ room' = [room EXCEPT ![a] = blockRoom - 1]

\* Mutant: the full list is noticed one item late.
RegisterLate(a, i) ==
  /\ home' = [home EXCEPT ![i] = a]
  /\ queue' = [queue EXCEPT ![a] = Append(@, i)]
  /\ used' = [used EXCEPT ![a] = @ + 1]
  /\ stack' = [stack EXCEPT ![Owner[a]] =
                 @ \o (IF used[a] = ListMax THEN <<Frame("next", a, None)>> ELSE <<>>)]

\* The drop function goes to the last list, and a list that is now full gets
\* a successor at once.
Register(a, i) ==
  /\ home' = [home EXCEPT ![i] = a]
  /\ queue' = [queue EXCEPT ![a] = Append(@, i)]
  /\ used' = [used EXCEPT ![a] = @ + 1]
  /\ stack' = [stack EXCEPT ![Owner[a]] =
                 @ \o (IF used[a] + 1 = ListMax THEN <<Frame("next", a, None)>> ELSE <<>>)]

\* Bound: an upload, and the drop list it may bring, stay within ChainMax.
CanGrow(a) == room[a] >= 2 \/ Len(chain[a]) < ChainMax

\* upload_auto_drop of an item with the handles in moved among its fields.
Upload(a, h, i, moved) ==
  /\ Usable(h, a) /\ Accepts(h, a) /\ CanGrow(a) /\ home[i] = None
  /\ moved \subseteq InHand(Owner[a]) \ {h}
  /\ \A b \in Arena : Refs(b) \cap moved # {} =>
       <<a, b>> \in MayHold /\ KeepsOneWithout(b, moved)
  /\ PlaceUnit(a)
  /\ Register(a, i)
  /\ inside' = [j \in Item |-> IF j = i THEN moved ELSE inside[j] \ moved]
  /\ UNCHANGED <<blockRoom, memRefs, arcs, meta, counters, strongs, weaks, dropped>>

\* push_custom_drop_fn for data already in the arena.
RegisterDropFn(a, h, i) ==
  /\ Usable(h, a) /\ h \in strongs[a] /\ CanGrow(a) /\ home[i] = None
  /\ Register(a, i)
  /\ UNCHANGED <<pool, chain, meta, room, counters, handles, dropped>>

\* upload_no_drop, upload_no_drop_bytes, alloc_no_drop_items_aligned_uninit.
UploadNoDrop(a, h) ==
  /\ Usable(h, a) /\ Accepts(h, a) /\ CanGrow(a)
  /\ PlaceUnit(a)
  /\ UNCHANGED <<blockRoom, memRefs, arcs, meta, used, queue, counters, handles, items, stack>>

\* push_next_drop_list: an empty list is uploaded and linked.
NextList(t) ==
  /\ At(t, "next")
  /\ LET a == Last(stack[t]).arena IN
       /\ PlaceUnit(a)
       /\ used' = [used EXCEPT ![a] = 0]
  /\ stack' = [stack EXCEPT ![t] = Pop(t)]
  /\ UNCHANGED <<blockRoom, memRefs, arcs, meta, queue, counters, handles, items>>

-----------------------------------------------------------------------------
(* Running the drop functions                                              *)

\* Mutant: the slot of an executed item is found again.
ExecNextKeeps(t) ==
  /\ At(t, "exec")
  /\ LET a == Last(stack[t]).arena IN
       /\ HasMemory(a) /\ queue[a] # <<>>
       /\ dropped' = [dropped EXCEPT ![Head(queue[a])] = @ + 1]
       /\ stack' = [stack EXCEPT ![t] = Append(@, Frame("user", a, Head(queue[a])))]
  /\ dropped[Head(queue[Last(stack[t]).arena])] < 2
  /\ UNCHANGED <<pool, storage, queue, counters, handles, home>>

\* execute_drop_chain enters the next item's drop function.  (A chain whose
\* memory is gone is not followed further: see NoStaleAccess.)
ExecNext(t) ==
  /\ At(t, "exec")
  /\ LET a == Last(stack[t]).arena IN
       /\ HasMemory(a) /\ queue[a] # <<>>
       /\ queue' = [queue EXCEPT ![a] = Tail(@)]
       /\ dropped' = [dropped EXCEPT ![Head(queue[a])] = @ + 1]
       /\ stack' = [stack EXCEPT ![t] = Append(@, Frame("user", a, Head(queue[a])))]
  /\ UNCHANGED <<pool, storage, counters, handles, home>>

\* Mutant: the memory is returned whatever rc says.
ExecDoneReclaims(t) ==
  /\ At(t, "exec")
  /\ LET a == Last(stack[t]).arena IN
       /\ HasMemory(a) /\ queue[a] = <<>>
       /\ stack' = [stack EXCEPT ![t] = Append(Pop(t), Frame("reclaim", a, None))]
  /\ UNCHANGED <<pool, storage, queue, counters, handles, items>>

\* Mutant: the lists linked to the first one are not followed.
ExecDoneEarly(t) ==
  /\ At(t, "exec")
  /\ LET a == Last(stack[t]).arena IN
       /\ HasMemory(a) /\ Len(queue[a]) < ListMax
       /\ stack' = [stack EXCEPT ![t] =
                      Pop(t) \o (IF rc[a] = 0 THEN <<Frame("reclaim", a, None)>> ELSE <<>>)]
  /\ UNCHANGED <<pool, storage, queue, counters, handles, items>>

\* Mutant: the count is not looked at again after the drop functions.
ExecDoneForgets(t) ==
  /\ At(t, "exec")
  /\ LET a == Last(stack[t]).arena IN
       /\ HasMemory(a) /\ queue[a] = <<>>
       /\ stack' = [stack EXCEPT ![t] = Pop(t)]
  /\ UNCHANGED <<pool, storage, queue, counters, handles, items>>

\* The chain has run; Drop for Arena goes on to its test of rc.
ExecDone(t) ==
  /\ At(t, "exec")
  /\ LET a == Last(stack[t]).arena IN
       /\ HasMemory(a) /\ queue[a] = <<>>
       /\ stack' = [stack EXCEPT ![t] =
                      Pop(t) \o (IF rc[a] = 0 THEN <<Frame("reclaim", a, None)>> ELSE <<>>)]
  /\ UNCHANGED <<pool, storage, queue, counters, handles, items>>

\* An item's drop function, or the unwinding out of it, drops one of the
\* handles among the item's fields.
DropField(t, h) ==
  /\ At(t, "user") \/ At(t, "unwind")
  /\ LET i == Last(stack[t]).item IN
       /\ h \in inside[i]
       /\ inside' = [inside EXCEPT ![i] = @ \ {h}]
  /\ \E a \in Arena : DropStrong(t, a, h) \/ DropWeak(t, a, h)
  /\ UNCHANGED <<pool, storage, queue, items>>

\* The drop function returns to execute_drop_chain.
UserReturn(t) ==
  /\ At(t, "user")
  /\ LET i == Last(stack[t]).item IN i \notin MayPanic /\ inside[i] = {}
  /\ stack' = [stack EXCEPT ![t] = Pop(t)]
  /\ UNCHANGED <<pool, storage, queue, counters, handles, items>>

\* The calls left when a panic has unwound drop function and chain: the drop
\* function they were called from, if any, drops its other fields.
Unwound(s) ==
  LET rest == Front(Front(s)) IN
  IF rest = <<>> THEN <<>>
  ELSE Append(Front(rest), [Last(rest) EXCEPT !.at = "unwind"])

\* The drop function panics, or unwinding leaves it: execute_drop_chain,
\* drop_objects and Drop for Arena are left without any further step.  (A
\* second panic while unwinding aborts the process.)
Unwind(t) ==
  /\ \/ At(t, "unwind")
     \/ /\ At(t, "user")
        /\ Last(stack[t]).item \in MayPanic
        /\ \A k \in 1..Len(stack[t]) : stack[t][k].at # "unwind"
  /\ inside[Last(stack[t]).item] = {}
  /\ stack' = [stack EXCEPT ![t] = Unwound(@)]
  /\ UNCHANGED <<pool, storage, queue, counters, handles, items>>

-----------------------------------------------------------------------------
(* Returning the memory                                                    *)

\* Mutant: a block goes back and stays in the chain.
ReclaimBlockKeeps(t) ==
  /\ At(t, "reclaim")
  /\ LET a == Last(stack[t]).arena IN
       /\ HasMemory(a)
       /\ spare' = spare \cup {Last(chain[a])}
       /\ stack' = [stack EXCEPT ![t] = Pop(t)]
  /\ UNCHANGED <<blockRoom, memRefs, arcs, chain, meta, room, used, queue, counters, handles, items>>

\* One round of reclaim_memory: the newest block goes back to the pool, the
\* one with the metadata, which names the pool, last.
ReclaimBlock(t) ==
  /\ At(t, "reclaim")
  /\ LET a == Last(stack[t]).arena IN
       /\ HasMemory(a)
       /\ spare' = spare \cup {Last(chain[a])}
       /\ chain' = [chain EXCEPT ![a] = Front(@)]
       /\ stack' = [stack EXCEPT ![t] = IF Len(chain[a]) = 1 THEN Pop(t) ELSE @]
  /\ UNCHANGED <<blockRoom, memRefs, arcs, meta, room, used, queue, counters, handles, items>>

-----------------------------------------------------------------------------

\* What a thread does between entering this code and leaving it.
Running(t) ==
  \/ NewFails(t) \/ \E h \in Handle : NewDone(t, h)
  \/ NextList(t)
  \/ ExecNext(t) \/ ExecDone(t)
  \/ UserReturn(t) \/ Unwind(t)
  \/ \E h \in Handle : DropField(t, h)
  \/ ReclaimBlock(t)

\* What the program may ask for.
Calling ==
  \/ DropMemory
  \/ \E a \in Arena :
       \/ ArenaNew(a)
       \/ \E h \in Handle :
            \/ DropHandle(a, h)
            \/ UploadNoDrop(a, h)
            \/ \E new \in Handle : \/ CloneArena(a, h, new)
                                   \/ NewWeak(a, h, new)
                                   \/ Upgrade(a, h, new)
            \/ \E i \in Item :
                 \/ RegisterDropFn(a, h, i)
                 \/ \E moved \in SUBSET Handle :
                      Cardinality(moved) <= 1 /\ Upload(a, h, i, moved)

Next == Calling \/ \E t \in Thread : Running(t)

Spec == Init /\ [][Next]_vars

\* Code that has been entered keeps running: nothing in it waits except for
\* the pool's mutex, which Memory shows to be let go.
FairSpec == Spec /\ \A t \in Thread : WF_vars(Running(t))

-----------------------------------------------------------------------------
(* Properties                                                              *)

\* The counters in the metadata count the handles that exist, through every
\* clone, upgrade, move into an item and nested drop (arena.rs inc_*, dec_*).
RefCounts ==
  \A a \in Arena :
    /\ strong[a] = Cardinality(strongs[a])
    /\ rc[a] = Cardinality(strongs[a]) + Cardinality(weaks[a])

\* While any handle exists, even one inside an item, the block it points into
\* is the arena's: a dead arena's weak handles can still ask is_alive.
HandlesKeepMemory ==
  \A a \in Arena : Refs(a) # {} => HasMemory(a)

\* No call on a thread's stack goes on in memory that was already returned,
\* where another thread may be writing (arena.rs:240, :452).
NoStaleAccess ==
  \A t \in Thread : \A k \in 1..Len(stack[t]) : HasMemory(stack[t][k].arena)

\* A block belongs to the pool or to one place in one arena's chain.
BlocksOwnedOnce ==
  \A a \in Arena :
    /\ IsInjective(chain[a])
    /\ Blocks(a) \cap spare = {}
    /\ \A b \in Arena \ {a} : Blocks(a) \cap Blocks(b) = {}

\* A drop function runs at most once and never while the arena is alive.
DroppedOnce ==
  \A i \in Item :
    /\ dropped[i] <= 1
    /\ dropped[i] = 1 => strong[home[i]] = 0

\* When an arena's memory goes back to the pool, the drop functions of all
\* its items have run (lib.rs:4-5) - unless one of them panicked, which leaves
\* the rest of its chain undropped.
DroppedBeforeReclaim ==
  \A i \in Item :
    home[i] # None /\ (\A j \in MayPanic : dropped[j] = 0) =>
      \/ dropped[i] = 1
      \/ HasMemory(home[i]) /\ \A t \in Thread : \A k \in 1..Len(stack[t]) :
           stack[t][k] # Frame("reclaim", home[i], None)

\* Every call but push_next_drop_list finds a free slot in the last list, so
\* write_item never indexes past its array (droplist.rs:42).
LastListNotFull ==
  \A a \in Arena :
    used[a] = ListMax =>
      ~Idle(Owner[a]) /\ Last(stack[Owner[a]]) = Frame("next", a, None)

\* An arena whose last strong handle went stays dead through its own drop
\* functions and afterwards: nobody gets a strong handle on it again.
Dead(a) == Born(a) /\ strong[a] = 0 /\ ~At(Owner[a], "new")

NoResurrection ==
  [][\A a \in Arena : Dead(a) => strong'[a] = 0]_vars

\* A strong handle moved into an item of its own arena keeps the arena alive
\* and is never dropped, nor is the item (arena.rs:281-283).
CycleKeepsAlive ==
  [][\A i \in Item :
       home[i] # None /\ dropped[i] = 0 /\ inside[i] \cap strongs[home[i]] # {} =>
         inside'[i] = inside[i] /\ dropped'[i] = 0 /\ strong'[home[i]] > 0]_vars

\* The pool lives at least as long as the blocks arenas took from it.
PoolOutlivesArenas ==
  (\E a \in Arena : chain[a] # <<>>) => arcs > 0

\* Once nobody can reach the pool any more it is freed, as a run under
\* the leak sanitizer (test_with_leak_sanitizer.sh) expects.
PoolFreed ==
  memRefs = 0 /\ (\A a \in Arena : chain[a] = <<>>) => arcs = 0

\* When the program holds no handle and no arena holds handles on itself,
\* every block eventually returns to the pool.
LeakFree ==
  (Outside = {}) ~> (Outside # {} \/ \A a \in Arena : chain[a] = <<>>)

\* Arenas are well-behaved clients of the abstract pool.
Pool == INSTANCE BlockPool WITH Client <- Arena, maxFree <- MaxFree,
                                held <- [a \in Arena |-> Blocks(a)]

ImplementsPool == Pool!Spec
=============================================================================
