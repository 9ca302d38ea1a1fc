# A verification model of memur

memur is a grow-only arena allocator: a pool of byte blocks shared by threads
(`Memory`), single-threaded arenas that draw blocks from it (`Arena`, with weak
handles `WeakArena`), drop functions registered in lists inside the arena, and
collections built on top. These TLA+ modules model all of them; TLC checks them
on small instances and TLAPS proves theorems about them for all values of the
constants. Line numbers refer to `src/src/`.

## 1. Inventory

| Part | State | Operations | Hard behaviour | What makes it correct |
|---|---|---|---|---|
| memory pool, `memory.rs` | queue of free blocks, two settings, behind one mutex; `Arc` clones | `build`, `take_block`, `return_block`, `cleanup` | threads interleave; two loops under the lock; a panic under the lock poisons it | a block is in one place; takes succeed; memory stays bounded; the lock is let go |
| block placement, `block.rs`, `dontdothis.rs`, upload functions of `arena.rs` | bytes of a block, `next_item_offset` in its header, link to the previous block | `push_copy`, `upload_bytes_unchecked(_uninit)`, `upload_*`, `alloc_*` | alignment padding, zero sizes, exact fits, casts to `isize`, a fresh block that refuses as well | inside the block, no overlap, aligned, no panic |
| drop lists, `droplist.rs` | 1022 slots, a count, a link; the chain's first and last list in the arena's metadata | `write_item`, `set_next_list`, `execute_drop_chain` | full list at the last slot; execution stops at an empty slot; repeated execution; panics | each function once, in order; never past the array |
| arena and handles, `arena.rs` | `strong_rc`, `rc`, block chain, drop lists, a `Memory` clone, all inside the first block; handles are raw pointers | `new`, `clone`, `to_weak_arena`, `arena`, `is_alive`, uploads, `Drop` of both handles | drop functions re-enter the code and drop handles of this arena or another; panics; memory returned while in use | counters equal handles; memory outlives handles and calls; drop exactly once and before the memory goes; nothing leaks |
| `N`, `n.rs` | value and a linked list of values it outlives | `new`, `val`, `var`, `outlives`, drop | the list is LIFO, of any depth, and runs before the value's own drop; a panic leaves the rest of it | what is outlived goes first, each value once |
| `List`, `list.rs` | segments of 32 pointers, length | `new`, `push`, iterators | a slot is taken before an upload that may fail; a new segment is linked before it | iteration yields what was pushed, as much as it announces |
| `Array`, `array.rs` | pointer table, length, capacity; one drop function for all items | `new`, `with_capacity`, `push`, `pop`, index, iterators | growth at the boundary; pop against the registered drop; failures on both uploads of a push | each item dropped once or popped |
| `FixedArray`, `UninitArray`, `ArrayInitializer`, `array_fixed.rs`, `array_uninit.rs` | metadata with length and data pointer, a count of initialised items | `new`, `with_capacity`, initializer, `data_mut`, `initialized_to_len`, iterators, slice | the length is set and the drop registered before the items exist; an initializer outlives the arena | only initialised items dropped, once |
| `EmptyIfDeadIter`, `iter.rs` | alive flag, inner iterator | `next`, `len`, `size_hint` | announced length against items | they agree |
| `UStr`, `ustr.rs` | 16-bit length, pointer | constructors, views | length limit, terminator, nul inside | both views read what was given |
| `traits.rs`, `lib.rs`, `logging.rs`, `dropflag.rs` | none | loops over `push`, re-exports, macros, a test helper | - | - |

Interactions: an arena calls the pool to take and return blocks (through the
`Memory` clone in its metadata); an upload calls the block, then the drop list,
which may need another upload; dropping the last strong handle calls every
registered drop function, which is user code and may drop handles, and so call
back; collections hold a `WeakArena` and upload through it. Arenas and handles
hold raw pointers and are not `Send`, so only the pool is shared by threads.
Nothing is persisted and no messages are exchanged: there are no crash, loss or
timeout behaviours to model. The hazards, line by line, are in `PROJECT.json`.

## 2. Modules

| Module | Models | Lines |
|---|---|---|
| `BlockPool` | abstract: a pool of spare blocks and clients that hold the rest | promise of `memory.rs` |
| `Memory` | the mutex, the queue, both loops one round at a time, poisoning | `memory.rs` 10-57, 129-142 |
| `Placement` | byte arithmetic of blocks and uploads | `block.rs`, `dontdothis.rs` 30-34, `arena.rs` 132-231 |
| `DropQueue` | abstract: functions run once each, in order of registration | promise of `droplist.rs` |
| `DropList` | lists, slots, links, and the walk over them | `droplist.rs` 30-94, `arena.rs` 95-130 |
| `Arena` | handles, counters, call stacks with re-entry, block chains, drop queues, the shared pool | `arena.rs` 68-470 |
| `Tenants` | one arena as its collections see it: alive, dropping value by value, dead | `arena.rs` 95-130, 240-470; `droplist.rs` 78-94 |
| `Outlives` | `N` and the order in which it drops | `n.rs` |
| `ListSegments` | `List` | `list.rs` |
| `GrowableArray` | `Array`, and the capacity collected arrays ask for | `array.rs`, `traits.rs` |
| `FixedArray` | `FixedArray`, `UninitArray`, `ArrayInitializer`, `EmptyIfDeadIter` | `array_fixed.rs`, `array_uninit.rs`, `iter.rs` |
| `UStr` | `UStr` | `ustr.rs` |
| `OwnedSequence` | abstract: a sequence of values, each dropped once when it is closed | promise of the three collections |
| `Collections` | all of them in one arena, between which the program moves values | |
| `MCMemory`, `MCPlacement`, `MCArena`, `MCCollections` | small instances for TLC | |
| `SequenceFacts` | lemmas about sequences | |
| `MemoryProofs`, `DropListProofs`, `PlacementProofs` | theorems of the modules they are named after | |
| `CollectionsInvariant`, `CollectionsSteps`, `CollectionsProofs` | the inductive invariant of `Collections`, what its steps do, its theorems | |
| `ArenaProofs`, `ArenaMemory` | theorems of `Arena`: its call stacks, its handles and drop functions; its memory | |

How they compose. `Memory` refines `BlockPool` with threads as clients, and
`Arena` refines it with arenas as clients, taking a whole `take_block` or
`return_block` as one step: the mutex, whose body `Memory` opens up, is what
justifies that. `Arena` keeps a drop chain as a queue and a count of used slots
in the last list, which is what `DropList` implements (`DropQueue`), and counts
space in units, which `Placement` refines to bytes. `Tenants` is the arena seen
from above: `Arena` says when drop functions run and that each runs once, and
`Tenants` opens a drop function up into the drops of the values it is for.
`Collections` composes the five collections over it, and shows that `List`,
`Array` and `FixedArray` each implement `OwnedSequence`.

### Memory
`minFree`, `maxFree` and `free` are the fields of `ArenaMemoryInstance` (the
front of the queue is the head of the sequence); `held[t]` is what thread t
took; `lock`, `poisoned` are the mutex; `pc[t]` is where t is inside a body.
`TakeLock` is `lock().expect()` with the comparison that follows, `FillOne` a
round of the filling loop (`push_front`), `PopBack`/`PopNothing` the `pop_back`
that succeeds or panics, `Return` the whole of `return_block`, `CleanupLock`,
`CleanOne`, `CleanEnd` the trimming. `LockPoisoned` is any call on a poisoned
mutex. Blocks are identities; their allocation picks any unallocated one.
Negative settings are left out.

### Placement
State: the block's length, the address of the last block (`base`, any of `Bases`,
odd ones included), its `next_item_offset`, and as history the items in it, at
whose end the offset is. `UploadValue` is
`upload_auto_drop`/`upload_no_drop` with `push_copy`, `ReserveItems` is
`alloc_no_drop_items_aligned_uninit`, of which `upload_no_drop_bytes` is the case
of stride and alignment 1. Each has the three outcomes of the code: placed
here, refused as too big, or placed in a fresh block - where the second attempt
may still fail and panics. Sums wrap at `Width` bits and the byte count is
compared as a signed number.

### DropList
`items`, `next`, `used` are the fields of each list, `first` and `last` the
metadata's pointers, `at` the loop's position, `phase` whether the arena is
still open for registration, executing, inside a drop function, done, or left
by a panic. `Push` writes the slot and, when that fills the list, links an
empty successor in the same call. `pushed` and `done` are histories: what was
registered and whose function was entered, in order. The refinement mapping takes
as the queue what is in `pushed` behind the first `Len(done)`; that the slots
behind the walk hold just these items is what the refinement shows.

### Arena
Per arena: `chain` (oldest block first), `meta` (the block the handles point
into), `room`, `used` and `queue`, `strong` and `rc`; `strongs` and `weaks` are
the handles that exist, wherever they are; `inside[i]` the handles in item i.
`stack[t]` is thread t's call stack inside this code: `new` (between the two
halves of `Arena::new`), `next` (linking a list), `exec` (inside
`execute_drop_chain`), `user` (inside a drop function), `unwind` (leaving one by
a panic), `reclaim` (the loop of `reclaim_memory`). `DropField` is how a drop
function drops one of its item's handles, of this arena or of another, pushing
further calls on the stack. An item in `MayUse` also uses them before it drops
them: it clones, downgrades, upgrades, uploads to and registers with whatever
arena it holds a handle on, its own dying arena included (where all that asks
`is_alive` is refused); a handle it makes is its own to drop, or to move into
the item it uploads. `InHand` says who has which handle, and the actions for
handles and uploads are the same for the program and for drop functions. The
frames that remain when a nested drop returns are exactly the reads the code
still makes: `exec` goes on to the next slot and then to `rc`, `reclaim` to the
pool's handle.

The program's freedom is restricted by two constants. `MayHold` says whose
items may hold handles on whom; on an arena in `Anchored` the program keeps one
handle of its own, be it a `WeakArena`, while handles on it are inside items
(`KeepsOneWithout`, a guard of `Upload` and `DropHandle`). The code does not ask for
it; `arena_self_weak` shows what happens without.

### Tenants and Outlives
`phase` is the arena's state; `registered` the drop functions in order of
registration, of which there are three kinds: a value's own (`N::new`, an item
of a `List`), an array's (`drop_growable_array`) and a fixed array's
(`drop_array`). `Enter` takes the oldest; for an array it writes down the items
it is going to drop (`todo`), and `DropHead` enters the next one's own drop, which
is user code: while it runs (`busy`) the program may call any collection of the
dying arena, and it returns or panics. `outside` are the values the program has;
every call moves one in, gets one back or drops it because it fails. `fault`
ends a behaviour where the code does something undefined: dropping bytes that
were never written, writing past the end of a block, or writing through null.

`owned[p]` is the list of p's `NMetadata`, head first. `walks` are the calls of
`NMetadata::drop` in progress, outermost first, each with the place of the next
item in its list: `OpenNext` calls the drop of that item, whose own list comes
first, and `DropOwn` enters the drop of the value itself at the list's end. After a
panic `OpenNext` is disabled and `DropOwn` is not: every loop that the call
was made from is abandoned, and the values whose `NMetadata` is unwound are still
dropped. A list's item, and an `N` nothing hangs on, is a walk of an empty list.

### ListSegments
`segments` are the arrays of `SegMax` pointers in the order of their links,
`usedSlots` the count of the last one. A push takes the slot, or links a new
segment, before the item's upload; when that fails the slot stays null
(`ListPushTooBig`), which is where iteration ends. `Slot` numbers the slots in
the order in which `ListIter::next` goes through them, and `ListEnd` is where it
stops.

### GrowableArray
`ptrs` is the table with `_capacity` entries, `arrLen` the length. `ArrayNew`
registers before it places the table, as the code does, so that a failure leaves
a drop function with nothing to do. `ArrayPush` grows the table when it is
full (`NewCap`, `Grown`), places the item and writes its pointer;
`ArrayPushFails` is the failure of either upload, `ArrayPushDead` the panic of
`expect` on a dead arena. `ArrayPop` gives the last item back. `StartTable` is
`drop_growable_array`.

### FixedArray
`cells` is the region, `fixLen` and `fixData` the metadata, `initLen` the count
of initialised items. `FixedNew` sizes the region by what an iterator announces
and fills it with what the iterator yields, for each of `Sources`: one that
keeps its word, the crate's own iterators over a live or dying fixed array
(`EmptyIfDeadIter`) and over a list that was already begun, and one that
panics in `next`. Items beyond the region are written behind it (`WritesOn`). The
region is the last thing in its block, so they land in free room, which the
next upload takes and where no handle leads to them (`spilled`), or, where the
block ends first, in somebody else's memory: a `fault`. `FixedReserve` is `with_capacity`; `InitPush`, `FillByC` and
`FixedDone` are the two ways from there to an array; `WriteNull` is either of
them after the arena's death. `StartFixed` and `EndFixed` are the two ends of
`drop_array`, which sets the length before the first drop and the pointer after
the last.

### UStr
`text` holds what was given, the bytes with their terminator, and the count
modulo `CountMax` (2^16 in the code). Bytes are of three kinds: a character, one
that is not UTF-8 where it stands, nul. `UStrNew` is `from_str` and `from_cstr`
with their checks; `StrView` reads by the count, `CStrView` up to the first nul.

## 3. Runs

| Run | Instance | Result |
|---|---|---|
| `memory` | 2 threads, 6 blocks, at most 2 held by each, min and max in 0..2 | types, ownership, mutual exclusion, poisoning only for a zero setting, bounded memory, refinement of `BlockPool`, the lock is let go |
| `placement` | blocks of 64, 69 and 72 bytes, header 24, alignments 1 to 16, addresses 1, 8 and 16 | inside the block, no overlap, misaligned only where the block is, no panic but for padding |
| `placement_padding` | 72-byte block, alignment 16 | **violated**: panic instead of `ItemDoesNotFit` |
| `droplist` | 3 lists of 2 slots, 5 items | refinement of `DropQueue`, no gap, no overrun, every execution ends |
| `arena_threads` | 2 arenas on 2 threads, blocks of 1 or 3 units, 5 blocks | ownership across threads, drop-list overflow, pool lifetime, refinement of `BlockPool` |
| `arena_nested` | 2 arenas on one thread, 2 items that use their handles, one of which panics, 4 handles; the first arena's items may hold handles on both, the second's on the first; both anchored | counters, memory, once-only drop, drop before return, no resurrection, no stale access, a strong handle in its own arena is never dropped |
| `arena_live` | 2 arenas on one thread, items of the first may hold handles on the second, 3 handles, one block per arena | no leak |
| `arena_self_weak` | items hold handles on their own arena, not anchored | **violated**: memory returned while the walk goes on |
| `arena_pool_leak` | one arena | **violated**: the pool is never freed |
| `collections` | 3 values, one of which panics when dropped; segments of 2, first capacity 1, room for 2 or 4 entries of two bytes, regions of 1 and 3, collected hints 0 and 3, a count of 2 bits; any 2 kinds of collection in one behaviour | types, what is read is live, order of outlived values, every value dropped exactly once, strings, undefined behaviour only where explained, refinement of `OwnedSequence` three times |
| `collections_initializer` | the same, one kind at a time, iterators that keep their word | **violated**: a value pushed to an `ArrayInitializer` is dropped twice |
| `collections_outlives` | the same, no iterators | **violated**: what outlives a value is dropped before it |

The violated properties quote a statement of the repository each; the findings
in `PROJECT.json` give both lines.

Some passing properties hold within limits that the code does not enforce, and
fail just outside of them:

- `InsideBlock`, while byte counts are not negative as an `isize` (`arena.rs` 187
  and 212 cast them before the comparison); with `Width = 8` a run of 160 bytes
  is placed past the end of the block.
- `OnlyBaseMisaligns` holds for any address of a block, and is all the code
  gives: blocks are byte slices (`memory.rs` 26), so the allocator may return an
  address that does not suit the type uploaded, and the item's address then does
  not suit it either, as where a type aligned to 32 bytes is put in a block at a
  multiple of 16. `push_copy` hands out a reference all the same (`block.rs` 104),
  and the drop function asserts that this cannot be (`droplist.rs` 126).
- `DroppedBeforeReclaim`, while no drop function panics: afterwards `strong_rc`
  is 0, nobody executes the chain again, and the weak handles still return the
  memory.
- `NoStaleAccess`, while no item holds the last handle on an arena that is being
  dropped further up the stack (`arena_self_weak`). The run and the theorem let
  items hold handles on their own arena and in circles, and the program keep one
  handle on each such arena (`Anchored`).
- `ReadsLive`, for reads that ask `is_alive` at the time. An iterator of a `List`
  or `Array` asks when it is made (`list.rs` 63, `array.rs` 207) and `Index` of an
  `Array` never: kept past the arena's death they yield dropped items.
  The slice of a `FixedArray` does not ask either, and is empty in time.
- `DroppedExactly`, but for two kinds of value, which it names: those pushed to an
  `ArrayInitializer` are dropped twice, those written past the end of a region or
  filled in and finished too late never.

What else the models showed of the code, each of it visible in an action's
comment:

- `EmptyIfDeadIter::len` is inverted (`iter.rs` 7-13): 0 while alive, the length when
  dead. Collecting a live `FixedArray` therefore makes one of length 0 and
  writes all items behind it, past the end of the block if that comes first
  (`WritesOn`; `FaultsExplained` names it the only cause of such a write). The loop
  of the unit test `test_collect` (`array_fixed.rs` 383) zips the empty result,
  compares nothing and passes.
- The `len` of a list's iterator does not count down, so that a fixed array made from
  one that was begun drops bytes never written.
- A pool built with `min = 0` never fills its queue (`memory.rs` 23 asks for less than
  `min`), against what `memory.rs` 70-73 says, and its first `take_block` panics
  and poisons the mutex; `PoisonedOnlyIfUnfillable` allows a zero setting for that.
- `Array::push` panics on a dead arena where `List::push` returns an error.
- An `UninitArray` or `ArrayInitializer` kept past the arena's death writes through
  null.

Why the bounds are enough. In `Memory` six blocks allow every combination of
full, partly filled and empty queue with both threads at their limit and never
starve the allocator. In `Arena` a block of three units holds the metadata, the
first drop list and one item, so that the second item needs a block and the
second registration a list: every allocation path is taken within two or three
blocks. Four handles allow a strong and a weak handle on each arena, in the
program's hands or inside items, and leave one that a drop function can make.
`ChainMax` bounds a chain, `HeldMax` what a
thread holds; `ListMax` is 2 instead of 1022 and only compared with the count.
Items of both arenas may hold handles on the first, which gives
every shape of circle: an item on its own arena, and one by way of the other.
`Placement` uses 8-bit words, wide enough for the block sizes used so that
nothing wraps in the checked instance.

In `Collections` three values fill a segment of two and begin another, push an
array of capacity 0 through its growth to 1, 2 and 4 and back, and fill a region of
one past its end and one of three short of it; `Largest` of 2 makes the larger
tables and regions fail and of 4 does not. Three are also what `N` needs for a list
of two, in either order, and for a list below a list. `MaxKinds` allows any two
kinds of collection next to each other, which is enough for every pair of drop
functions to follow each other, and for a value's drop in one to call the other.
With `CountMax` of 4 strings of up to 5 bytes pass the limit of 2 by more than a
turn of the count, and with `EntryBytes` of 2 the arena has room for all of them,
so that the check of the length is what refuses them. Values whose drop panics are not dropped by a
failing call inside another value's drop, since that aborts the process.

Symmetry is used in safety runs only, on sets whose members the specification
does not tell apart (`SymmetryButItems` and the symmetry of `MCCollections` leave
out those that panic). Deadlock is not checked where the program may really
stop: all arenas dead and all items used.

Fairness. `Memory!FairSpec` and `DropList!FairSpec` let a body that has been
entered go on; `Arena!FairSpec` does the same per thread. The code never waits
inside these bodies except for the mutex (shown to be released), and a drop
function returns or panics. No fairness is assumed of what the program asks for.

## 4. Proofs

Every theorem holds for all values of the constants that satisfy the `ASSUME` of
the module it is about, which TLC evaluates in the runs.

**Memory.** `SequenceFacts` states what appending, prepending and removing an
end does to the range, the injectivity and the length of a sequence.
`MemoryProofs` proves `Spec => []IInv` for

- the type invariant,
- ownership of blocks (`BlocksOwnedOnce`) and the lock's owner (`MutualExclusion`),
- what a thread inside a body knows: past the comparison (`pc = "pop"`) the
  queue has at least `minFree` blocks, and
- the history behind poisoning: if a setting is zero, no block was ever
  allocated.

The last two make the invariant inductive: `PopNothing` can fire only with an
empty queue, which after the fill loop means `maxFree = 0` and after a skipped
loop `minFree = 0`. From `IInv` follow `TypeCorrect`, `Exclusion`, `Ownership`,
`NoPoison` and `PoisonBeforeUse`. `Refinement` proves that every step of `Memory`
is a step of `BlockPool` or leaves it unchanged; it needs ownership, since a
block handed out must be no one else's, and the equality of a queue's length
with the cardinality of its range. `MemoryBounded` proves `PoolBounded` for
finitely many threads: a thread that fills the queue holds fewer than `HeldMax`
blocks (`HeldBounded`), so the blocks in all hands can be numbered by pairs of a
thread and a number with one pair left over (`HeldCount`), and every other step
only moves or frees blocks. `MemoryAssumption` says only that settings are
natural numbers, `HeldMax` is positive and `NoThread` is not a thread.

**DropList.** `TypeCorrect`, `GapFree`, `EndsSafely` and `QueueRefines`, for any
number of lists, slots and items. That a walk, first or repeated, never reaches the
end of a list without a successor is not inductive by itself. The
invariant adds that no list is linked to twice, that while the arena is open the
full lists are those with a link, and that no link leads to a list the walk left
behind: the walk takes the link out as it passes (`droplist.rs` 88-90).

`QueueRefines` is `Spec => ImplementsQueue`. It needs the chain as a sequence, which
the program does not keep and the lists left behind no longer show: `ChainInv` says
that there is a sequence without repetition of all lists ever linked, from `first`
to `last`, whose links are in place from the walk's list on, and that slot s of its
k-th list has the number (k - 1) * `ListMax` + s: it holds the item registered under
that number until its function returned, and nothing otherwise. That no two slots have the
same number (`NumberUnique`) makes registering and emptying a slot change one number
only; that fewer items than numbers exist (`Sized`) makes the walk stop before the
chain does. `WalkReads` then says that the walk is at the next item registered, or at
an empty slot just when all have run, and `StepRefines` goes through the actions.

**Placement.** `TypeCorrect`, `Inside`, `Disjoint`, `NoOtherMisalignment` and
`PanicOnlyByPadding`, for every word width, block size, header and alignment, under
a hypothesis that the code does not check and the theorems name: `CountsFit`
(block sizes and byte counts are below the sign bit), which fails in the way
section 3 describes. Nothing is assumed of the addresses the allocator returns.

**Collections.** `CollectionsInvariant` defines `IInv`, `CollectionsSteps` says what
each step does to each part of the state, and `CollectionsProofs` proves
`Invariance == Spec => []IInv`, for any set of values, any of them panicking in their
drop, and any sizes of segments, tables and regions. The parts, and what each is
for:

- `ControlInv`: drop functions run in a dying arena only, one at a time; an array's
  has items to drop, a value's has walks.
- `PlaceInv`: a value is in one of six places - with the program, in a node, a list, an
  array, a region, or past a region's end - or was refused and dropped. No other part
  could say whose item is dropped: with it a step of one collection leaves the drop
  counts of all others alone.
- `NodesInv`: the lists of the `NMetadata` form a forest along the order in which
  the nodes were placed. `WalksInv`: the walks are a path in it, and what is left of
  each walked list was not begun with. `OrderInv`: what hangs on a value is begun with
  after and dropped before it, each list in its order; a panic only skips.
- `RegisteredInv`: the chain holds one entry for each list item and each node that
  hangs on nothing, until its drop begins. This is what excludes that the chain drops
  what a walk does. `ListInv`: a list's entries are in the order of its pushes.
- `SegmentsInv`: all segments but the last are full, which makes `ListEnd` a length.
- `TableInv` and, for regions, `CellsInv` and `FixedInv`: an array's drop function
  waits, or is as many items in as it dropped, or is done. A region's says in addition
  which cells hold values, by the way it was filled, that `drop_array` set the length to
  zero before the first drop, and that `FixedDone` finds what it needs or nothing.
- `TypeOK` and `FaultsExplained` themselves.

From it follow `TypeCorrect`, `ReadsOnlyLive`, `DropsInOrder`, `FaultsAreExplained` and
`AllDroppedExactly`. The last needs an argument over the whole forest: in an arena
that died without a panic each node was dropped (`NodesDropped`). Of those that were not,
the one placed first would hang on an older node, or on none; the older one was
dropped, so `OrderInv` says that it was too, and if it hung on none its entry would
still be in the chain, which is empty. `LeastOf`, the existence of a first, comes from
the well-foundedness of the natural numbers.

`ListRefines`, `ArrayRefines` and `FixedRefines` prove that the three collections
implement `OwnedSequence`, whose `gone` is the set of items dropped so far: it grows by the
next item in order, which `ListInv`, `TableInv` and `FixedInv` know, only after the
sequence is closed, and no item is dropped twice or given twice (`PlaceInv`).

`StringsFaithful`: a string that some constructor accepted reads as given, by count
and by terminator. Its invariant `StrInv` says that what was accepted has no nul and
is shorter than the count's range, and that no other call touches it.

**Arena.** `ArenaProofs` proves how call stacks can be built, and then the
invariant `IInv == Structure /\ Queued`, `ArenaMemory` what needs the blocks. The
parts of the invariant, and what each is for:

- `Nesting`: every call under the last is a chain's walk or a drop function; a
  drop function was called from a walk of its own arena; `Arena::new` is alone.
  This says which arena a step is about, and on whose thread.
- `HandlesApart`, `HeldHere`, `Unseen`: a handle exists once and is in one place,
  those in items are on arenas `MayHold` allows, hence of the same thread, and
  nobody has a handle on an arena that is not complete. With `RefCounts` they
  make the counters the cardinalities of sets from which one handle is taken at a
  time, also in the middle of nested drops.
- `Dying`: whoever walks a chain does so when no strong handle is left, and whoever
  returns the memory when no handle is.
- `ChainStarts`, `HasMemoryWhileUsed`, `MemoryCount`: the chain starts with the
  block of the metadata, which therefore goes back last, and not while there is a
  handle; the `Arc` counts one clone per arena that was created.
- `Linking`, `LastListNotFull`: a full list exists only while its successor is
  being placed, by a call that comes through a handle.
- `Queued`: an item of an arena waits in its queue, once, or was dropped, once.

From it follow `TypeCorrect`, `LastListHasRoom`, `RefCountsExact`,
`HandlesHaveMemory`, `PoolOutlives`, `DroppedAtMostOnce`, and the action properties
`DeadStayDead` and `CyclesLive`. `BlocksHaveOneOwner` adds the pool;
`ArenasUsePool` shows that every step of `Arena` is a step of `BlockPool` with the
arenas as its clients, where `OneBlock` is needed for an `Arena::new` that fails:
it gives up its one block, as the abstract pool's clients may.

What is stale, and when. `Leads(a, b)` says that handles in items lead from a to b:
the transitive closure of `MayHold`. The calls of a stack follow it: each leads to all
entered after it (`CallsInOrder`). So where a does not lead to itself, an arena
whose memory a call returns is in no other call of the stack. Where it does, and a
is anchored, the drop functions that drop a handle on a do so while the program still
has one (`AnchorsHold`): they never reach the last. In both cases, which are
`Safe(a)`, the call that returns a's memory is the only one in a (`ReturnsAlone`);
that includes a walk that is done and finds no handle left, since the walk of an
arena is its first call (`WalkedFirst`). `SafeHaveMemory` is the invariant that
follows.

- `StaleLeadsBack` has no hypothesis: a call left in returned memory is in an arena
  that leads back to itself and is not anchored. `arena_self_weak` is that case.
- `NothingStale` follows for programs that anchor such arenas (`AnchorsCycles`), with
  items that hold handles on their own arena, as nested `N`, `List` and `UStr`
  values do, or in circles.
- `ReclaimedIsDropped` has the same hypothesis: as long as no drop function panicked, a
  dead arena with items left is being walked (`Uninterrupted`), and a walk below a
  call that returns the same arena's memory is what `ReturnsAlone` excludes.

`ArenaAssumption` is about constants only: arenas stay with their thread, the
settings and block sizes are positive, and arenas, blocks and handles are finitely
many (for the counters and the pool's cardinalities).

Only model-checked: liveness (`LockReleased`, `ExecutionEnds`, `LeakFree`), which is
beyond this prover.

## 5. Plan

1. Done: the pool, placement, drop lists, arenas and handles, the collections, with
   their abstract specifications; the theorems of section 4, which state every
   safety property of the runs.
2. Done: what is stale without and with anchored arenas, for items with handles on
   their own arena and in circles.
3. Next: `Arena::new` from inside a drop function, which makes the stack above an
   arena's construction non-empty.

Not modelled, and why:

- `Arena::new` inside a drop function: the step between its two halves is kept for
  a thread that is in no other call.
- An iterator that uploads to the arena it is being collected into: its uploads
  would come to lie behind the region while that is being filled.
- The loops of `traits.rs`: a constructor and pushes up to the first that fails,
  which are actions; their own part, the capacity, is `CollectCap`.
- A second panic while unwinding, which aborts the process.
- Reads through an iterator or `Index` kept past the arena's death (section 3).
- More than one collection of a kind in one arena: they share nothing but the
  arena's order of registration, which pairs of kinds show.
- Negative pool settings, a block shorter than its header (`Block::new` panics), the
  allocator itself, formatting and error texts, logging, the test helpers.
