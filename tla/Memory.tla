-------------------------------- MODULE Memory --------------------------------
(***************************************************************************)
(* The pool of byte blocks of src/src/memory.rs: a queue of free blocks    *)
(* behind a mutex, shared by every thread that owns a clone of Memory.     *)
(*                                                                         *)
(* A call takes the lock, runs the body of the ArenaMemoryInstance method  *)
(* and releases the lock.  The two loops (filling the queue, trimming it)  *)
(* are modelled one iteration at a time, because a body may also end in a  *)
(* panic, and a panic with the lock held poisons the mutex: from then on   *)
(* lock().expect("lock") panics in every thread.                           *)
(*                                                                         *)
(* The queue's front is the first element of the sequence, its back the    *)
(* last.  The builder's two i32 settings are fields set once; negative     *)
(* ones, which the casts to usize turn into huge counts, are left out.     *)
(***************************************************************************)
EXTENDS Integers, FiniteSets, SequencesExt

CONSTANTS Thread,    \* threads with a clone of Memory
          Block,     \* identities of the blocks the system can allocate
          Settings,  \* the (min, max) settings a pool may be built with
          NoThread,  \* the owner of a lock nobody holds
          HeldMax    \* bound: blocks one thread holds at the same time

ASSUME MemoryAssumption ==
  /\ Settings \subseteq [min : Nat, max : Nat]
  /\ HeldMax \in Nat \ {0}
  /\ NoThread \notin Thread

VARIABLES minFree,   \* min_free_blocks_before_allocating_new
          maxFree,   \* max_free_blocks_to_initialize_or_cleanup_to
          free,      \* free_blocks
          held,      \* held[t]: blocks thread t took and has not returned
          lock,      \* the thread inside the mutex, or NoThread
          poisoned,  \* the mutex was poisoned by a panic
          pc         \* pc[t]: where thread t is in take_block or cleanup

fields == <<minFree, maxFree>>
memVars == <<fields, free, held, lock, poisoned, pc>>

Spare == Range(free)
HeldBlocks == UNION {held[t] : t \in Thread}

\* Blocks the allocator can return: those not allocated at the moment.
Unallocated == Block \ (Spare \cup HeldBlocks)

\* Ranges, and what the rest of take_block relies on once the minimum has been
\* compared: a thread that skips the filling loop has enough free blocks, one
\* inside it has not filled past the maximum (a queue may be longer than the
\* maximum, but then it was shorter than the minimum when the loop began).  Both
\* say that nobody else changes the queue in the meantime.
TypeOK ==
  /\ minFree \in Nat /\ maxFree \in Nat
  /\ free \in Seq(Block)
  /\ held \in [Thread -> SUBSET Block]
  /\ lock \in Thread \cup {NoThread}
  /\ poisoned \in BOOLEAN
  /\ pc \in [Thread -> {"idle", "fill", "pop", "clean"}]
  /\ \A t \in Thread :
       /\ pc[t] = "pop"  => Len(free) >= minFree
       /\ pc[t] = "fill" => Len(free) < minFree \/ Len(free) <= maxFree

-----------------------------------------------------------------------------
(* The instance is built: `new` fills the queue, if it must, before any    *)
(* other thread can see it.                                                *)

\* Mutant: one free block less is tolerated.
NeedsFillLate(n) == n + 1 < minFree

NeedsFill(n) == n < minFree

Init ==
  /\ \E s \in Settings : minFree = s.min /\ maxFree = s.max
  /\ free \in Injection(1..(IF NeedsFill(0) THEN maxFree ELSE 0), Block)
  /\ held = [t \in Thread |-> {}]
  /\ lock = NoThread
  /\ poisoned = FALSE
  /\ pc = [t \in Thread |-> "idle"]

-----------------------------------------------------------------------------
(* take_block                                                              *)

\* Mutant: the lock is not taken.
TakeLockUnlocked(t) ==
  /\ pc[t] = "idle" /\ lock = NoThread /\ ~poisoned
  /\ Cardinality(held[t]) < HeldMax
  /\ pc' = [pc EXCEPT ![t] = IF NeedsFill(Len(free)) THEN "fill" ELSE "pop"]
  /\ UNCHANGED <<fields, free, held, lock, poisoned>>

\* The lock is taken and the number of free blocks compared with the minimum.
TakeLock(t) ==
  /\ pc[t] = "idle" /\ lock = NoThread /\ ~poisoned
  /\ Cardinality(held[t]) < HeldMax
  /\ lock' = t
  /\ pc' = [pc EXCEPT ![t] = IF NeedsFill(Len(free)) THEN "fill" ELSE "pop"]
  /\ UNCHANGED <<fields, free, held, poisoned>>

\* Mutant: the loop runs once too often.
FillOneTooMany(t) ==
  /\ pc[t] = "fill" /\ Len(free) <= maxFree
  /\ \E b \in Unallocated : free' = <<b>> \o free
  /\ UNCHANGED <<fields, held, lock, poisoned, pc>>

\* One round of the filling loop: a fresh block goes to the front.
FillOne(t) ==
  /\ pc[t] = "fill" /\ Len(free) < maxFree
  /\ \E b \in Unallocated : free' = <<b>> \o free
  /\ UNCHANGED <<fields, held, lock, poisoned, pc>>

FillDone(t) == pc[t] = "fill" /\ Len(free) >= maxFree

\* Mutant: the block is handed out and stays in the queue.
PopBackKeeps(t) ==
  /\ pc[t] = "pop" \/ FillDone(t)
  /\ free # <<>>
  /\ held' = [held EXCEPT ![t] = @ \cup {Last(free)}]
  /\ lock' = NoThread
  /\ pc' = [pc EXCEPT ![t] = "idle"]
  /\ UNCHANGED <<fields, free, poisoned>>

\* The block at the back is handed out and the lock released.
PopBack(t) ==
  /\ pc[t] = "pop" \/ FillDone(t)
  /\ free # <<>>
  /\ free' = Front(free)
  /\ held' = [held EXCEPT ![t] = @ \cup {Last(free)}]
  /\ lock' = NoThread
  /\ pc' = [pc EXCEPT ![t] = "idle"]
  /\ UNCHANGED <<fields, poisoned>>

\* Mutant: the last free block is taken for an empty queue.
PopNothingEarly(t) ==
  /\ pc[t] = "pop" \/ FillDone(t)
  /\ Len(free) <= 1
  /\ lock' = NoThread
  /\ poisoned' = TRUE
  /\ pc' = [pc EXCEPT ![t] = "idle"]
  /\ UNCHANGED <<fields, free, held>>

\* pop_back finds nothing: expect("no allocated memory") panics, and the
\* guard dropped while unwinding poisons the mutex.
PopNothing(t) ==
  /\ pc[t] = "pop" \/ FillDone(t)
  /\ free = <<>>
  /\ lock' = NoThread
  /\ poisoned' = TRUE
  /\ pc' = [pc EXCEPT ![t] = "idle"]
  /\ UNCHANGED <<fields, free, held>>

-----------------------------------------------------------------------------
(* return_block, cleanup, and any call once the mutex is poisoned          *)

\* Mutant: the block is pushed without taking the lock.
ReturnUnlocked(t, b) ==
  /\ pc[t] = "idle" /\ ~poisoned
  /\ b \in held[t]
  /\ free' = Append(free, b)
  /\ held' = [held EXCEPT ![t] = @ \ {b}]
  /\ UNCHANGED <<fields, lock, poisoned, pc>>

Return(t, b) ==
  /\ pc[t] = "idle" /\ lock = NoThread /\ ~poisoned
  /\ b \in held[t]
  /\ free' = Append(free, b)
  /\ held' = [held EXCEPT ![t] = @ \ {b}]
  /\ UNCHANGED <<fields, lock, poisoned, pc>>

CleanupLock(t) ==
  /\ pc[t] = "idle" /\ lock = NoThread /\ ~poisoned
  /\ lock' = t
  /\ pc' = [pc EXCEPT ![t] = "clean"]
  /\ UNCHANGED <<fields, free, held, poisoned>>

\* Mutant: the loop stops one block below the maximum.
CleanOneTooMany(t) ==
  /\ pc[t] = "clean" /\ Len(free) >= maxFree /\ free # <<>>
  /\ free' = Tail(free)
  /\ UNCHANGED <<fields, held, lock, poisoned, pc>>

\* One round of the trimming loop: the block at the front is freed.
CleanOne(t) ==
  /\ pc[t] = "clean" /\ Len(free) > maxFree
  /\ free' = Tail(free)
  /\ UNCHANGED <<fields, held, lock, poisoned, pc>>

\* Mutant: the guard is not dropped.
CleanEndKeepsLock(t) ==
  /\ pc[t] = "clean" /\ Len(free) <= maxFree
  /\ pc' = [pc EXCEPT ![t] = "idle"]
  /\ UNCHANGED <<fields, free, held, lock, poisoned>>

CleanEnd(t) ==
  /\ pc[t] = "clean" /\ Len(free) <= maxFree
  /\ lock' = NoThread
  /\ pc' = [pc EXCEPT ![t] = "idle"]
  /\ UNCHANGED <<fields, free, held, poisoned>>

\* On a poisoned mutex every call panics before it touches the queue.
\* (return_block would also free its block, but see PoisonedPoolIsEmpty:
\* there is none to return.)
LockPoisoned(t) ==
  /\ pc[t] = "idle" /\ lock = NoThread /\ poisoned
  /\ UNCHANGED memVars

\* The steps a thread takes while it holds the lock.
Locked(t) == FillOne(t) \/ PopBack(t) \/ PopNothing(t) \/ CleanOne(t) \/ CleanEnd(t)

Next ==
  \E t \in Thread :
    \/ Locked(t)
    \/ TakeLock(t) \/ CleanupLock(t) \/ LockPoisoned(t)
    \/ \E b \in Block : Return(t, b)

Spec == Init /\ [][Next]_memVars

\* A thread inside the mutex keeps running: the bodies neither block nor wait.
FairSpec == Spec /\ \A t \in Thread : WF_memVars(Locked(t))

-----------------------------------------------------------------------------
(* Properties                                                              *)

\* No block is in two places: not twice in the queue, not in the queue and
\* with a thread, not with two threads.  This is what makes two arenas on two
\* threads never write to the same bytes (memory.rs take_block, return_block).
BlocksOwnedOnce ==
  /\ IsInjective(free)
  /\ \A t \in Thread : held[t] \cap Spare = {}
  /\ \A t, u \in Thread : t # u => held[t] \cap held[u] = {}

\* At most one thread is in the body of a call, and it is the lock's owner.
MutualExclusion ==
  \A t \in Thread : pc[t] # "idle" <=> lock = t

\* take_block finds the queue empty, and panics with the lock held (memory.rs:45),
\* only with a setting of zero: no history of calls on any threads can exhaust a
\* pool with both settings positive.
PoisonedOnlyIfUnfillable ==
  poisoned => minFree = 0 \/ maxFree = 0

\* A pool that can poison its mutex does so before it ever hands out a block:
\* no arena exists whose blocks could not be returned any more.
PoisonedPoolIsEmpty ==
  poisoned => free = <<>> /\ HeldBlocks = {}

\* Memory in use stays bounded: the pool never allocates maxFree blocks beyond
\* what the threads can hold at once, because filling stops at the maximum and
\* happens only on a take, when the free blocks have run low.
PoolBounded ==
  Cardinality(Spare \cup HeldBlocks) < maxFree + HeldMax * Cardinality(Thread)

\* Whoever gets the lock lets it go again: both loops end.
LockReleased ==
  \A t \in Thread : (lock = t) ~> (lock # t)

\* The mutex and the queue together behave as the abstract pool.
Pool == INSTANCE BlockPool WITH Client <- Thread, spare <- Spare

ImplementsPool == Pool!Spec
=============================================================================
