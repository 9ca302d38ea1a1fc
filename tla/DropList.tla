------------------------------- MODULE DropList -------------------------------
(***************************************************************************)
(* The drop lists of src/src/droplist.rs as arena.rs links them: arrays of *)
(* MAX_DROP_LIST_ITEMS slots, a count of used slots, and a pointer to the  *)
(* next list.  A list that becomes full gets an empty successor in the     *)
(* same call.  Execution walks the chain slot by slot, returns at the      *)
(* first empty slot and takes the chain apart behind it, so that executing *)
(* it again is a no-op; each drop function is user code, and may panic.    *)
(***************************************************************************)
EXTENDS Integers, FiniteSets, SequencesExt

CONSTANTS List,     \* addresses of drop lists in the arena
          Item,     \* values with a drop function
          ListMax,  \* MAX_DROP_LIST_ITEMS
          None      \* Option::None: an empty slot, no next list

ASSUME DropListAssumption ==
  /\ ListMax \in Nat \ {0}
  /\ None \notin List \cup Item
  /\ IsFiniteSet(List) /\ List # {}

VARIABLES items,    \* items[l]: the slots of list l
          next,     \* next[l]: next_list
          used,     \* used[l]: used_items
          first,    \* first_drop_list
          last,     \* last_drop_list
          at,       \* the slot the execution is at: a list and an index
          phase,    \* "open", "run", "user", "rest" or "broken"
          pushed,   \* history: items in the order of registration
          done      \* history: items whose drop function was entered

listVars == <<items, next, used, first, last, at, phase, pushed, done>>

Slot == 1..ListMax

TypeOK ==
  /\ items \in [List -> [Slot -> Item \cup {None}]]
  /\ next \in [List -> List \cup {None}]
  /\ used \in [List -> 0..ListMax]
  /\ first \in List /\ last \in List
  /\ at \in [list : List, slot : 1..(ListMax + 1)]
  /\ phase \in {"open", "run", "user", "rest", "broken"}
  /\ pushed \in Seq(Item) /\ done \in Seq(Item)

\* Lists that hold something or are linked: the arena never reuses their place.
Placed == {first, last} \cup { l \in List : used[l] > 0 }

EmptySlots == [s \in Slot |-> None]

Init ==
  /\ items = [l \in List |-> EmptySlots]
  /\ next = [l \in List |-> None]
  /\ used = [l \in List |-> 0]
  /\ first \in List
  /\ last = first
  /\ at = [list |-> first, slot |-> 1]
  /\ phase = "open"
  /\ pushed = <<>> /\ done = <<>>

-----------------------------------------------------------------------------
(* Registering                                                             *)

\* Mutant: the new list is linked but the old one stays the last.
LinkNextForgets(n) ==
  /\ next' = [next EXCEPT ![last] = n]
  /\ UNCHANGED last

\* Mutant: the new list is the last but nothing points to it.
LinkNextLost(n) ==
  /\ last' = n
  /\ UNCHANGED next

\* push_next_drop_list.
LinkNext(n) ==
  /\ next' = [next EXCEPT ![last] = n]
  /\ last' = n

\* Mutant: the count is raised before the slot is chosen.
WriteItemSkips(i) ==
  /\ used[last] + 2 \in Slot
  /\ items' = [items EXCEPT ![last][used[last] + 2] = i]
  /\ used' = [used EXCEPT ![last] = @ + 1]

\* write_item.
WriteItem(i) ==
  /\ items' = [items EXCEPT ![last][used[last] + 1] = i]
  /\ used' = [used EXCEPT ![last] = @ + 1]

\* push_drop_fn and push_custom_drop_fn of ArenaMetadata.  The lists of a dead
\* arena are never written to: its last strong handle is gone.
Push(i) ==
  /\ phase = "open"
  /\ \A l \in List, s \in Slot : items[l][s] # i
  /\ WriteItem(i)
  /\ IF used'[last] = ListMax
       THEN \E n \in List \ Placed : LinkNext(n)
       ELSE UNCHANGED <<next, last>>
  /\ pushed' = Append(pushed, i)
  /\ UNCHANGED <<first, at, phase, done>>

-----------------------------------------------------------------------------
(* execute_drop_chain                                                      *)

\* drop_objects calls it once; the tests call it again after it returned.
Start ==
  /\ phase \in {"open", "rest"}
  /\ at' = [list |-> first, slot |-> 1]
  /\ phase' = "run"
  /\ UNCHANGED <<items, next, used, first, last, pushed, done>>

Here == items[at.list][at.slot]

\* A filled slot: its drop function is entered.
RunItem ==
  /\ phase = "run" /\ at.slot \in Slot /\ Here # None
  /\ done' = Append(done, Here)
  /\ phase' = "user"
  /\ UNCHANGED <<items, next, used, first, last, at, pushed>>

\* Mutant: the slot is left filled.
UserReturnKeepsSlot ==
  /\ phase = "user"
  /\ at' = [at EXCEPT !.slot = @ + 1]
  /\ phase' = "run"
  /\ UNCHANGED <<items, next, used, first, last, pushed, done>>

\* The drop function returns, and the slot is emptied.
UserReturn ==
  /\ phase = "user"
  /\ items' = [items EXCEPT ![at.list][at.slot] = None]
  /\ at' = [at EXCEPT !.slot = @ + 1]
  /\ phase' = "run"
  /\ UNCHANGED <<next, used, first, last, pushed, done>>

\* The drop function panics: the loop is left with the slot still filled.
\* Nothing executes this chain again, since strong_rc stays at 0.
UserPanic ==
  /\ phase = "user"
  /\ phase' = "broken"
  /\ UNCHANGED <<items, next, used, first, last, at, pushed, done>>

\* An empty slot ends the execution.
StopAtEmpty ==
  /\ phase = "run" /\ at.slot \in Slot /\ Here = None
  /\ phase' = "rest"
  /\ UNCHANGED <<items, next, used, first, last, at, pushed, done>>

\* Mutant: the link is removed and the walk stays where it is.
FollowNextStays ==
  /\ phase = "run" /\ at.slot = ListMax + 1
  /\ next' = [next EXCEPT ![at.list] = None]
  /\ UNCHANGED <<items, used, first, last, at, phase, pushed, done>>

\* Past the last slot: the link is removed and followed.
FollowNext ==
  /\ phase = "run" /\ at.slot = ListMax + 1
  /\ next[at.list] # None
  /\ at' = [list |-> next[at.list], slot |-> 1]
  /\ next' = [next EXCEPT ![at.list] = None]
  /\ UNCHANGED <<items, used, first, last, phase, pushed, done>>

Executing == RunItem \/ UserReturn \/ UserPanic \/ StopAtEmpty \/ FollowNext

Next == Start \/ Executing \/ \E i \in Item : Push(i)

Spec == Init /\ [][Next]_listVars

\* An execution that was started goes on; drop functions return or panic.
FairSpec == Spec /\ WF_listVars(Executing)

-----------------------------------------------------------------------------
(* Properties                                                              *)

Filled(x) == x # None

\* Before an execution every list is filled from its first slot up to its
\* count without a gap, and only the last list may have room: the execution
\* may stop at the first empty slot, and write_item never runs past the end.
NoGap ==
  phase = "open" =>
    /\ \A l \in List, s \in Slot : Filled(items[l][s]) <=> s <= used[l]
    /\ \A l \in Placed : used[l] = ListMax <=> l # last

\* The chain ends in an empty slot, never at a full list without successor:
\* the loop's other exit, at next_list = None, is not needed (arena.rs:101).
EndsAtEmptySlot ==
  phase = "run" /\ at.slot = ListMax + 1 => next[at.list] # None

\* Every execution comes to an end, the repeated one as well.
ExecutionEnds == (phase = "run") ~> (phase \in {"rest", "broken"})

\* The lists implement the queue of what was registered and not yet run: once
\* each, in the order of registration, nothing left when the execution
\* returns, and a second execution is a no-op (droplist.rs:76-77).
Queue == INSTANCE DropQueue WITH
  queue <- SubSeq(pushed, Len(done) + 1, Len(pushed)),
  mode  <- IF phase = "user" THEN "run" ELSE phase

ImplementsQueue == Queue!Spec
=============================================================================
