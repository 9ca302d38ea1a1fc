---------------------------- MODULE DropListProofs ----------------------------
(***************************************************************************)
(* Theorems about the drop lists of DropList, for any number of lists,     *)
(* items and slots: what the lists look like, and that they implement the  *)
(* queue of DropQueue.                                                     *)
(***************************************************************************)
EXTENDS DropList, SequenceFacts, TLAPS

(***************************************************************************)
(* The inductive invariant.  While the arena is open a list links to       *)
(* another exactly when it is full, and no list is linked to twice.  While *)
(* the chain is walked the lists left behind have lost their links: what   *)
(* keeps the walk from coming to one of them is that no link leads there.  *)
(***************************************************************************)

\* Slots behind a list's count are empty, at all times.
Unfilled == \A l \in List, s \in Slot : s > used[l] => items[l][s] = None

\* Links are injective and none leads to the first list or is a loop.
Links ==
  \A l \in List : next[l] # None =>
    /\ next[l] # first
    /\ \A k \in List : next[k] = next[l] => k = l

\* While open, the full lists are those that have a link, to a list in use.
OpenLinks ==
  phase = "open" =>
    \A l \in List :
      /\ used[l] = ListMax => next[l] # None
      /\ next[l] # None => used[l] = ListMax /\ next[l] \in Placed

\* A list a link leads to was not left behind, and is not being walked.
Ahead ==
  \A l \in List : next[l] # None =>
    /\ used[next[l]] = ListMax => next[next[l]] # None
    /\ phase \in {"run", "user"} => next[l] # at.list

\* The walk is in a list that can be left at its end, not past the list's
\* count; or, when the chain is executed again, at an empty first slot.
Walk ==
  phase \in {"run", "user"} =>
    \/ /\ at.slot <= used[at.list] + 1
       /\ used[at.list] = ListMax => next[at.list] # None
    \/ at = [list |-> first, slot |-> 1] /\ Here = None

\* Inside a drop function the slot is a filled one.
InSlot == phase = "user" => at.slot \in Slot /\ Here # None

\* Once the walk is past the first slot, that slot is empty.
FirstEmptied ==
  /\ phase = "run" => at = [list |-> first, slot |-> 1] \/ items[first][1] = None
  /\ phase = "user" => at = [list |-> first, slot |-> 1] \/ items[first][1] = None
  /\ phase = "rest" => items[first][1] = None

IInv ==
  /\ TypeOK /\ NoGap /\ Unfilled /\ Links /\ OpenLinks /\ Ahead
  /\ Walk /\ InSlot /\ FirstEmptied

-----------------------------------------------------------------------------

\* The invariant holds at the start.
LEMMA InitHolds == Init => IInv
BY DropListAssumption DEF Init, IInv, TypeOK, NoGap, Unfilled, Links, OpenLinks,
   Ahead, Walk, InSlot, FirstEmptied, Slot, EmptySlots, Placed, Filled

\* Registering: the count of the last list is below ListMax, so the slot
\* behind it exists, and a list that is now full gets a successor that no
\* link leads to yet.
LEMMA PushKeeps ==
  ASSUME IInv, NEW i \in Item, Push(i)
  PROVE  IInv'
<1> USE DropListAssumption
<1>1. /\ phase = "open" /\ phase' = "open"
      /\ UNCHANGED <<first, at, done>>
      /\ pushed' = Append(pushed, i) /\ pushed' \in Seq(Item)
      /\ used[last] < ListMax
      /\ used[last] + 1 \in Slot
      /\ i # None
  BY DEF IInv, TypeOK, Push, NoGap, Placed, Slot
<1>2. /\ items' = [items EXCEPT ![last][used[last] + 1] = i]
      /\ used' = [used EXCEPT ![last] = @ + 1]
  BY DEF Push, WriteItem
<1>3. /\ used' \in [List -> 0..ListMax]
      /\ used'[last] = used[last] + 1
      /\ \A l \in List : l # last => used'[l] = used[l]
  BY <1>1, <1>2 DEF IInv, TypeOK
<1>4. /\ items' \in [List -> [Slot -> Item \cup {None}]]
      /\ items'[last][used[last] + 1] = i
      /\ \A l \in List, s \in Slot :
           l # last \/ s # used[last] + 1 => items'[l][s] = items[l][s]
  BY <1>1, <1>2 DEF IInv, TypeOK
<1>5. \A l \in List, s \in Slot : Filled(items'[l][s]) <=> s <= used'[l]
  <2>1. ASSUME NEW l \in List, NEW s \in Slot
        PROVE  items'[l][s] # None <=> s <= used'[l]
    <3>1. items[l][s] # None <=> s <= used[l]
      BY <1>1 DEF IInv, NoGap, Filled
    <3>2. CASE l # last
      BY <3>1, <3>2, <1>3, <1>4
    <3>3. CASE l = last /\ s = used[last] + 1
      BY <3>3, <1>1, <1>3, <1>4
    <3>4. CASE l = last /\ s # used[last] + 1
      <4>1. items'[l][s] = items[l][s] /\ used'[l] = used[l] + 1
        BY <3>4, <1>3, <1>4
      <4>2. s \in Int /\ used[l] \in Int
        BY <3>4 DEF Slot, IInv, TypeOK
      <4> QED BY <3>1, <3>4, <4>1, <4>2
    <3> QED BY <3>2, <3>3, <3>4
  <2> QED BY <2>1 DEF Filled
<1>6. Unfilled'
  <2>1. ASSUME NEW l \in List, NEW s \in Slot, s > used'[l]
        PROVE  items'[l][s] = None
    <3>1. ~(s <= used'[l])
      BY <2>1, <1>3 DEF Slot
    <3> QED BY <3>1, <1>5 DEF Filled
  <2> QED BY <2>1 DEF Unfilled
<1>7. CASE used'[last] = ListMax
  <2>1. PICK n \in List \ Placed : LinkNext(n)
    BY <1>7 DEF Push
  <2>2. /\ next' = [next EXCEPT ![last] = n] /\ last' = n
        /\ n # last /\ n # first /\ used[n] = 0
    BY <2>1 DEF LinkNext, Placed, IInv, TypeOK
  <2>3. /\ next' \in [List -> List \cup {None}]
        /\ next'[last] = n
        /\ \A l \in List : l # last => next'[l] = next[l]
    BY <2>2 DEF IInv, TypeOK
  <2>4. next[last] = None /\ \A l \in List : next[l] # n
    BY <1>1, <2>1 DEF IInv, OpenLinks, TypeOK
  <2>5. TypeOK'
    BY <1>1, <1>3, <1>4, <2>2, <2>3 DEF IInv, TypeOK
  <2>6. NoGap'
    <3>1. ASSUME NEW l \in Placed' PROVE used'[l] = ListMax <=> l # n
      BY <1>1, <1>3, <1>7, <2>2 DEF Placed, IInv, TypeOK, NoGap
    <3> QED BY <1>5, <2>2, <3>1 DEF NoGap
  <2>7. Links'
    BY <1>1, <2>2, <2>3, <2>4 DEF IInv, TypeOK, Links
  <2>8. OpenLinks'
    <3>1. ASSUME NEW l \in List
          PROVE /\ used'[l] = ListMax => next'[l] # None
                /\ next'[l] # None => used'[l] = ListMax /\ next'[l] \in Placed'
      <4>1. CASE l = last
        BY <4>1, <1>7, <2>2, <2>3 DEF Placed
      <4>2. CASE l # last
        <5>1. used'[l] = used[l] /\ next'[l] = next[l]
          BY <4>2, <1>3, <2>3
        <5>2. Placed \subseteq Placed'
          BY <1>1, <1>3, <2>2 DEF Placed, IInv, TypeOK
        <5> QED BY <5>1, <5>2, <1>1 DEF IInv, OpenLinks
      <4> QED BY <4>1, <4>2
    <3> QED BY <3>1 DEF OpenLinks
  <2>9. Ahead'
    <3>1. ASSUME NEW l \in List, next'[l] # None
          PROVE used'[next'[l]] = ListMax => next'[next'[l]] # None
      BY <2>8, <2>3, <3>1, <1>1 DEF OpenLinks
    <3> QED BY <3>1, <1>1 DEF Ahead
  <2> QED
    BY <1>1, <1>6, <2>5, <2>6, <2>7, <2>8, <2>9 DEF IInv, Walk, InSlot, FirstEmptied
<1>8. CASE used'[last] # ListMax
  <2>1. next' = next /\ last' = last
    BY <1>8 DEF Push
  <2>2. TypeOK'
    BY <1>1, <1>3, <1>4, <2>1 DEF IInv, TypeOK
  <2>3. Placed' = Placed
    BY <1>1, <1>3, <2>1 DEF Placed, IInv, TypeOK
  <2>4. NoGap'
    <3>1. ASSUME NEW l \in Placed PROVE used'[l] = ListMax <=> l # last
      <4>1. l \in List /\ (used[l] = ListMax <=> l # last)
        BY <1>1 DEF IInv, NoGap, Placed, TypeOK
      <4> QED BY <4>1, <1>3, <1>8
    <3> QED BY <1>5, <2>1, <2>3, <3>1 DEF NoGap
  <2>5. OpenLinks' /\ Ahead'
    <3>1. \A l \in List : used'[l] = ListMax => used[l] = ListMax
      BY <1>3, <1>8
    <3>2. \A l \in List : next[l] # None => l # last
      BY <1>1 DEF IInv, OpenLinks
    <3>3. OpenLinks'
      BY <1>1, <1>3, <2>1, <2>3, <3>1, <3>2 DEF IInv, OpenLinks
    <3>4. Ahead'
      BY <1>1, <2>1, <2>2, <3>3 DEF Ahead, OpenLinks, TypeOK
    <3> QED BY <3>3, <3>4
  <2>6. Links'
    BY <1>1, <2>1 DEF IInv, Links
  <2> QED
    BY <1>1, <1>6, <2>2, <2>4, <2>5, <2>6 DEF IInv, Walk, InSlot, FirstEmptied
<1> QED
  BY <1>7, <1>8

\* The first execution starts before a full list that has its link, a later
\* one before an empty slot.
LEMMA StartKeeps == IInv /\ Start => IInv'
<1> SUFFICES ASSUME IInv, Start PROVE IInv'
  OBVIOUS
<1> USE DropListAssumption
<1>1. /\ at' = [list |-> first, slot |-> 1] /\ phase' = "run"
      /\ UNCHANGED <<items, next, used, first, last, pushed, done>>
      /\ phase \in {"open", "rest"}
  BY DEF Start
<1>2. TypeOK'
  BY <1>1 DEF IInv, TypeOK
<1>3. Ahead'
  BY <1>1 DEF IInv, Ahead, Links
<1>4. Walk'
  <2>1. CASE phase = "open"
    BY <1>1, <2>1 DEF IInv, TypeOK, OpenLinks, Walk
  <2>2. CASE phase = "rest"
    BY <1>1, <2>2 DEF IInv, TypeOK, FirstEmptied, Walk, Here
  <2> QED BY <1>1, <2>1, <2>2
<1> QED
  BY <1>1, <1>2, <1>3, <1>4
  DEF IInv, NoGap, Unfilled, Links, OpenLinks, InSlot, FirstEmptied

\* The walk enters the next function and moves on behind it.
LEMMA RunItemKeeps == IInv /\ RunItem => IInv'
<1> SUFFICES ASSUME IInv, RunItem PROVE IInv'
  OBVIOUS
<1>1. /\ UNCHANGED <<items, next, used, first, last, at, pushed>>
      /\ phase = "run" /\ phase' = "user" /\ at.slot \in Slot /\ Here # None
      /\ done' = Append(done, Here)
  BY DEF RunItem
<1>2. Here \in Item /\ Here' = Here
  BY <1>1 DEF IInv, TypeOK, Here
<1>3. TypeOK'
  BY <1>1, <1>2 DEF IInv, TypeOK
<1>4. Walk' /\ InSlot'
  BY <1>1, <1>2 DEF IInv, Walk, InSlot, Slot
<1>5. NoGap' /\ Unfilled' /\ Links' /\ OpenLinks' /\ Ahead' /\ FirstEmptied'
  BY <1>1 DEF IInv, NoGap, Unfilled, Links, OpenLinks, Ahead, FirstEmptied
<1> QED
  BY <1>3, <1>4, <1>5 DEF IInv

\* The slot left behind was filled, so it is not behind the list's count.
LEMMA UserReturnKeeps == IInv /\ UserReturn => IInv'
<1> SUFFICES ASSUME IInv, UserReturn PROVE IInv'
  OBVIOUS
<1> USE DropListAssumption
<1>1. /\ UNCHANGED <<next, used, first, last, pushed, done>>
      /\ phase = "user" /\ phase' = "run"
      /\ items' = [items EXCEPT ![at.list][at.slot] = None]
      /\ at' = [at EXCEPT !.slot = @ + 1]
      /\ at.slot \in Slot /\ at.list \in List /\ Here # None
  BY DEF UserReturn, IInv, InSlot, TypeOK
<1>2. at.slot <= used[at.list]
  BY <1>1 DEF IInv, Unfilled, TypeOK, Slot, Here
<1>3. /\ at' = [list |-> at.list, slot |-> at.slot + 1]
      /\ at'.list = at.list /\ at'.slot = at.slot + 1
  BY <1>1 DEF IInv, TypeOK
<1>4. /\ items' \in [List -> [Slot -> Item \cup {None}]]
      /\ items'[at.list][at.slot] = None
      /\ \A l \in List, s \in Slot : items'[l][s] \in {items[l][s], None}
  BY <1>1 DEF IInv, TypeOK
<1>5. TypeOK'
  <2>1. at' \in [list : List, slot : 1..(ListMax + 1)]
    <3>1. at.slot + 1 \in 1..(ListMax + 1)
      BY <1>1 DEF Slot
    <3>2. at.list \in List
      BY <1>1
    <3> QED BY <3>1, <3>2, <1>3
  <2> QED BY <1>1, <1>4, <2>1 DEF IInv, TypeOK
<1>6. Unfilled'
  BY <1>1, <1>4 DEF IInv, Unfilled
<1>7. Walk'
  BY <1>1, <1>2, <1>3 DEF IInv, Walk, TypeOK, Slot
<1>8. FirstEmptied'
  <2>1. 1 \in Slot
    BY DEF Slot
  <2>2. CASE at = [list |-> first, slot |-> 1]
    BY <1>1, <1>4, <2>2 DEF FirstEmptied
  <2>3. CASE items[first][1] = None
    BY <1>1, <1>4, <2>1, <2>3 DEF FirstEmptied, IInv, TypeOK
  <2> QED BY <1>1, <2>2, <2>3 DEF IInv, FirstEmptied
<1>9. NoGap' /\ Links' /\ OpenLinks' /\ Ahead' /\ InSlot'
  BY <1>1, <1>3 DEF IInv, NoGap, Links, OpenLinks, Ahead, InSlot
<1> QED
  BY <1>5, <1>6, <1>7, <1>8, <1>9 DEF IInv

\* A panic and an empty slot end the walk.
LEMMA EndKeeps == IInv /\ (UserPanic \/ StopAtEmpty) => IInv'
<1> SUFFICES ASSUME IInv, UserPanic \/ StopAtEmpty PROVE IInv'
  OBVIOUS
<1>1. /\ UNCHANGED <<items, next, used, first, last, at, pushed, done>>
      /\ \/ phase = "user" /\ phase' = "broken"
         \/ phase = "run" /\ phase' = "rest" /\ Here = None
  BY DEF UserPanic, StopAtEmpty
<1>2. TypeOK'
  BY <1>1 DEF IInv, TypeOK
<1>3. FirstEmptied'
  BY <1>1 DEF IInv, TypeOK, FirstEmptied, Here
<1> QED
  BY <1>1, <1>2, <1>3
  DEF IInv, NoGap, Unfilled, Links, OpenLinks, Ahead, Walk, InSlot

\* The list the walk goes on to was not left before, so it has its link.
LEMMA FollowNextKeeps == IInv /\ FollowNext => IInv'
<1> SUFFICES ASSUME IInv, FollowNext PROVE IInv'
  OBVIOUS
<1> USE DropListAssumption
<1> DEFINE m == next[at.list]
<1>1. /\ UNCHANGED <<items, used, first, last, phase, pushed, done>>
      /\ phase = "run" /\ at.slot = ListMax + 1 /\ at.list \in List
      /\ m \in List
      /\ at' = [list |-> m, slot |-> 1]
      /\ next' = [next EXCEPT ![at.list] = None]
  BY DEF FollowNext, IInv, TypeOK
<1>2. at # [list |-> first, slot |-> 1]
  BY <1>1
<1>3. /\ m # at.list
      /\ used[m] = ListMax => next[m] # None
      /\ \A l \in List : next[l] # None => next[l] # at.list
  BY <1>1 DEF IInv, Ahead
<1>4. /\ next' \in [List -> List \cup {None}]
      /\ next'[at.list] = None
      /\ \A l \in List : l # at.list => next'[l] = next[l]
  BY <1>1 DEF IInv, TypeOK
<1>5. TypeOK'
  BY <1>1, <1>4 DEF IInv, TypeOK
<1>6. Links'
  BY <1>1, <1>4 DEF IInv, Links
<1>7. Ahead'
  <2>1. ASSUME NEW l \in List, next'[l] # None
        PROVE  /\ used[next'[l]] = ListMax => next'[next'[l]] # None
               /\ next'[l] # m
    <3>1. l # at.list /\ next'[l] = next[l] /\ next[l] # at.list /\ next[l] \in List
      BY <1>3, <1>4, <2>1
    <3>2. next'[next'[l]] = next[next[l]]
      BY <3>1, <1>4
    <3>3. used[next[l]] = ListMax => next[next[l]] # None
      BY <2>1, <3>1 DEF IInv, Ahead
    <3>4. next[l] # m
      BY <1>1, <2>1, <3>1, DropListAssumption DEF IInv, Links
    <3> QED BY <3>1, <3>2, <3>3, <3>4
  <2> QED BY <1>1, <2>1 DEF Ahead
<1>8. Walk'
  <2>1. used[m] = ListMax => next'[m] # None
    BY <1>1, <1>3, <1>4
  <2> QED BY <1>1, <2>1 DEF Walk, IInv, TypeOK
<1>9. FirstEmptied'
  BY <1>1, <1>2 DEF IInv, FirstEmptied
<1> QED
  BY <1>1, <1>5, <1>6, <1>7, <1>8, <1>9
  DEF IInv, NoGap, Unfilled, OpenLinks, InSlot

\* Every step keeps the invariant.
LEMMA Inductive == IInv /\ [Next]_listVars => IInv'
<1> SUFFICES ASSUME IInv, [Next]_listVars PROVE IInv'
  OBVIOUS
<1>1. ASSUME NEW i \in Item, Push(i) PROVE IInv'
  BY <1>1, PushKeeps
<1>2. CASE Start
  BY <1>2, StartKeeps
<1>3. CASE RunItem
  BY <1>3, RunItemKeeps
<1>4. CASE UserReturn
  BY <1>4, UserReturnKeeps
<1>5. CASE UserPanic \/ StopAtEmpty
  BY <1>5, EndKeeps
<1>6. CASE FollowNext
  BY <1>6, FollowNextKeeps
<1>7. CASE UNCHANGED listVars
  BY <1>7 DEF listVars, IInv, TypeOK, NoGap, Unfilled, Links, OpenLinks, Ahead,
     Walk, InSlot, FirstEmptied, Placed, Here
<1> QED
  BY <1>1, <1>2, <1>3, <1>4, <1>5, <1>6, <1>7 DEF Next, Executing

\* The invariant holds always.
LEMMA Invariance == Spec => []IInv
BY InitHolds, Inductive, PTL DEF Spec

-----------------------------------------------------------------------------

\* Every field of the lists keeps its type, and the walk never indexes past
\* the slot behind the last one (droplist.rs:42, :81).
THEOREM TypeCorrect == Spec => []TypeOK
<1>1. IInv => TypeOK
  BY DEF IInv
<1> QED BY <1>1, Invariance, PTL

\* However many functions are registered, the lists stay filled from their
\* first slot on, and only the last one has room (droplist.rs:40-69).
THEOREM GapFree == Spec => []NoGap
<1>1. IInv => NoGap
  BY DEF IInv
<1> QED BY <1>1, Invariance, PTL

\* An execution, first or repeated, never comes to the end of a list that has
\* no successor (droplist.rs:89).
THEOREM EndsSafely == Spec => []EndsAtEmptySlot
<1>1. IInv => EndsAtEmptySlot
  BY DropListAssumption DEF IInv, TypeOK, Walk, EndsAtEmptySlot
<1> QED BY <1>1, Invariance, PTL

-----------------------------------------------------------------------------

(***************************************************************************)
(* The lists implement the queue.  IInv says which lists are full and      *)
(* where links may not lead; that a walk enters the functions in the order *)
(* of registration needs the chain itself, a sequence of lists the program *)
(* does not keep: the item registered as number n lies in the slot with    *)
(* number n, counted through the lists of the chain, until its function    *)
(* returned, and every other slot is empty.                                *)
(***************************************************************************)

\* The number of slot s of the k-th list of the chain.
Number(k, s) == (k - 1) * ListMax + s

\* c is the chain of all lists ever linked; the links of its first w - 1
\* lists were taken away.
Chained(c, w) ==
  /\ c \in Seq(List) /\ IsInjective(c)
  /\ w \in 1..Len(c)
  /\ c[1] = first /\ c[Len(c)] = last
  /\ \A k \in w..(Len(c) - 1) : next[c[k]] = c[k + 1]

\* Slot s of the k-th list holds the item with its number when the functions
\* of the first n items returned.
InOrder(c, n) ==
  \A k \in 1..Len(c), s \in Slot :
    items[c[k]][s] = IF Number(k, s) \in (n + 1)..Len(pushed)
                       THEN pushed[Number(k, s)] ELSE None

\* The last list of the chain is the one with room.
Sized(c) ==
  /\ Len(done) <= Len(pushed)
  /\ Len(pushed) < Number(Len(c), 1) + ListMax - 1

\* Where the walk is in the chain, by phase.
Reached(c, w) ==
  /\ phase = "open" =>
       /\ w = 1 /\ done = <<>> /\ InOrder(c, 0)
       /\ Len(pushed) = Number(Len(c), used[last])
  /\ phase = "run" =>
       /\ InOrder(c, Len(done))
       /\ \/ at.list = c[w] /\ Number(w, at.slot) = Len(done) + 1
          \/ at = [list |-> first, slot |-> 1] /\ Len(done) = Len(pushed)
  /\ phase = "user" =>
       /\ InOrder(c, Len(done) - 1)
       /\ at.list = c[w] /\ Number(w, at.slot) = Len(done)
  /\ phase = "rest" =>
       /\ InOrder(c, Len(done))
       /\ Len(done) = Len(pushed)
  /\ phase = "broken" => done # <<>>

ChainInv == \E c \in Seq(List), w \in Nat : Chained(c, w) /\ Sized(c) /\ Reached(c, w)

-----------------------------------------------------------------------------

\* Slots of a list come before those of a later one.
LEMMA NumberGrows ==
  ASSUME NEW k \in Nat \ {0}, NEW j \in Nat \ {0}, k < j, NEW s \in Slot, NEW t \in Slot
  PROVE  Number(k, s) < Number(j, t)
<1>1. ListMax \in Nat /\ s \in Nat /\ s <= ListMax /\ t \in Nat /\ t >= 1
  BY DropListAssumption DEF Slot
<1>2. j - k - 1 \in Nat
  OBVIOUS
<1>3. (j - k - 1) * ListMax \in Nat
  BY <1>1, <1>2
<1>4. (j - 1) * ListMax = (k - 1) * ListMax + ListMax + (j - k - 1) * ListMax
  BY <1>1
<1>5. (j - 1) * ListMax \in Int /\ (k - 1) * ListMax \in Int
  BY <1>1
<1> QED
  BY <1>1, <1>3, <1>4, <1>5 DEF Number

\* Different slots of the chain have different numbers.
LEMMA NumberUnique ==
  ASSUME NEW k \in Nat \ {0}, NEW j \in Nat \ {0}, NEW s \in Slot, NEW t \in Slot,
         Number(k, s) = Number(j, t)
  PROVE  k = j /\ s = t
<1>1. Number(k, s) \in Int /\ Number(j, t) \in Int
  BY DropListAssumption DEF Number, Slot
<1>2. k = j
  BY <1>1, NumberGrows
<1>3. (k - 1) * ListMax \in Int /\ s \in Int /\ t \in Int
  BY DropListAssumption DEF Slot
<1> QED
  BY <1>2, <1>3 DEF Number

\* Numbers count on from slot to slot.
LEMMA NumberNext ==
  ASSUME NEW k \in Nat \ {0}, NEW s \in Int
  PROVE  Number(k, s) \in Int /\ Number(k, s + 1) = Number(k, s) + 1
<1>1. (k - 1) * ListMax \in Int
  BY DropListAssumption
<1> QED
  BY <1>1 DEF Number

\* The number behind the last slot of a list is that of the next list's first.
LEMMA NumberTurns ==
  ASSUME NEW k \in Nat \ {0}
  PROVE  Number(k, ListMax) = Number(k + 1, 0)
<1>1. (k - 1) * ListMax + ListMax = ((k + 1) - 1) * ListMax + 0
  BY DropListAssumption
<1> QED
  BY <1>1 DEF Number

-----------------------------------------------------------------------------

\* A new arena: one list, nothing registered.
LEMMA InitChained == Init => ChainInv
<1> SUFFICES ASSUME Init PROVE ChainInv
  OBVIOUS
<1>1. /\ first \in List /\ last = first /\ pushed = <<>> /\ done = <<>>
      /\ phase = "open" /\ used[last] = 0
      /\ \A l \in List, s \in Slot : items[l][s] = None
  BY DEF Init, EmptySlots
<1> DEFINE c == <<first>>
<1>2. c \in Seq(List) /\ Len(c) = 1 /\ c[1] = first /\ IsInjective(c)
  BY <1>1 DEF IsInjective
<1>3. Chained(c, 1)
  BY <1>1, <1>2 DEF Chained
<1>4. Sized(c) /\ Reached(c, 1)
  BY <1>1, <1>2, DropListAssumption DEF Sized, Reached, Number, InOrder
<1> QED
  BY <1>2, <1>3, <1>4 DEF ChainInv

\* What the chain is, with its lists' places spelled out.
LEMMA ChainFacts ==
  ASSUME NEW c \in Seq(List), NEW w \in Nat, Chained(c, w)
  PROVE  /\ Len(c) \in Nat \ {0} /\ w \in 1..Len(c)
         /\ \A k \in 1..Len(c) : k \in Nat \ {0} /\ c[k] \in List
         /\ \A j, k \in 1..Len(c) : c[j] = c[k] => j = k
         /\ c[1] = first /\ c[Len(c)] = last
         /\ \A k \in w..(Len(c) - 1) : next[c[k]] = c[k + 1]
<1>1. Len(c) \in Nat /\ w \in 1..Len(c) /\ DOMAIN c = 1..Len(c)
  BY DEF Chained
<1>2. \A j, k \in 1..Len(c) : c[j] = c[k] => j = k
  BY <1>1 DEF Chained, IsInjective
<1> QED
  BY <1>1, <1>2 DEF Chained

\* While open, every list of the chain is in use.
LEMMA ChainPlaced ==
  ASSUME IInv, phase = "open", NEW c \in Seq(List), Chained(c, 1)
  PROVE  \A k \in 1..Len(c) : c[k] \in Placed
<1>1. ASSUME NEW k \in 1..Len(c) PROVE c[k] \in Placed
  <2>1. CASE k = Len(c)
    BY <2>1, ChainFacts DEF Placed
  <2>2. CASE k # Len(c)
    <3>1. k \in 1..(Len(c) - 1) /\ k + 1 \in 1..Len(c) /\ c[k] \in List
      BY <1>1, <2>2, ChainFacts
    <3>2. next[c[k]] = c[k + 1] /\ c[k + 1] \in List
      BY <3>1, ChainFacts
    <3>3. used[c[k]] = ListMax
      BY <3>1, <3>2, DropListAssumption DEF IInv, OpenLinks
    <3> QED BY <3>1, <3>3, DropListAssumption DEF Placed
  <2> QED BY <2>1, <2>2
<1> QED BY <1>1

\* Registering: the slot written is the one with the next number, and a new
\* list is behind all others.
LEMMA PushChained ==
  ASSUME IInv, ChainInv, NEW i \in Item, Push(i)
  PROVE  ChainInv'
<1> USE DropListAssumption
<1>1. PICK c \in Seq(List), w \in Nat : Chained(c, w) /\ Sized(c) /\ Reached(c, w)
  BY DEF ChainInv
<1>2. /\ phase = "open" /\ phase' = "open"
      /\ UNCHANGED <<first, done>>
      /\ pushed' = Append(pushed, i) /\ pushed \in Seq(Item)
      /\ items' = [items EXCEPT ![last][used[last] + 1] = i]
      /\ used' = [used EXCEPT ![last] = @ + 1]
      /\ items \in [List -> [Slot -> Item \cup {None}]]
      /\ used \in [List -> 0..ListMax] /\ last \in List
      /\ next \in [List -> List \cup {None}]
  BY DEF Push, WriteItem, IInv, TypeOK
<1>3. /\ w = 1 /\ done = <<>> /\ InOrder(c, 0)
      /\ Len(pushed) = Number(Len(c), used[last])
  BY <1>1, <1>2 DEF Reached
<1> DEFINE L == Len(c)
           n == Len(pushed)
           u == used[last] + 1
<1>4. /\ L \in Nat \ {0} /\ c[1] = first /\ c[L] = last
      /\ \A k \in 1..L : k \in Nat \ {0} /\ c[k] \in List
      /\ \A j, k \in 1..L : c[j] = c[k] => j = k
      /\ \A k \in 1..(L - 1) : next[c[k]] = c[k + 1]
  BY <1>1, <1>3, ChainFacts
<1>5. u \in Slot /\ n \in Nat /\ used[last] \in Nat
  <2>1. used[last] < ListMax
    BY <1>2 DEF IInv, NoGap, Placed
  <2> QED BY <1>2, <2>1 DEF Slot
<1>6. n + 1 = Number(L, u)
  <2>1. L \in Nat \ {0} /\ used[last] \in Int
    BY <1>4, <1>5
  <2>2. Number(L, used[last] + 1) = Number(L, used[last]) + 1
    BY ONLY <2>1, NumberNext
  <2> QED BY <1>3, <2>2
<1>7. /\ Len(pushed') = n + 1 /\ pushed'[n + 1] = i
      /\ \A p \in 1..n : pushed'[p] = pushed[p]
  BY <1>2
<1>8. /\ items'[last][u] = i
      /\ \A l \in List, s \in Slot : l # last \/ s # u => items'[l][s] = items[l][s]
      /\ used'[last] = u
      /\ \A l \in List : l # last => used'[l] = used[l]
  BY <1>2, <1>5
<1> DEFINE Held(p) == IF p \in 1..(n + 1) THEN pushed'[p] ELSE None
<1> HIDE DEF L, n, u, Held
<1>9. ASSUME NEW k \in 1..L, NEW s \in Slot
      PROVE  items'[c[k]][s] = Held(Number(k, s))
  <2>1. k \in Nat \ {0} /\ c[k] \in List /\ s \in Int
    BY <1>4, <1>9 DEF Slot
  <2>2. Number(k, s) \in Int
    BY <2>1, NumberNext
  <2>3. items[c[k]][s] = IF Number(k, s) \in 1..n THEN pushed[Number(k, s)] ELSE None
    BY <1>3, <1>9 DEF InOrder, L, n
  <2>4. CASE Number(k, s) = n + 1
    <3>1. k = L /\ s = u
      BY <1>4, <1>5, <1>6, <1>9, <2>1, <2>4, NumberUnique
    <3>2. items'[c[k]][s] = i
      BY <1>4, <1>8, <3>1
    <3>3. Held(n + 1) = i
      BY <1>5, <1>7 DEF Held
    <3> QED BY <2>4, <3>2, <3>3
  <2>5. CASE Number(k, s) # n + 1
    <3>1. c[k] # last \/ s # u
      BY <1>4, <1>6, <1>9, <2>5
    <3>2. items'[c[k]][s] = items[c[k]][s]
      BY <1>8, <2>1, <3>1
    <3>3. Number(k, s) \in 1..(n + 1) <=> Number(k, s) \in 1..n
      BY <1>5, <2>2, <2>5
    <3>4. Number(k, s) \in 1..n => pushed'[Number(k, s)] = pushed[Number(k, s)]
      BY <1>7
    <3> QED BY <2>3, <3>2, <3>3, <3>4 DEF Held
  <2> QED BY <2>4, <2>5
<1>10. CASE used'[last] = ListMax
  <2>1. PICK m \in List \ Placed : LinkNext(m)
    BY <1>10 DEF Push
  <2>2. /\ next' = [next EXCEPT ![last] = m] /\ last' = m
        /\ m # last /\ used[m] = 0
    BY <1>2, <2>1 DEF LinkNext, Placed
  <2> DEFINE d == Append(c, m)
  <2>3. /\ d \in Seq(List) /\ Len(d) = L + 1 /\ d[L + 1] = m
        /\ \A k \in 1..L : d[k] = c[k]
    BY <1>1, <2>1 DEF L
  <2>4. \A k \in 1..L : c[k] # m
    BY <1>1, <1>2, <1>3, <2>1, ChainPlaced DEF L
  <2> HIDE DEF d
  <2>5. IsInjective(d)
    <3>1. DOMAIN d = 1..(L + 1)
      BY <2>3
    <3> QED BY <1>4, <2>3, <2>4, <3>1 DEF IsInjective
  <2>6. \A k \in 1..L : next'[d[k]] = d[k + 1]
    <3>1. ASSUME NEW k \in 1..L PROVE next'[d[k]] = d[k + 1]
      <4>1. CASE k = L
        BY <1>2, <1>4, <2>2, <2>3, <4>1
      <4>2. CASE k # L
        <5>1. k \in 1..(L - 1) /\ k + 1 \in 1..L /\ L \in 1..L
          BY <1>4, <3>1, <4>2
        <5>2. c[k] # last /\ c[k] \in List
          BY <1>4, <3>1, <4>2, <5>1
        <5>3. next'[c[k]] = next[c[k]]
          BY <1>2, <2>2, <5>2
        <5> QED BY <1>4, <2>3, <3>1, <5>1, <5>3
      <4> QED BY <4>1, <4>2
    <3> QED BY <3>1
  <2>7. Chained(d, 1)'
    <3>1. d[1] = first' /\ d[L + 1] = last'
      BY <1>2, <1>4, <2>2, <2>3
    <3> QED BY <1>4, <2>3, <2>5, <2>6, <3>1 DEF Chained
  <2>8. u = ListMax /\ used'[last'] = 0
    BY <1>8, <1>10, <2>1, <2>2
  <2>9. Len(pushed') = Number(L + 1, 0)
    <3>1. Number(L, ListMax) = Number(L + 1, 0)
      BY <1>4, NumberTurns
    <3> QED BY <1>6, <1>7, <2>8, <3>1
  <2>10. InOrder(d, 0)'
    <3>1. ASSUME NEW k \in 1..(L + 1), NEW s \in Slot
          PROVE  items'[d[k]][s] = Held(Number(k, s))
      <4>1. CASE k \in 1..L
        BY <1>9, <2>3, <4>1
      <4>2. CASE k = L + 1
        <5>1. items'[m][s] = None
          BY <1>8, <2>1, <2>2 DEF IInv, Unfilled, Slot
        <5>2. Number(L, ListMax) < Number(k, s)
          BY <1>4, <4>2, NumberGrows DEF Slot
        <5>3. Number(k, s) \in Int
          <6>1. k \in Nat \ {0} /\ s \in Int
            BY <4>2, <1>4 DEF Slot
          <6> QED BY <6>1, NumberNext
        <5>4. Number(k, s) \notin 1..(n + 1)
          BY <1>5, <1>6, <2>8, <5>2, <5>3
        <5> QED BY <2>3, <4>2, <5>1, <5>4 DEF Held
      <4> QED BY <1>4, <3>1, <4>1, <4>2
    <3> QED BY <1>7, <2>3, <3>1 DEF InOrder, Held, Number
  <2>11. Sized(d)' /\ Reached(d, 1)'
    <3>1. Number(L + 1, 1) = Number(L + 1, 0) + 1 /\ Number(L + 1, 0) \in Int
      <4>1. L + 1 \in Nat \ {0}
        BY <1>4
      <4>2. ((L + 1) - 1) * ListMax \in Int
        BY <4>1
      <4> QED BY <4>2 DEF Number
    <3>2. Sized(d)'
      BY <1>2, <1>3, <1>5, <1>7, <2>3, <2>9, <3>1 DEF Sized, Number
    <3>3. Reached(d, 1)'
      BY <1>2, <1>3, <2>3, <2>8, <2>9, <2>10 DEF Reached, Number
    <3> QED BY <3>2, <3>3
  <2> QED
    BY <2>3, <2>7, <2>11 DEF ChainInv
<1>11. CASE used'[last] # ListMax
  <2>1. next' = next /\ last' = last
    BY <1>11 DEF Push
  <2>2. Chained(c, 1)'
    BY <1>1, <1>2, <1>3, <2>1 DEF Chained
  <2>3. Sized(c)'
    <3>1. u < ListMax
      BY <1>5, <1>8, <1>11 DEF Slot
    <3>2. /\ Number(L, u) = Number(L, 0) + u
          /\ Number(L, 1) = Number(L, 0) + 1 /\ Number(L, 0) \in Int
      BY <1>4, <1>5 DEF Number, Slot
    <3>3. Len(pushed') < Number(L, 1) + ListMax - 1
      BY <1>5, <1>6, <1>7, <3>1, <3>2 DEF Slot
    <3> QED BY <1>2, <1>3, <1>5, <1>7, <3>3 DEF Sized, Number, L
  <2>4. InOrder(c, 0)'
    BY <1>7, <1>9 DEF InOrder, Held, Number, L
  <2>5. Reached(c, 1)'
    BY <1>2, <1>3, <1>6, <1>7, <1>8, <2>1, <2>4 DEF Reached, Number, L
  <2> QED
    BY <1>1, <2>2, <2>3, <2>5 DEF ChainInv
<1> QED
  BY <1>10, <1>11

\* An execution starts at the slot with number 1: in an arena just dropped it
\* holds the first item, when the chain is executed again nothing.
LEMMA StartChained == ChainInv /\ Start => ChainInv'
<1> SUFFICES ASSUME ChainInv, Start PROVE ChainInv'
  OBVIOUS
<1>1. PICK c \in Seq(List), w \in Nat : Chained(c, w) /\ Sized(c) /\ Reached(c, w)
  BY DEF ChainInv
<1>2. /\ at' = [list |-> first, slot |-> 1] /\ phase' = "run"
      /\ UNCHANGED <<items, next, used, first, last, pushed, done>>
      /\ phase \in {"open", "rest"}
  BY DEF Start
<1>3. Chained(c, w)' /\ Sized(c)'
  BY <1>1, <1>2 DEF Chained, Sized, Number
<1>4. Reached(c, w)'
  <2>1. CASE phase = "open"
    <3>1. w = 1 /\ done = <<>> /\ InOrder(c, 0) /\ c[w] = first
      BY <1>1, <2>1 DEF Reached, Chained
    <3>2. Number(1, 1) = 1
      BY DropListAssumption DEF Number
    <3>3. Len(done) = 0 /\ at'.list = first /\ at'.slot = 1
      BY <1>2, <3>1
    <3>4. InOrder(c, Len(done))'
      BY <1>2, <3>1, <3>3 DEF InOrder, Number
    <3> QED BY <1>2, <3>1, <3>2, <3>3, <3>4 DEF Reached, Number
  <2>2. CASE phase = "rest"
    <3>1. InOrder(c, Len(done)) /\ Len(done) = Len(pushed)
      BY <1>1, <2>2 DEF Reached
    <3>2. InOrder(c, Len(done))'
      BY <1>2, <3>1 DEF InOrder, Number
    <3> QED BY <1>2, <3>1, <3>2 DEF Reached
  <2> QED BY <1>2, <2>1, <2>2
<1> QED
  BY <1>1, <1>3, <1>4 DEF ChainInv

\* While the walk is in the chain's w-th list, the slot it is at holds the
\* next item that was registered, or nothing when all have run.
LEMMA WalkReads ==
  ASSUME TypeOK, NEW c \in Seq(List), NEW w \in Nat, Chained(c, w), Sized(c),
         Reached(c, w), phase = "run", at.slot \in Slot
  PROVE  /\ Here = None <=> Len(done) = Len(pushed)
         /\ Here # None =>
              /\ at.list = c[w] /\ Number(w, at.slot) = Len(done) + 1
              /\ Len(done) < Len(pushed)
              /\ Here = pushed[Len(done) + 1]
<1> DEFINE d == Len(done)
           n == Len(pushed)
<1>1. /\ InOrder(c, d)
      /\ \/ at.list = c[w] /\ Number(w, at.slot) = d + 1
         \/ at = [list |-> first, slot |-> 1] /\ d = n
  BY DEF Reached
<1>2. d \in Nat /\ n \in Nat /\ d <= n /\ pushed \in Seq(Item)
  BY DEF TypeOK, Sized
<1>3. 1 \in 1..Len(c) /\ w \in 1..Len(c) /\ c[1] = first /\ 1 \in Slot
  BY ChainFacts, DropListAssumption DEF Slot
<1> HIDE DEF d, n
<1>4. CASE at.list = c[w] /\ Number(w, at.slot) = d + 1
  <2>1. Here = IF d + 1 \in (d + 1)..n THEN pushed[d + 1] ELSE None
    BY <1>1, <1>3, <1>4 DEF InOrder, Here, n
  <2>2. d < n => pushed[d + 1] \in Item
    BY <1>2 DEF n
  <2> QED BY <1>2, <1>4, <2>1, <2>2, DropListAssumption DEF d, n
<1>5. CASE at = [list |-> first, slot |-> 1] /\ d = n
  <2>1. Number(1, 1) \notin (d + 1)..n
    BY <1>2, <1>5
  <2>2. items[c[1]][1] = None
    BY <1>1, <1>3, <2>1 DEF InOrder, n
  <2>3. Here = None
    BY <1>3, <1>5, <2>2 DEF Here
  <2> QED BY <1>5, <2>3 DEF d, n
<1> QED
  BY <1>1, <1>4, <1>5

\* The function entered is that of the next item.
LEMMA RunItemChained == TypeOK /\ ChainInv /\ RunItem => ChainInv'
<1> SUFFICES ASSUME TypeOK, ChainInv, RunItem PROVE ChainInv'
  OBVIOUS
<1>1. PICK c \in Seq(List), w \in Nat : Chained(c, w) /\ Sized(c) /\ Reached(c, w)
  BY DEF ChainInv
<1>2. /\ UNCHANGED <<items, next, used, first, last, at, pushed>>
      /\ phase = "run" /\ phase' = "user" /\ at.slot \in Slot /\ Here # None
      /\ done' = Append(done, Here)
  BY DEF RunItem
<1>3. /\ at.list = c[w] /\ Number(w, at.slot) = Len(done) + 1
      /\ Len(done) < Len(pushed)
  BY <1>1, <1>2, WalkReads
<1>4. Len(done) \in Nat /\ Len(pushed) \in Nat /\ Len(done') = Len(done) + 1
  BY <1>2 DEF TypeOK, Here
<1>5. Chained(c, w)' /\ Sized(c)'
  BY <1>1, <1>2, <1>3, <1>4 DEF Chained, Sized, Number
<1>6. InOrder(c, Len(done) - 1)'
  <2>1. InOrder(c, Len(done))
    BY <1>1, <1>2 DEF Reached
  <2>2. Len(done') - 1 = Len(done)
    BY <1>4
  <2> QED BY <1>2, <2>1, <2>2 DEF InOrder, Number
<1>7. Reached(c, w)'
  BY <1>2, <1>3, <1>4, <1>6 DEF Reached, Number
<1> QED
  BY <1>1, <1>5, <1>7 DEF ChainInv

\* The slot emptied is the one with the number of the item that ran, and no
\* other slot has that number.
LEMMA UserReturnChained == TypeOK /\ InSlot /\ ChainInv /\ UserReturn => ChainInv'
<1> SUFFICES ASSUME TypeOK, InSlot, ChainInv, UserReturn PROVE ChainInv'
  OBVIOUS
<1>1. PICK c \in Seq(List), w \in Nat : Chained(c, w) /\ Sized(c) /\ Reached(c, w)
  BY DEF ChainInv
<1>2. /\ UNCHANGED <<next, used, first, last, pushed, done>>
      /\ phase = "user" /\ phase' = "run"
      /\ items' = [items EXCEPT ![at.list][at.slot] = None]
      /\ items \in [List -> [Slot -> Item \cup {None}]]
      /\ at \in [list : List, slot : 1..(ListMax + 1)]
      /\ at' = [at EXCEPT !.slot = @ + 1]
      /\ at.slot \in Slot /\ at.list \in List
  BY DEF UserReturn, InSlot, TypeOK
<1> DEFINE d == Len(done)
           n == Len(pushed)
<1>3. /\ InOrder(c, d - 1)
      /\ at.list = c[w] /\ Number(w, at.slot) = d
  BY <1>1, <1>2 DEF Reached
<1>4. /\ w \in 1..Len(c) /\ w \in Nat \ {0}
      /\ \A k \in 1..Len(c) : k \in Nat \ {0} /\ c[k] \in List
      /\ \A j, k \in 1..Len(c) : c[j] = c[k] => j = k
  BY <1>1, ChainFacts
<1>5. d \in Nat /\ n \in Nat /\ d <= n
  BY <1>1 DEF TypeOK, Sized
<1>6. /\ items'[at.list][at.slot] = None
      /\ \A l \in List, s \in Slot :
           l # at.list \/ s # at.slot => items'[l][s] = items[l][s]
  BY <1>2
<1> HIDE DEF d, n
<1>7. ASSUME NEW k \in 1..Len(c), NEW s \in Slot
      PROVE  items'[c[k]][s] = IF Number(k, s) \in (d + 1)..n
                                 THEN pushed[Number(k, s)] ELSE None
  <2>1. k \in Nat \ {0} /\ c[k] \in List /\ s \in Int
    BY <1>4, <1>7 DEF Slot
  <2>2. Number(k, s) \in Int
    BY <2>1, NumberNext
  <2>3. items[c[k]][s] = IF Number(k, s) \in ((d - 1) + 1)..n
                           THEN pushed[Number(k, s)] ELSE None
    BY <1>3, <1>7 DEF InOrder, n
  <2>4. CASE Number(k, s) = d
    <3>1. k = w /\ s = at.slot
      BY <1>2, <1>3, <1>4, <1>7, <2>1, <2>4, NumberUnique
    <3>2. items'[c[k]][s] = None
      BY <1>3, <1>6, <3>1
    <3>3. d \notin (d + 1)..n
      BY <1>5
    <3> QED BY <2>4, <3>2, <3>3
  <2>5. CASE Number(k, s) # d
    <3>1. c[k] # at.list \/ s # at.slot
      BY <1>3, <1>4, <1>7, <2>5
    <3>2. items'[c[k]][s] = items[c[k]][s]
      BY <1>6, <2>1, <3>1, <1>7
    <3>3. Number(k, s) \in ((d - 1) + 1)..n <=> Number(k, s) \in (d + 1)..n
      BY <1>5, <2>2, <2>5
    <3> QED BY <2>3, <3>2, <3>3
  <2> QED BY <2>4, <2>5
<1>8. InOrder(c, Len(done))'
  BY <1>2, <1>7 DEF InOrder, Number, d, n
<1>9. at'.list = c[w] /\ Number(w, at'.slot) = Len(done') + 1
  <2>1. at'.list = at.list /\ at'.slot = at.slot + 1 /\ at.slot \in Int
    BY <1>2 DEF Slot
  <2>2. Number(w, at.slot + 1) = Number(w, at.slot) + 1
    BY <1>4, <2>1, NumberNext
  <2> QED BY <1>2, <1>3, <2>1, <2>2 DEF d
<1>10. Chained(c, w)' /\ Sized(c)' /\ Reached(c, w)'
  BY <1>1, <1>2, <1>8, <1>9 DEF Chained, Sized, Reached, Number
<1> QED
  BY <1>1, <1>10 DEF ChainInv

\* A panic leaves a function that was entered; an empty slot is met when all
\* have run.
LEMMA EndChained == TypeOK /\ InSlot /\ ChainInv /\ (UserPanic \/ StopAtEmpty) => ChainInv'
<1> SUFFICES ASSUME TypeOK, InSlot, ChainInv, UserPanic \/ StopAtEmpty PROVE ChainInv'
  OBVIOUS
<1>1. PICK c \in Seq(List), w \in Nat : Chained(c, w) /\ Sized(c) /\ Reached(c, w)
  BY DEF ChainInv
<1>2. UNCHANGED <<items, next, used, first, last, at, pushed, done>>
  BY DEF UserPanic, StopAtEmpty
<1>3. Chained(c, w)' /\ Sized(c)'
  BY <1>1, <1>2 DEF Chained, Sized, Number
<1>4. CASE UserPanic
  <2>1. phase = "user" /\ phase' = "broken"
    BY <1>4 DEF UserPanic
  <2>2. Number(w, at.slot) = Len(done)
    BY <1>1, <2>1 DEF Reached
  <2>3. Number(w, at.slot) > 0
    <3>1. (w - 1) * ListMax \in Nat
      <4>1. w - 1 \in Nat
        BY <1>1, ChainFacts
      <4> QED BY <4>1, DropListAssumption
    <3>2. at.slot \in Nat /\ at.slot > 0
      BY <2>1 DEF InSlot, Slot
    <3> QED BY <3>1, <3>2 DEF Number
  <2>4. done # <<>>
    BY <2>2, <2>3
  <2>5. Reached(c, w)'
    BY <1>2, <2>1, <2>4 DEF Reached
  <2> QED BY <1>1, <1>3, <2>5 DEF ChainInv
<1>5. CASE StopAtEmpty
  <2>1. phase = "run" /\ phase' = "rest" /\ at.slot \in Slot /\ Here = None
    BY <1>5 DEF StopAtEmpty
  <2>2. Len(done) = Len(pushed)
    BY <1>1, <2>1, WalkReads
  <2>3. InOrder(c, Len(done))'
    BY <1>1, <1>2, <2>1 DEF Reached, InOrder, Number
  <2>4. Reached(c, w)'
    BY <1>2, <2>1, <2>2, <2>3 DEF Reached
  <2> QED BY <1>1, <1>3, <2>4 DEF ChainInv
<1> QED
  BY <1>4, <1>5

\* A list is left for its successor in the chain: it is not the last, since
\* the last one has room.
LEMMA FollowNextChained == TypeOK /\ ChainInv /\ FollowNext => ChainInv'
<1> SUFFICES ASSUME TypeOK, ChainInv, FollowNext PROVE ChainInv'
  OBVIOUS
<1> USE DropListAssumption
<1>1. PICK c \in Seq(List), w \in Nat : Chained(c, w) /\ Sized(c) /\ Reached(c, w)
  BY DEF ChainInv
<1>2. /\ UNCHANGED <<items, used, first, last, phase, pushed, done>>
      /\ phase = "run" /\ at.slot = ListMax + 1
      /\ at' = [list |-> next[at.list], slot |-> 1]
      /\ next' = [next EXCEPT ![at.list] = None]
      /\ next \in [List -> List \cup {None}] /\ at.list \in List
  BY DEF FollowNext, TypeOK
<1>3. /\ at.list = c[w] /\ Number(w, ListMax + 1) = Len(done) + 1
      /\ InOrder(c, Len(done))
  <2>1. at # [list |-> first, slot |-> 1]
    BY <1>2
  <2> QED BY <1>1, <1>2, <2>1 DEF Reached
<1>4. /\ Len(c) \in Nat \ {0} /\ w \in 1..Len(c)
      /\ \A k \in 1..Len(c) : k \in Nat \ {0} /\ c[k] \in List
      /\ \A j, k \in 1..Len(c) : c[j] = c[k] => j = k
      /\ \A k \in w..(Len(c) - 1) : next[c[k]] = c[k + 1]
  BY <1>1, ChainFacts
<1>5. /\ Number(w, ListMax + 1) = Number(w, ListMax) + 1
      /\ Number(w, ListMax) = Number(w + 1, 0)
      /\ Number(w + 1, 0) \in Int
      /\ Number(w + 1, 1) = Number(w + 1, 0) + 1
  <2>1. w \in Nat \ {0} /\ ListMax \in Int /\ w + 1 \in Nat \ {0}
    BY <1>4
  <2>2. Number(w, ListMax + 1) = Number(w, ListMax) + 1
    BY <2>1, NumberNext
  <2>3. Number(w, ListMax) = Number(w + 1, 0)
    BY <2>1, NumberTurns
  <2>4. ((w + 1) - 1) * ListMax \in Int
    BY <2>1
  <2> QED BY <2>2, <2>3, <2>4 DEF Number
<1>6. Number(w + 1, 0) = Len(done) /\ Len(done) \in Nat
  BY <1>3, <1>5 DEF TypeOK
<1>7. w < Len(c)
  <2>1. /\ Len(done) <= Len(pushed)
        /\ Len(pushed) < Number(Len(c), 1) + ListMax - 1
        /\ Len(pushed) \in Nat
    BY <1>1 DEF Sized, TypeOK
  <2>2. CASE w = Len(c)
    <3>1. (w - 1) * ListMax \in Int
      BY <1>4
    <3>2. Number(w, 1) + ListMax - 1 = Number(w, ListMax)
      BY <3>1 DEF Number
    <3> QED BY <1>5, <1>6, <2>1, <2>2, <3>2
  <2> QED BY <1>4, <2>2
<1>8. w + 1 \in 1..Len(c) /\ next[c[w]] = c[w + 1] /\ w + 1 \in Nat
  BY <1>4, <1>7
<1>9. Chained(c, w + 1)'
  <2>1. ASSUME NEW k \in (w + 1)..(Len(c) - 1) PROVE next'[c[k]] = c[k + 1]
    <3>1. k \in 1..Len(c) /\ k # w /\ k \in w..(Len(c) - 1)
      BY <1>4, <2>1
    <3>2. c[k] # at.list /\ c[k] \in List
      BY <1>3, <1>4, <3>1
    <3>3. next'[c[k]] = next[c[k]]
      BY <1>2, <3>2
    <3> QED BY <1>4, <3>1, <3>3
  <2>2. c \in Seq(List) /\ IsInjective(c) /\ c[1] = first' /\ c[Len(c)] = last'
    BY <1>1, <1>2 DEF Chained
  <2> QED BY <1>8, <2>1, <2>2 DEF Chained
<1>10. Sized(c)'
  BY <1>1, <1>2 DEF Sized, Number
<1>11. Reached(c, w + 1)'
  <2>1. at'.list = c[w + 1] /\ at'.slot = 1
    BY <1>2, <1>3, <1>8
  <2>2. Number(w + 1, at'.slot) = Len(done') + 1
    BY <1>2, <1>5, <1>6, <2>1
  <2>3. InOrder(c, Len(done))'
    BY <1>2, <1>3 DEF InOrder, Number
  <2> QED BY <1>2, <2>1, <2>2, <2>3 DEF Reached, Number
<1> QED
  BY <1>8, <1>9, <1>10, <1>11 DEF ChainInv

\* Every step keeps the chain.
LEMMA ChainInductive == IInv /\ ChainInv /\ [Next]_listVars => ChainInv'
<1> SUFFICES ASSUME IInv, ChainInv, [Next]_listVars PROVE ChainInv'
  OBVIOUS
<1>1. TypeOK /\ InSlot
  BY DEF IInv
<1>2. ASSUME NEW i \in Item, Push(i) PROVE ChainInv'
  BY <1>2, PushChained
<1>3. CASE Start
  BY <1>3, StartChained
<1>4. CASE RunItem
  BY <1>1, <1>4, RunItemChained
<1>5. CASE UserReturn
  BY <1>1, <1>5, UserReturnChained
<1>6. CASE UserPanic \/ StopAtEmpty
  BY <1>1, <1>6, EndChained
<1>7. CASE FollowNext
  BY <1>1, <1>7, FollowNextChained
<1>8. CASE UNCHANGED listVars
  <2>1. PICK c \in Seq(List), w \in Nat : Chained(c, w) /\ Sized(c) /\ Reached(c, w)
    BY DEF ChainInv
  <2>2. Chained(c, w)' /\ Sized(c)' /\ Reached(c, w)'
    BY <1>8, <2>1 DEF listVars, Chained, Sized, Reached, InOrder, Number
  <2> QED BY <2>1, <2>2 DEF ChainInv
<1> QED
  BY <1>2, <1>3, <1>4, <1>5, <1>6, <1>7, <1>8 DEF Next, Executing

-----------------------------------------------------------------------------

\* What is left of a sequence behind its first d elements.
LEMMA Behind ==
  ASSUME NEW s \in Seq(Item), NEW d \in Nat
  PROVE  /\ d = 0 => SubSeq(s, d + 1, Len(s)) = s
         /\ d = Len(s) => SubSeq(s, d + 1, Len(s)) = <<>>
         /\ d < Len(s) =>
              /\ SubSeq(s, d + 1, Len(s)) # <<>>
              /\ Head(SubSeq(s, d + 1, Len(s))) = s[d + 1]
              /\ Tail(SubSeq(s, d + 1, Len(s))) = SubSeq(s, (d + 1) + 1, Len(s))
<1> DEFINE n == Len(s)
           q == SubSeq(s, d + 1, n)
           r == SubSeq(s, (d + 1) + 1, n)
<1>1. n \in Nat
  OBVIOUS
<1>2. CASE d = n
  BY <1>2, <1>1
<1>3. CASE d < n
  <2>1. \A i \in (d + 1)..n : s[i] \in Item
    BY <1>1
  <2>2. /\ q \in Seq(Item) /\ Len(q) = n - d
        /\ \A i \in 1..(n - d) : q[i] = s[d + i]
    BY <1>1, <1>3, <2>1
  <2>3. /\ r \in Seq(Item) /\ Len(r) = n - d - 1
        /\ \A i \in 1..(n - d - 1) : r[i] = s[d + 1 + i]
    BY <1>1, <1>3, <2>1
  <2> HIDE DEF q, r, n
  <2>4. q # <<>> /\ Head(q) = s[d + 1]
    BY <1>1, <1>3, <2>2
  <2>5. /\ Tail(q) \in Seq(Item) /\ Len(Tail(q)) = n - d - 1
        /\ \A i \in 1..(n - d - 1) : Tail(q)[i] = q[i + 1]
    BY <1>1, <1>3, <2>2, <2>4
  <2>6. Tail(q) = r
    BY <1>1, <1>3, <2>2, <2>3, <2>5, SeqEqual
  <2> QED BY <1>3, <2>4, <2>6 DEF q, r, n
<1>4. d = 0 => SubSeq(s, d + 1, Len(s)) = s
  OBVIOUS
<1> QED
  BY <1>1, <1>2, <1>3, <1>4

\* What is still to run, and the abstract execution's mode.
pending == SubSeq(pushed, Len(done) + 1, Len(pushed))
mode == IF phase = "user" THEN "run" ELSE phase

\* Every step of the lists is a step of the queue or leaves it unchanged.
LEMMA StepRefines ==
  ASSUME IInv, ChainInv, [Next]_listVars
  PROVE  [Queue!Next]_(Queue!queueVars)
<1>1. PICK c \in Seq(List), w \in Nat : Chained(c, w) /\ Sized(c) /\ Reached(c, w)
  BY DEF ChainInv
<1>2. /\ TypeOK /\ InSlot
      /\ Len(done) \in Nat /\ Len(pushed) \in Nat /\ Len(done) <= Len(pushed)
      /\ pushed \in Seq(Item)
  BY <1>1 DEF IInv, TypeOK, Sized
<1> USE DEF Queue!queueVars
<1>3. ASSUME NEW i \in Item, Push(i) PROVE Queue!Push(i)
  <2>1. /\ phase = "open" /\ phase' = "open" /\ UNCHANGED done
        /\ pushed' = Append(pushed, i) /\ pushed' \in Seq(Item)
    BY <1>2, <1>3 DEF Push
  <2>2. Len(done) = 0
    BY <1>1, <2>1 DEF Reached
  <2>3. pending = pushed /\ pending' = pushed'
    BY <1>2, <2>1, <2>2, Behind DEF pending
  <2>4. pending' = Append(pending, i) /\ mode = "open" /\ mode' = mode
    BY <2>1, <2>3 DEF mode
  <2> QED BY <2>1, <2>4 DEF Queue!Push, pending, mode
<1>4. CASE Start
  BY <1>4 DEF Start, Queue!Start, Queue!Next
<1>5. CASE RunItem
  <2>1. /\ phase = "run" /\ phase' = "user" /\ UNCHANGED pushed
        /\ done' = Append(done, Here) /\ Here # None /\ at.slot \in Slot
    BY <1>5 DEF RunItem
  <2>2. Len(done) < Len(pushed) /\ Here = pushed[Len(done) + 1]
    BY <1>1, <1>2, <2>1, WalkReads
  <2>3. Len(done') = Len(done) + 1
    BY <1>2, <2>1, <2>2 DEF TypeOK
  <2>4. pending # <<>> /\ Head(pending) = Here /\ pending' = Tail(pending)
    BY <1>2, <2>1, <2>2, <2>3, Behind DEF pending
  <2> QED BY <2>1, <2>4 DEF Queue!RunNext, Queue!Next, pending, mode
<1>6. CASE UserReturn
  BY <1>6 DEF UserReturn
<1>7. CASE UserPanic
  <2>1. ChainInv'
    BY <1>2, <1>7, EndChained
  <2>2. done # <<>>
    BY <1>7, <2>1 DEF UserPanic, ChainInv, Reached
  <2> QED BY <1>7, <2>2 DEF UserPanic, Queue!Break, Queue!Next
<1>8. CASE StopAtEmpty
  <2>1. Len(done) = Len(pushed)
    BY <1>1, <1>2, <1>8, WalkReads DEF StopAtEmpty
  <2>2. pending = <<>>
    BY <1>2, <2>1, Behind DEF pending
  <2> QED BY <1>8, <2>2 DEF StopAtEmpty, Queue!Finish, Queue!Next, pending
<1>9. CASE FollowNext
  BY <1>9 DEF FollowNext
<1>10. CASE UNCHANGED listVars
  BY <1>10 DEF listVars
<1> QED
  BY <1>3, <1>4, <1>5, <1>6, <1>7, <1>8, <1>9, <1>10 DEF Next, Executing, Queue!Next

\* However long the chain grew, its execution runs each registered function
\* once and in the order of registration, nothing is left when it returns, and
\* executing the chain again runs nothing (droplist.rs:76-77).
THEOREM QueueRefines == Spec => ImplementsQueue
<1>1. Init => Queue!Init
  BY DEF Init, Queue!Init
<1>2. IInv /\ ChainInv /\ [Next]_listVars => [Queue!Next]_(Queue!queueVars)
  BY StepRefines
<1> QED
  BY <1>1, <1>2, InitHolds, InitChained, Inductive, ChainInductive, PTL
  DEF Spec, ImplementsQueue, Queue!Spec
=============================================================================
