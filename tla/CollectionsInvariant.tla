------------------------ MODULE CollectionsInvariant ------------------------
(***************************************************************************)
(* The inductive invariant of Collections, part by part: who runs, where   *)
(* every value is, what the chain of drop functions still holds, how far   *)
(* the running one got, and what each collection's storage looks like.     *)
(* CollectionsSteps and CollectionsProofs prove that it holds.             *)
(***************************************************************************)
EXTENDS Collections

-----------------------------------------------------------------------------
(* Control                                                                 *)

\* Drop functions run only while the arena dies, one at a time; an array's has a
\* list of items to drop, a value's a walk down the lists of NMetadata, and what
\* a panic left over is forgotten.
ControlInv ==
  /\ phase = "alive" => running = None /\ ~unwinding
  /\ running = None => todo = <<>> /\ walks = <<>> /\ busy = None
  /\ phase = "dead" => running = None
  /\ phase = "dead" /\ ~unwinding => registered = <<>>
  /\ running # "value" => walks = <<>>
  /\ running = "value" => todo = <<>>
  /\ unwinding => todo = <<>>
  /\ unwinding /\ phase = "dying" => running # None

-----------------------------------------------------------------------------
(* Places                                                                  *)

\* The values in the cells of the fixed array's region.
Held == Range(cells) \ {Garbage}

\* The six sets have no value in common.
Disjoint(o, n, l, a, f, s) ==
  /\ o \cap (n \cup l \cup a \cup f \cup s) = {}
  /\ n \cap (l \cup a \cup f \cup s) = {}
  /\ l \cap (a \cup f \cup s) = {}
  /\ a \cap (f \cup s) = {}
  /\ f \cap s = {}

Apart == Disjoint(outside, Range(nodes), Range(ListItems), Range(ArrayItems), Held, spilled)

\* What no collection holds and the program does not have.
Homeless == Value \ (outside \cup Range(nodes) \cup Range(ListItems) \cup Range(ArrayItems) \cup Held \cup spilled)

\* A value is in one place.  What the program has, or lost past a region's end,
\* was not dropped; what is nowhere was, once, by the call that refused it; nodes
\* and list items are dropped at most once, and never while the arena lives.
PlaceInv ==
  /\ Apart
  /\ \A v \in outside \cup spilled : drops[v] = 0
  /\ \A v \in Homeless : drops[v] = 1
  /\ \A v \in Range(nodes) \cup Range(ListItems) : drops[v] \in {0, 1}
  /\ phase = "alive" => \A v \in Range(nodes) \cup Range(ListItems) : drops[v] = 0

-----------------------------------------------------------------------------
(* Nodes, list items, and the walk of their drop functions                 *)

\* The values whose drop is under way: it waits for that of what hangs on them.
Walked == { walks[k].of : k \in 1..Len(walks) }

\* The drop of v has begun.
Touched(v) == drops[v] > 0 \/ v \in Walked

\* The values some NMetadata's list owns, and those with a drop function of their own.
Hung == UNION { Range(owned[p]) : p \in Value }
Direct == Range(ListItems) \cup (Range(nodes) \ Hung)

\* The chain holds one entry for each value that has one and was not begun with.
RegisteredInv ==
  /\ IsInjective(registered)
  /\ \A v \in Value : Entry("value", v) \in Range(registered) <=> v \in Direct /\ ~Touched(v)
  /\ \A e \in Range(registered) : IF e.fn = "value" THEN e.of \in Value ELSE e.of = None

\* outlives hangs a new node on an older one and at the head of its list: the
\* lists form a forest along the order in which the nodes were placed.
NodesInv ==
  /\ IsInjective(nodes)
  /\ \A p \in Value : owned[p] # <<>> => p \in Range(nodes)
  /\ Hung \subseteq Range(nodes)
  /\ \A a, b \in 1..Len(nodes) : nodes[b] \in Range(owned[nodes[a]]) => a < b
  /\ \A p, q \in Value : \A i \in 1..Len(owned[p]), j \in 1..Len(owned[q]) :
       owned[p][i] = owned[q][j] => p = q /\ i = j
  /\ \A p \in Value : \A i, j \in 1..Len(owned[p]) : \A a, b \in 1..Len(nodes) :
       nodes[a] = owned[p][i] /\ nodes[b] = owned[p][j] /\ a < b => j < i

\* The walks are a path in that forest, from a value the chain started down to the
\* one whose list is being dropped; what a list has left was not begun with.
WalksInv ==
  /\ \A k \in 1..Len(walks) :
       /\ drops[walks[k].of] = 0
       /\ walks[k].of \in Range(nodes) \cup Range(ListItems)
       /\ walks[k].next <= Len(owned[walks[k].of]) + 1
       /\ k = 1 => walks[k].of \in Direct
       /\ k > 1 => /\ walks[k - 1].next > 1
                   /\ walks[k].of = owned[walks[k - 1].of][walks[k - 1].next - 1]
       /\ walks[k].next > 1 => Touched(owned[walks[k].of][walks[k].next - 1])
       /\ \A i \in walks[k].next..Len(owned[walks[k].of]) : ~Touched(owned[walks[k].of][i])
       /\ k = Len(walks) /\ walks[k].next > 1 => drops[owned[walks[k].of][walks[k].next - 1]] > 0
  /\ \A j, k \in 1..Len(walks) : walks[j].of = walks[k].of => j = k

\* What hangs on a value is begun with after the value and dropped before it, and
\* the items of one list in its order; a panic may skip some but reorders none.
OrderInv ==
  \A p \in Value :
    /\ \A i \in 1..Len(owned[p]) : Touched(owned[p][i]) => Touched(p)
    /\ drops[p] > 0 /\ ~unwinding => \A i \in 1..Len(owned[p]) : drops[owned[p][i]] > 0
    /\ \A j \in 1..Len(owned[p]) : \A i \in 1..(j - 1) :
         Touched(owned[p][j]) => drops[owned[p][i]] > 0

\* A List's items wait in the chain, and are dropped, in the order of the pushes.
ListInv ==
  /\ IsInjective(ListItems)
  /\ \A j \in 1..Len(ListItems) : \A i \in 1..(j - 1) :
       Touched(ListItems[j]) => drops[ListItems[i]] > 0
  /\ \A a, b \in 1..Len(registered) : \A j \in 1..Len(ListItems) : \A i \in 1..(j - 1) :
       registered[a] = Entry("value", ListItems[i]) /\ registered[b] = Entry("value", ListItems[j]) => a < b

-----------------------------------------------------------------------------
(* The storage of each collection, and its drop function                   *)

\* All segments but the last are full, and the length counts what they hold.
SegmentsInv ==
  /\ ~listOpen => segments = <<>> /\ usedSlots = 0 /\ listLen = 0
  /\ listOpen => Len(segments) >= 1
  /\ listOpen /\ listFits => listLen = (Len(segments) - 1) * SegMax + usedSlots
  /\ ~listFits => listLen = 0
  /\ \A q \in 1..Len(segments), r \in 0..(SegMax - 1) :
       IF listFits /\ (q < Len(segments) \/ r < usedSlots)
         THEN segments[q][r] \in Value ELSE segments[q][r] = None

TableWaits == Entry("table", None) \in Range(registered)

\* drop_growable_array waits, or runs and is as many items into the table as it
\* dropped, or has dropped them all, each of them once.
TableInv ==
  /\ arrStage = "none" => ~TableWaits /\ running # "table" /\ arrLen = 0 /\ ptrs = <<>>
  /\ \A i \in 1..arrLen : ptrs[i] \in Value /\ drops[ptrs[i]] \in {0, 1}
  /\ IsInjective(ArrayItems)
  /\ phase = "alive" /\ arrStage # "none" => TableWaits
  /\ TableWaits => running # "table" /\ \A i \in 1..arrLen : drops[ptrs[i]] = 0
  /\ running = "table" /\ ~unwinding =>
       /\ Len(todo) <= arrLen
       /\ todo = SubSeq(ptrs, arrLen - Len(todo) + 1, arrLen)
       /\ \A i \in 1..arrLen : drops[ptrs[i]] = IF i <= arrLen - Len(todo) THEN 1 ELSE 0
  /\ arrStage # "none" /\ ~TableWaits /\ running # "table" /\ ~unwinding =>
       \A i \in 1..arrLen : drops[ptrs[i]] = 1

FixedWaits == Entry("fixed", None) \in Range(registered)

\* Before the arena dies an item of the initializer was dropped once, by push.
Base == IF fixBy = "init" THEN 1 ELSE 0

\* The region is filled from its start: item by item, or by foreign code.
ByHand == fixBy \in {"none", "c", "init"}

\* The length that the array has, or that initialized claims for it.
Count ==
  IF fixStage \notin {"array", "failed"} THEN 0 ELSE IF ByHand THEN initLen ELSE Room

\* Which cells of the region hold values, by the way it was filled, and how often
\* each of them was dropped.
CellsInv ==
  /\ \A i, j \in 1..Room : cells[i] = cells[j] /\ cells[i] # Garbage => i = j
  /\ fixStage = "none" => fixBy = "none" /\ cells = <<>> /\ fixLen = 0 /\ spilled = {} /\ ~fixData
  /\ fixBy = "none" \/ fixStage = "failed" => initLen = 0
  /\ ByHand => \A k \in 1..Room : cells[k] \in Value <=> k <= initLen
  /\ ~ByHand => fixStage \in {"array", "failed"}
  /\ fixBy = "exact" => \A k \in 1..Room : cells[k] \in Value
  /\ fixBy = "fixed" => cells = <<>>
  /\ fixStage = "uninit" => fixLen = 0
  /\ fixStage = "late" => ~fixData
  /\ \A k \in 1..Room : cells[k] \in Value =>
       /\ drops[cells[k]] \in {Base, Base + 1}
       /\ k > Count => drops[cells[k]] = Base

\* drop_array waits, or runs with the length already zero and is as many items
\* into the region as it dropped, or has dropped them all and cleared the pointer.
FixedInv ==
  /\ fixStage = "none" => ~FixedWaits /\ running # "fixed"
  /\ phase = "alive" /\ fixStage # "none" => FixedWaits
  /\ FixedWaits =>
       /\ running # "fixed"
       /\ fixData => fixLen = Count
       /\ ~fixData => cells = <<>> /\ fixStage # "uninit"
       /\ \A k \in 1..Room : cells[k] \in Value => drops[cells[k]] = Base
  /\ fixStage = "uninit" /\ running = "fixed" => busy = None /\ ~unwinding
  /\ fixStage = "uninit" /\ ~FixedWaits /\ running # "fixed" => ~fixData
  /\ running = "fixed" /\ ~unwinding =>
       /\ Len(todo) <= Count
       /\ todo = SubSeq(cells, Count - Len(todo) + 1, Count)
       /\ fault # "garbage dropped" => \A k \in 1..Count :
            IF k <= Count - Len(todo)
              THEN cells[k] \in Value /\ drops[cells[k]] = Base + 1
              ELSE cells[k] \in Value => drops[cells[k]] = Base
  /\ fixStage # "none" /\ ~FixedWaits /\ running # "fixed" /\ ~unwinding =>
       \A k \in 1..Count : cells[k] \in Value /\ drops[cells[k]] = Base + 1
  /\ fixData => fixLen <= Room
  /\ ~FixedWaits => ~fixData \/ fixLen = 0
  /\ ~fixData /\ Sound => fixLen = 0

-----------------------------------------------------------------------------

\* The invariant that every step keeps.
IInv ==
  /\ TypeOK /\ ControlInv /\ PlaceInv
  /\ RegisteredInv /\ NodesInv /\ WalksInv /\ OrderInv /\ ListInv
  /\ SegmentsInv /\ TableInv /\ CellsInv /\ FixedInv
  /\ FaultsExplained
=============================================================================
