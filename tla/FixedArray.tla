----------------------------- MODULE FixedArray ------------------------------
(***************************************************************************)
(* FixedArray, UninitArray and ArrayInitializer of src/src/array_fixed.rs  *)
(* and array_uninit.rs: one region of the arena for all items, made from   *)
(* an iterator at once, or reserved first and then filled, item by item or *)
(* by foreign code.  drop_array, registered once, drops the first `_len`   *)
(* items.  The iterators are those of the crate itself (iter.rs, list.rs)  *)
(* besides one that keeps its word.  One such array.                       *)
(***************************************************************************)
EXTENDS Tenants

CONSTANTS
  Sources, \* what FixedArray::new is given, see Announced
  Regions  \* capacities the program asks for

ASSUME FixedAssumption ==
  /\ Sources \subseteq {"exact", "fixed", "dying", "list", "panics"}
  /\ Regions \subseteq Nat

VARIABLES
  fixStage, \* "none"; "failed": no handle; "uninit": an UninitArray, or its
            \* ArrayInitializer; "array"; "late": an array, too late to be one
  fixBy,    \* where the items came from
  cells,    \* the region, by position
  fixLen,   \* _len
  fixData,  \* _data is not null
  initLen,  \* initialized_len, or what foreign code filled
  spilled   \* values written past the end of the region

fixVars == <<fixStage, fixBy, cells, fixLen, fixData, initLen, spilled>>

Room == Len(cells)
Uninit(n) == [k \in 1..n |-> Garbage]

FixedTypeOK ==
  /\ fixStage \in {"none", "failed", "uninit", "array", "late"}
  /\ fixBy \in {"none", "exact", "fixed", "dying", "list", "panics", "c", "init"}
  /\ cells \in Seq(Value \cup {Garbage})
  /\ fixData \in BOOLEAN
  /\ fixLen \in Nat
  /\ fixData => fixLen <= Room
  /\ initLen \in 0..Room
  /\ spilled \in SUBSET Value

FixedInit ==
  /\ fixStage = "none" /\ fixBy = "none"
  /\ cells = <<>> /\ fixLen = 0 /\ fixData = FALSE /\ initLen = 0
  /\ spilled = {}

-----------------------------------------------------------------------------
(* Iterators                                                               *)

\* EmptyIfDeadIter's len and items: alive says whether the array it walks was
\* alive when it was made, inner are that array's items.
EmptyIfDeadLen(alive, inner) == IF alive THEN 0 ELSE Len(inner)
EmptyIfDeadItems(alive, inner) == IF alive THEN inner ELSE <<>>

\* The len of each kind of iterator over vs: one that yields them all; the one
\* of an array, live or dying; one of a list, whose len does not count down,
\* after a first item was taken from it; one that panics at its last item.
Announced(src, vs) ==
  CASE src = "fixed" -> EmptyIfDeadLen(TRUE, vs)
    [] src = "dying" -> EmptyIfDeadLen(FALSE, vs)
    [] OTHER -> Len(vs)

Yielded(src, vs) ==
  CASE src = "exact"  -> vs
    [] src = "fixed"  -> EmptyIfDeadItems(TRUE, vs)
    [] src = "dying"  -> EmptyIfDeadItems(FALSE, vs)
    [] src = "list"   -> Tail(vs)
    [] src = "panics" -> Front(vs)

-----------------------------------------------------------------------------
(* FixedArray::new                                                         *)

\* What is in a region of n items after ys were written from its start.
Written(n, ys) == [k \in 1..n |-> IF k <= Len(ys) THEN ys[k] ELSE Garbage]

\* Items beyond the region are written all the same.  The region is the last
\* thing in its block, so they land in free room behind it, which the next
\* upload takes, or, where the block ends first, in memory of somebody else.
WritesOn(n, ys) ==
  \E pastBlock \in BOOLEAN :
    /\ pastBlock => Len(ys) > n
    /\ ~pastBlock => Len(ys) <= largest
    /\ fault' = IF pastBlock THEN "overrun" ELSE fault

\* Length and drop function come first, then the region, then the items.
FixedNew(src, vs) ==
  /\ Calling /\ IsAlive /\ fixStage = "none"
  /\ Announced(src, vs) <= largest
  /\ Register("fixed", None)
  /\ Takes(Range(Yielded(src, vs)))
  /\ fixStage' = IF src = "panics" THEN "failed" ELSE "array"
  /\ fixBy' = src
  /\ fixLen' = Announced(src, vs)
  /\ fixData' = TRUE
  /\ cells' = Written(Announced(src, vs), Yielded(src, vs))
  /\ spilled' = { v \in Range(Yielded(src, vs)) : v \notin Range(cells') }
  /\ WritesOn(Announced(src, vs), Yielded(src, vs))
  /\ UNCHANGED <<phase, running, todo, walks, busy, unwinding, largest, initLen>>

\* The region does not fit: the drop function stays, with null data, and the
\* iterator is dropped with the values it owns.
FixedNewTooBig(src, vs) ==
  /\ Calling /\ IsAlive /\ fixStage = "none"
  /\ Announced(src, vs) > largest
  /\ Register("fixed", None)
  /\ IF src = "exact" THEN DropsAll(Range(vs)) ELSE UNCHANGED <<drops, outside>>
  /\ fixStage' = "failed"
  /\ fixLen' = Announced(src, vs)
  /\ UNCHANGED <<phase, running, todo, walks, busy, unwinding, largest, fault>>
  /\ UNCHANGED <<fixBy, cells, fixData, initLen, spilled>>

-----------------------------------------------------------------------------
(* FixedArray::with_capacity and the two ways to fill the region           *)

FixedReserve(cap) ==
  /\ Calling /\ IsAlive /\ fixStage = "none"
  /\ Register("fixed", None)
  /\ IF cap <= largest
       THEN fixStage' = "uninit" /\ cells' = Uninit(cap) /\ fixData' = TRUE
       ELSE fixStage' = "failed" /\ UNCHANGED <<cells, fixData>>
  /\ UNCHANGED <<phase, running, todo, walks, busy, unwinding, largest, fault, drops, outside>>
  /\ UNCHANGED <<fixBy, fixLen, initLen, spilled>>

Initializing == Calling /\ fixStage = "uninit" /\ fixBy \in {"none", "init"}

\* ArrayInitializer::push copies the item's bytes; the item itself goes out of
\* scope at the end of push and is dropped.
InitPush(v) ==
  /\ Initializing /\ initLen < Room /\ fixData
  /\ Refuses({v})
  /\ cells' = [cells EXCEPT ![initLen + 1] = v]
  /\ initLen' = initLen + 1
  /\ fixBy' = "init"
  /\ UNCHANGED <<fixStage, fixLen, fixData, spilled>>

\* The region is full: nothing is copied, and nobody is told.
InitPushIgnored(v) ==
  /\ Initializing /\ initLen = Room
  /\ Refuses({v})
  /\ UNCHANGED fixVars

\* Foreign code fills the region's start through data_mut.
FillByC(vs) ==
  /\ Calling /\ fixStage = "uninit" /\ fixBy = "none"
  /\ fixData /\ Len(vs) <= Room
  /\ Takes(Range(vs))
  /\ cells' = Written(Room, vs)
  /\ initLen' = Len(vs)
  /\ fixBy' = "c"
  /\ UNCHANGED <<arenaVars, fixStage, fixLen, fixData, spilled>>

\* Either of them after drop_array ran: neither asks whether the arena is
\* alive, and data_mut returns null.
WriteNull ==
  /\ Calling /\ fixStage = "uninit" /\ fixBy # "c"
  /\ initLen < Room /\ ~fixData
  /\ fault' = "null write"
  /\ UNCHANGED <<phase, registered, running, todo, walks, busy, unwinding, largest, drops, outside>>
  /\ UNCHANGED fixVars

\* ArrayInitializer::initialized and UninitArray::initialized_to_len: the count
\* never exceeds the capacity.  The arena's end is not noticed here either.
FixedDone ==
  /\ Calling /\ fixStage = "uninit"
  /\ fixLen' = initLen
  /\ fixStage' = IF fixData THEN "array" ELSE "late"
  /\ UNCHANGED <<tenantVars, fixBy, cells, fixData, initLen, spilled>>

-----------------------------------------------------------------------------
(* drop_array                                                              *)

\* Mutant: the length is left as it is.
StartFixedKeepsLen ==
  /\ Enter(Entry("fixed", None), IF fixData THEN SubSeq(cells, 1, fixLen) ELSE <<>>, <<>>)
  /\ UNCHANGED fixVars

\* Mutant: the items are counted from one.
StartFixedFromSecond ==
  /\ Enter(Entry("fixed", None), IF fixData THEN SubSeq(cells, 2, fixLen) ELSE <<>>, <<>>)
  /\ fixLen' = IF fixData THEN 0 ELSE fixLen
  /\ UNCHANGED <<fixStage, fixBy, cells, fixData, initLen, spilled>>

\* The length is set to zero before the first item is dropped.
StartFixed ==
  /\ Enter(Entry("fixed", None), IF fixData THEN SubSeq(cells, 1, fixLen) ELSE <<>>, <<>>)
  /\ fixLen' = IF fixData THEN 0 ELSE fixLen
  /\ UNCHANGED <<fixStage, fixBy, cells, fixData, initLen, spilled>>

\* The pointer is set to null after the last.
EndFixed ==
  /\ EndEntry("fixed")
  /\ fixData' = FALSE
  /\ UNCHANGED <<fixStage, fixBy, cells, fixLen, initLen, spilled>>

\* Sequences of different values, not longer than the program has values.
Batches == { vs \in SeqOf(Value, Cardinality(Value)) : vs # <<>> /\ IsInjective(vs) }

-----------------------------------------------------------------------------

\* as_ref, and Index and == through it: never asks whether the arena is alive.
FixedSlice == IF fixData THEN SubSeq(cells, 1, fixLen) ELSE Uninit(fixLen)

\* FixedArray::iter, safer_iter, the same with _mut, and len.
FixedView == EmptyIfDeadItems(IsAlive, FixedSlice)
=============================================================================
