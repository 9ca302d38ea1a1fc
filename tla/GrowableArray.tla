---------------------------- MODULE GrowableArray ----------------------------
(***************************************************************************)
(* Array of src/src/array.rs: a table of pointers to items placed in the   *)
(* arena one by one.  The items have no drop function of their own: one    *)
(* registered for the whole array drops what the table leads to, up to the *)
(* array's length at that time.  One array.                                *)
(***************************************************************************)
EXTENDS Outlives

CONSTANTS MinCap, \* 4: the capacity by default, and of the first growth
          Caps,   \* capacities the program asks for
          Hints   \* least numbers of items that collected iterators announce

ASSUME GrowableAssumption ==
  MinCap \in Nat \ {0} /\ Caps \subseteq Nat /\ Hints \subseteq Nat

VARIABLES
  arrStage, \* "none"; "failed": the table did not fit; "open"
  arrFits,  \* an item fits into a block
  ptrs,     \* the table: items by position; Garbage where none was written
  arrLen    \* _len

arrVars == <<arrStage, arrFits, ptrs, arrLen>>

\* _capacity is the size of the table whenever there is one.
ArrCap == Len(ptrs)

Table(n) == [k \in 1..n |-> Garbage]

ArrayTypeOK ==
  /\ arrStage \in {"none", "failed", "open"} /\ arrFits \in BOOLEAN
  /\ ptrs \in Seq(Value \cup {Garbage})
  /\ arrLen \in 0..ArrCap

ArrayInit ==
  /\ arrStage = "none" /\ arrFits = TRUE /\ ptrs = <<>> /\ arrLen = 0

\* The capacity from_iter and collect_array begin with; a push for each item
\* follows, up to the first that fails.
CollectCap(lower) == IF lower < MinCap THEN MinCap ELSE lower

AskedCaps == Caps \cup { CollectCap(n) : n \in Hints }

\* Array::with_capacity: the drop function is registered first, then the
\* table is placed.
ArrayNew(cap, fits) ==
  /\ Calling /\ IsAlive /\ arrStage = "none"
  /\ Register("table", None)
  /\ arrFits' = fits
  /\ IF cap <= largest
       THEN arrStage' = "open" /\ ptrs' = Table(cap)
       ELSE arrStage' = "failed" /\ UNCHANGED ptrs
  /\ UNCHANGED <<arrLen, phase, running, todo, walks, busy, unwinding, largest, fault, drops, outside>>

\* Mutant: the table grows one item late.
NeedsGrowthLate == arrLen > ArrCap

NeedsGrowth == arrLen = ArrCap

NewCap == IF ArrCap = 0 THEN MinCap ELSE 2 * ArrCap

\* Mutant: the last pointer is not copied.
GrownShort == SubSeq(ptrs, 1, arrLen - 1) \o Table(NewCap - arrLen + 1)

\* The new table with the pointers copied to it.
Grown == SubSeq(ptrs, 1, arrLen) \o Table(NewCap - arrLen)

\* The table at the time an item is placed.
Roomy == IF NeedsGrowth THEN Grown ELSE ptrs

\* Array::push of an item that fits, with a table that fits if it has to grow.
ArrayPush(v) ==
  /\ Calling /\ IsAlive /\ arrStage = "open" /\ arrFits
  /\ NeedsGrowth => NewCap <= largest
  /\ Takes({v})
  /\ ptrs' = [Roomy EXCEPT ![arrLen + 1] = v]
  /\ arrLen' = arrLen + 1
  /\ UNCHANGED <<arenaVars, arrStage, arrFits>>

\* Array::push fails: with the table as it was if the larger one does not
\* fit, with the larger one if it is the item that does not.
ArrayPushFails(v) ==
  /\ Calling /\ IsAlive /\ arrStage = "open"
  /\ Refuses({v})
  /\ \/ NeedsGrowth /\ NewCap > largest /\ UNCHANGED ptrs
     \/ (NeedsGrowth => NewCap <= largest) /\ ~arrFits /\ ptrs' = Roomy
  /\ UNCHANGED <<arrStage, arrFits, arrLen>>

\* Array::push on a dead arena panics, and the item is dropped.  In a value's
\* drop this is the drop's panic.  (Bound: the item's own drop does not panic,
\* which would abort the process.)
ArrayPushDead(v) ==
  /\ Calling /\ ~IsAlive /\ arrStage = "open" /\ v \notin MayPanic
  /\ IF busy = None THEN Refuses({v}) ELSE DropsAll({v}) /\ Panics
  /\ UNCHANGED arrVars

\* Mutant: the item is read and the length stays.
ArrayPopKeeps ==
  /\ Calling /\ IsAlive /\ arrStage = "open" /\ arrLen > 0
  /\ outside' = outside \cup {ptrs[arrLen]}
  /\ UNCHANGED <<arenaVars, drops, arrVars>>

\* Array::pop; when empty or dead it changes nothing.
ArrayPop ==
  /\ Calling /\ IsAlive /\ arrStage = "open" /\ arrLen > 0
  /\ outside' = outside \cup {ptrs[arrLen]}
  /\ arrLen' = arrLen - 1
  /\ UNCHANGED <<arenaVars, drops, arrStage, arrFits, ptrs>>

\* drop_growable_array; nothing to do where the table was never placed.
StartTable ==
  /\ Enter(Entry("table", None), SubSeq(ptrs, 1, arrLen), <<>>)
  /\ UNCHANGED arrVars

-----------------------------------------------------------------------------

\* The items that Index and IndexMut give by position, panicking past the last.
ArrayItems == SubSeq(ptrs, 1, arrLen)

\* Array::iter, iter_mut, and len, to_vec, == and Debug, which go by it.
ArrayView == IF IsAlive THEN ArrayItems ELSE <<>>
=============================================================================
