----------------------------- MODULE Collections -----------------------------
(***************************************************************************)
(* The collections of the crate in one arena: an N with what it outlives,  *)
(* a List, an Array, a FixedArray and a UStr, between which the program    *)
(* moves its values, until the arena dies and drops them all.              *)
(***************************************************************************)
EXTENDS GrowableArray, ListSegments, FixedArray, UStr

CONSTANT MaxKinds \* bound: kinds of collections used in one behaviour

vars == <<tenantVars, nVars, listVars, arrVars, fixVars, text>>

TypeOK ==
  /\ TenantsTypeOK /\ OutlivesTypeOK /\ ListTypeOK /\ ArrayTypeOK
  /\ FixedTypeOK /\ UStrTypeOK

Init ==
  /\ TenantsInit /\ OutlivesInit /\ ListInit /\ ArrayInit
  /\ FixedInit /\ UStrInit

Kinds ==
  { k \in {"n", "list", "array", "fixed", "text"} :
      CASE k = "n"     -> nodes # <<>>
        [] k = "list"  -> listOpen
        [] k = "array" -> arrStage # "none"
        [] k = "fixed" -> fixStage # "none"
        [] k = "text"  -> text # NoText }

\* Each step is the arena's or one collection's, and leaves the others alone.
OnlyArena == UNCHANGED <<nVars, listVars, arrVars, fixVars, text>>
OnlyN     == UNCHANGED <<listVars, arrVars, fixVars, text>> /\ Cardinality(Kinds') <= MaxKinds
OnlyList  == UNCHANGED <<nVars, arrVars, fixVars, text>> /\ Cardinality(Kinds') <= MaxKinds
OnlyArray == UNCHANGED <<nVars, listVars, fixVars, text>> /\ Cardinality(Kinds') <= MaxKinds
OnlyFixed == UNCHANGED <<nVars, listVars, arrVars, text>> /\ Cardinality(Kinds') <= MaxKinds
OnlyText  == UNCHANGED <<nVars, listVars, arrVars, fixVars>> /\ Cardinality(Kinds') <= MaxKinds

\* What the program may ask for.
Asking ==
  \/ DropArena /\ OnlyArena
  \/ ArrayPop /\ OnlyArray
  \/ FixedDone /\ OnlyFixed
  \/ WriteNull /\ OnlyFixed
  \/ \E fits \in BOOLEAN :
       \/ ListNew(fits) /\ OnlyList
       \/ \E cap \in AskedCaps : ArrayNew(cap, fits) /\ OnlyArray
  \/ \E cap \in Regions : FixedReserve(cap) /\ OnlyFixed
  \/ \E s \in Strs \cup CStrs : UStrNew(s) /\ OnlyText
  \/ \E v \in Value :
       \/ NNew(v) /\ OnlyN
       \/ NRefused(v) /\ OnlyN
       \/ \E p \in Value : NOutlives(p, v) /\ OnlyN
       \/ ListPush(v) /\ OnlyList
       \/ ListPushTooBig(v) /\ OnlyList
       \/ ListPushDead(v) /\ OnlyList
       \/ ArrayPush(v) /\ OnlyArray
       \/ ArrayPushFails(v) /\ OnlyArray
       \/ ArrayPushDead(v) /\ OnlyArray
       \/ InitPush(v) /\ OnlyFixed
       \/ InitPushIgnored(v) /\ OnlyFixed
  \/ \E vs \in Batches :
       \/ FillByC(vs) /\ OnlyFixed
       \/ \E src \in Sources :
            \/ FixedNew(src, vs) /\ OnlyFixed
            \/ FixedNewTooBig(src, vs) /\ OnlyFixed

\* What the dying arena does.
Dropping ==
  \/ StartValue /\ OnlyArena
  \/ StartTable /\ OnlyArray
  \/ StartFixed /\ OnlyFixed
  \/ OpenNext /\ OnlyArena
  \/ DropOwn /\ OnlyArena
  \/ DropHead /\ OnlyArena
  \/ DropReturn /\ OnlyArena
  \/ DropPanic /\ OnlyArena
  \/ EndEntry("value") /\ OnlyArena
  \/ EndEntry("table") /\ OnlyArena
  \/ EndFixed /\ OnlyFixed
  \/ EndUnwind /\ OnlyArena
  \/ FinishChain /\ OnlyArena

Next == Asking \/ Dropping

Spec == Init /\ [][Next]_vars

-----------------------------------------------------------------------------
(* The three sequences                                                     *)

Dropped(s) == { v \in Range(s) : v \in Value /\ drops[v] > 0 }

\* A list is an owned sequence, as its iterator yields it, through segments
\* that are filled and linked on (list.rs:126-145, :195-220).
ListSequence == INSTANCE OwnedSequence WITH
  open <- IsAlive, contents <- ListItems, gone <- Dropped(ListItems)

ListImplements == ListSequence!Spec

\* So is an array, through growth and pops: an item popped is not dropped with
\* the array, and one pushed again is (array.rs:132, :157).
ArraySequence == INSTANCE OwnedSequence WITH
  open <- IsAlive, contents <- ArrayItems, gone <- Dropped(ArrayItems)

ArrayImplements == ArraySequence!Spec

\* And a fixed array made in time, from an iterator that keeps its word or by
\* foreign code.
Sound == fixStage = "array" /\ fixBy \in {"none", "exact", "c"}

FixedItems ==
  IF Sound THEN SubSeq(cells, 1, IF fixBy = "exact" THEN Room ELSE initLen) ELSE <<>>

FixedSequence == INSTANCE OwnedSequence WITH
  open <- IsAlive \/ Contains(registered, Entry("fixed", None)),
  contents <- FixedItems, gone <- Dropped(FixedItems)

FixedImplements == FixedSequence!Spec

-----------------------------------------------------------------------------
(* All together                                                            *)

Live(s) == \A k \in 1..Len(s) : s[k] \in Value /\ drops[s[k]] = 0

\* Nothing read from an arena that says it is alive was dropped or never
\* written, and a list's iterator yields as much as it announces.  as_ref and
\* Index of a FixedArray do not ask, and yet lead to no dropped value at any
\* time: drop_array sets the length to zero before it drops the first one
\* (array_uninit.rs:68-73).
ReadsLive ==
  /\ Live(ListView) /\ Len(ListView) = ListViewLen
  /\ Live(ArrayView)
  /\ \A v \in Range(nodes) : NView(v) # None => drops[v] = 0
  /\ Sound => Live(FixedView) /\ Live(FixedSlice)

\* A value is dropped after all that it outlives, and of these the one added
\* last goes first (n.rs:23-37).  It is the second half of the sentence at
\* n.rs:94-95, "this struct should outlive the specified struct"; OutlivedAfter
\* is the first.  The order among what one value outlives holds through a panic
\* as well.
OutlivesOrder ==
  \A p \in Range(nodes) :
    /\ drops[p] > 0 /\ ~unwinding => \A v \in Range(owned[p]) : drops[v] > 0
    /\ \A k \in 1..Len(nodes) : \A j \in 1..k :
         {nodes[j], nodes[k]} \subseteq Range(owned[p]) =>
           (drops[nodes[j]] > 0 => drops[nodes[k]] > 0)

\* ... of the same sentence: outlives "ensures that it", the new value, "is
\* dropped only after this value is dropped" (n.rs:94).
OutlivedAfter ==
  \A p \in Range(nodes) : \A v \in Range(owned[p]) : drops[v] > 0 => drops[p] > 0

\* What was given to an ArrayInitializer is dropped by its push already, what
\* was written past a region's end or finished too late not at all.
Extra == IF fixStage = "array" /\ fixBy = "init" THEN Range(cells) ELSE {}
Lost  == spilled \cup (IF fixStage # "array" /\ fixBy = "c" THEN Range(cells) ELSE {})

\* When an arena has died without a panic, every value some collection took or
\* refused was dropped exactly once, and none that the program kept or got
\* back (lib.rs:4-5) - but for the two cases above.
DroppedExactly ==
  phase = "dead" /\ ~unwinding =>
    \A v \in Value :
      drops[v] = (IF v \in outside THEN 0 ELSE 1)
                   + (IF v \in Extra THEN 1 ELSE 0) - (IF v \in Lost THEN 1 ELSE 0)

\* Read either way, alive or dead, a string is what it was made from
\* (ustr.rs:35-42).
TextFaithful == text # NoText => StrView = text.given /\ CStrView = text.given

\* Undefined behaviour has one of three causes.  Bytes that are no value are
\* dropped only where an iterator yielded fewer items than it announced; bytes
\* behind a block are written only where an array was made from the iterator of
\* another live one, whose len is inverted (iter.rs:8), and its items are lost;
\* null is written only through an initializer kept until after drop_array.
FaultsExplained ==
  /\ fault = "garbage dropped" => fixBy \in {"dying", "list", "panics"}
  /\ fault = "overrun" => fixBy = "fixed" /\ spilled # {}
  /\ fault = "null write" => ~IsAlive /\ fixStage = "uninit"

\* A value an initializer took is dropped with the arena, and not before: no
\* value is ever dropped twice (lib.rs:25, array_fixed.rs:9).
DroppedAtMostOnce == \A v \in Value : drops[v] <= 1
=============================================================================
