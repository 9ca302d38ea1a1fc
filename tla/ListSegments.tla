---------------------------- MODULE ListSegments -----------------------------
(***************************************************************************)
(* List of src/src/list.rs: an append-only list of pointers, in segments   *)
(* of SegMax slots linked to one another.  Every item has a drop function  *)
(* of its own in the arena; the segments' has nothing to do and is left    *)
(* out.  One list, which the program may make at any time.                 *)
(***************************************************************************)
EXTENDS Tenants

CONSTANT SegMax \* MAX_ITEMS

ASSUME SegMaxAssumption == SegMax \in Nat \ {0}

VARIABLES
  listOpen, \* the list was made
  listFits, \* an item fits into a block
  segments, \* the segments, first to last: each links to the one after it
  usedSlots, \* used_items of the last one
  listLen   \* _len

listVars == <<listOpen, listFits, segments, usedSlots, listLen>>

EmptySegment == [k \in 0..(SegMax - 1) |-> None]

ListTypeOK ==
  /\ listOpen \in BOOLEAN /\ listFits \in BOOLEAN
  /\ segments \in Seq([0..(SegMax - 1) -> Value \cup {None}])
  /\ usedSlots \in 0..SegMax
  /\ listLen \in Nat

ListInit ==
  /\ listOpen = FALSE /\ listFits = TRUE
  /\ segments = <<>> /\ usedSlots = 0 /\ listLen = 0

\* List::new, when a segment fits into a block; otherwise there is no list.
ListNew(fits) ==
  /\ Calling /\ IsAlive /\ ~listOpen
  /\ listOpen' = TRUE /\ listFits' = fits
  /\ segments' = <<EmptySegment>>
  /\ UNCHANGED <<usedSlots, listLen, tenantVars>>

HasSlot == usedSlots < SegMax

\* Mutant: the slot after the next empty one is taken.
ListPushSkipsSlot(v) ==
  /\ Calling /\ IsAlive /\ listOpen /\ listFits
  /\ Takes({v}) /\ Register("value", v)
  /\ IF HasSlot
       THEN /\ usedSlots' = usedSlots + 1
            /\ segments' = [segments EXCEPT ![Len(segments)][(usedSlots + 1) % SegMax] = v]
       ELSE /\ usedSlots' = 1
            /\ segments' = Append(segments, [EmptySegment EXCEPT ![0] = v])
  /\ listLen' = listLen + 1
  /\ UNCHANGED <<phase, running, todo, walks, busy, unwinding, largest, fault, listOpen, listFits>>

\* Mutant: an item that comes with a new segment is not registered.
ListPushUnregistered(v) ==
  /\ Calling /\ IsAlive /\ listOpen /\ listFits
  /\ Takes({v})
  /\ IF HasSlot
       THEN /\ usedSlots' = usedSlots + 1
            /\ segments' = [segments EXCEPT ![Len(segments)][usedSlots] = v]
            /\ Register("value", v)
       ELSE /\ usedSlots' = 1
            /\ segments' = Append(segments, [EmptySegment EXCEPT ![0] = v])
            /\ UNCHANGED registered
  /\ listLen' = listLen + 1
  /\ UNCHANGED <<phase, running, todo, walks, busy, unwinding, largest, fault, listOpen, listFits>>

\* List::push: into the last segment's next slot, or the first of a new one.
ListPush(v) ==
  /\ Calling /\ IsAlive /\ listOpen /\ listFits
  /\ Takes({v}) /\ Register("value", v)
  /\ IF HasSlot
       THEN /\ usedSlots' = usedSlots + 1
            /\ segments' = [segments EXCEPT ![Len(segments)][usedSlots] = v]
       ELSE /\ usedSlots' = 1
            /\ segments' = Append(segments, [EmptySegment EXCEPT ![0] = v])
  /\ listLen' = listLen + 1
  /\ UNCHANGED <<phase, running, todo, walks, busy, unwinding, largest, fault, listOpen, listFits>>

\* List::push of an item that does not fit: the slot was taken and stays null,
\* or the new segment is linked and its first slot is still free.
ListPushTooBig(v) ==
  /\ Calling /\ IsAlive /\ listOpen /\ ~listFits
  /\ Refuses({v})
  /\ IF HasSlot
       THEN usedSlots' = usedSlots + 1 /\ UNCHANGED segments
       ELSE usedSlots' = 0 /\ segments' = Append(segments, EmptySegment)
  /\ UNCHANGED <<listOpen, listFits, listLen>>

\* List::push on a dead arena: ArenaIsNotAlive.
ListPushDead(v) ==
  /\ Calling /\ ~IsAlive /\ listOpen
  /\ Refuses({v})
  /\ UNCHANGED listVars

-----------------------------------------------------------------------------

\* The slots of all segments, one after another, from 0: ListIter::next goes
\* from a segment's last slot to the next segment's first.
Slots == 0..(Len(segments) * SegMax - 1)
Slot(g) == segments[g \div SegMax + 1][g % SegMax]

\* It ends at a null slot or the last link.
ListEnd == Min({ g \in Slots : Slot(g) = None } \cup {Len(segments) * SegMax})

ListItems == IF listOpen THEN [k \in 1..ListEnd |-> Slot(k - 1)] ELSE <<>>

\* List::iter, iter_mut and, with the dead arena told apart, safer_iter,
\* safer_iter_mut; to_vec, == and Debug go through iter.
ListView == IF IsAlive THEN ListItems ELSE <<>>

\* What the len of that iterator says.
ListViewLen == IF IsAlive THEN listLen ELSE 0
=============================================================================
