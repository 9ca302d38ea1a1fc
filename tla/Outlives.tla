------------------------------ MODULE Outlives -------------------------------
(***************************************************************************)
(* N of src/src/n.rs: a value in the arena that other values can be tied   *)
(* to.  N::new registers the value's drop function; a value added by       *)
(* outlives is not registered, it hangs on the list of the value it is     *)
(* tied to, and is dropped by that value's drop, before the value itself.  *)
(***************************************************************************)
EXTENDS Tenants

VARIABLES nodes, \* values placed in the arena as an N, oldest first
          owned  \* owned[v]: the values v's list leads to, head first

nVars == <<nodes, owned>>

OutlivesTypeOK ==
  /\ nodes \in Seq(Value)
  /\ owned \in [Value -> Seq(Value)]

OutlivesInit == nodes = <<>> /\ owned = [v \in Value |-> <<>>]

\* N::new of a value whose type fits into a block.
NNew(v) ==
  /\ Calling /\ IsAlive
  /\ Takes({v}) /\ Register("value", v)
  /\ nodes' = Append(nodes, v)
  /\ UNCHANGED <<phase, running, todo, walks, busy, unwinding, largest, fault, owned>>

\* N::new or N::outlives of one that does not fit, or N::outlives when dead.
NRefused(v) == Calling /\ Refuses({v}) /\ UNCHANGED nVars

\* Mutant: the new value goes to the end of the list.
NOutlivesAtEnd(p, v) ==
  /\ Calling /\ IsAlive /\ Contains(nodes, p)
  /\ Takes({v})
  /\ nodes' = Append(nodes, v)
  /\ owned' = [owned EXCEPT ![p] = Append(@, v)]
  /\ UNCHANGED arenaVars

\* N::outlives: the new value becomes the head of p's list.
NOutlives(p, v) ==
  /\ Calling /\ IsAlive /\ Contains(nodes, p)
  /\ Takes({v})
  /\ nodes' = Append(nodes, v)
  /\ owned' = [owned EXCEPT ![p] = <<v>> \o @]
  /\ UNCHANGED arenaVars

\* An NMetadata's drop begins with the head of its list.
Walk(v) == [of |-> v, next |-> 1]

\* The drop function of a value: an N with its list, or an item of a List,
\* which has none.
StartValue == \E v \in Value : Enter(Entry("value", v), <<>>, <<Walk(v)>>)

\* NMetadata::drop calls the drop of the next value of its list, whose own list
\* comes first.
OpenNext ==
  /\ Inside /\ walks # <<>> /\ ~unwinding
  /\ LET w == Last(walks) IN
       /\ w.next <= Len(owned[w.of])
       /\ walks' = Append(Append(Front(walks), [w EXCEPT !.next = @ + 1]),
                          Walk(owned[w.of][w.next]))
  /\ UNCHANGED <<phase, registered, running, todo, busy, unwinding, largest, fault, drops, outside>>

\* At the list's end, or when a panic leaves it, the value's own drop is
\* entered: the rest of a list is lost with a panic, the values whose lists are
\* walked are not.
DropOwn ==
  /\ Inside /\ walks # <<>>
  /\ LET w == Last(walks) IN
       /\ unwinding \/ w.next > Len(owned[w.of])
       /\ busy' = w.of
       /\ drops' = [drops EXCEPT ![w.of] = @ + 1]
  /\ walks' = Front(walks)
  /\ UNCHANGED <<phase, registered, running, todo, unwinding, largest, fault, outside>>

\* A value's drop panics.
DropPanic ==
  /\ busy \in MayPanic
  /\ Panics
  /\ UNCHANGED <<drops, outside>>

-----------------------------------------------------------------------------

\* N::val, var, expect and expect_mut: what the handle on v leads to.
NView(v) == IF IsAlive THEN v ELSE None
=============================================================================
