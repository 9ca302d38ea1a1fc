------------------------------- MODULE Tenants -------------------------------
(***************************************************************************)
(* One arena as the collections of the crate see it: it is alive, it runs  *)
(* the drop functions registered by them, oldest first, and it is dead.    *)
(* Arena and DropList model how it does so; here a step of the dying arena *)
(* is one value's own drop, because that is user code, which may call the  *)
(* collections of the dying arena again, or panic.                         *)
(***************************************************************************)
EXTENDS Integers, FiniteSets, SequencesExt

CONSTANTS Value,    \* values the program gives to collections
          Garbage,  \* what uninitialised memory holds when read as a value
          None,     \* no value, no drop function
          MayPanic, \* values whose drop panics
          Largest   \* sizes of blocks, in table entries or array items

\* "value": drops a value and what it outlives; "table": drop_growable_array;
\* "fixed": drop_array.
DropFn == {"value", "table", "fixed"}

ASSUME TenantsAssumption ==
  /\ Garbage \notin Value /\ None \notin Value \cup DropFn \cup {Garbage}
  /\ MayPanic \subseteq Value
  /\ Largest \subseteq Nat

VARIABLES
  phase,      \* "alive" while strong handles exist, "dying", "dead"
  registered, \* drop functions not yet entered, oldest first
  running,    \* the drop function being run
  todo,       \* the items of an array it is still going to drop
  walks,      \* the drops of an NMetadata in progress, outermost first: whose
              \* list is walked, and which of its items comes next
  busy,       \* the value whose own drop is being run
  unwinding,  \* a drop panicked; the rest of the chain is given up
  drops,      \* drops[v]: how often v's own drop was entered
  outside,    \* values in the program's hands
  largest,    \* the largest table or array a block has room for
  fault       \* the undefined behaviour that ended the program

arenaVars == <<phase, registered, running, todo, walks, busy, unwinding, largest, fault>>
tenantVars == <<arenaVars, drops, outside>>

Entry(fn, v) == [fn |-> fn, of |-> v]

TenantsTypeOK ==
  /\ phase \in {"alive", "dying", "dead"}
  /\ registered \in Seq([fn : DropFn, of : Value \cup {None}])
  /\ running \in DropFn \cup {None}
  /\ todo \in Seq(Value \cup {Garbage})
  /\ walks \in Seq([of : Value, next : Nat \ {0}])
  /\ busy \in Value \cup {None}
  /\ unwinding \in BOOLEAN
  /\ drops \in [Value -> Nat]
  /\ outside \in SUBSET Value
  /\ largest \in Largest
  /\ fault \in {"none", "garbage dropped", "overrun", "null write"}

TenantsInit ==
  /\ phase = "alive" /\ registered = <<>> /\ running = None /\ todo = <<>>
  /\ walks = <<>> /\ busy = None /\ unwinding = FALSE
  /\ drops = [v \in Value |-> 0]
  /\ outside = Value
  /\ largest \in Largest
  /\ fault = "none"

-----------------------------------------------------------------------------
(* What a collection asks of the arena                                     *)

\* WeakArena::is_alive; WeakArena::arena and the uploads succeed only then.
IsAlive == phase = "alive"

\* The program's own code runs: outside of this crate, or in a value's drop.
Calling == fault = "none" /\ (phase = "dying" => busy # None)

Register(fn, v) == registered' = Append(registered, Entry(fn, v))

\* The value v, or all of vs, is moved into a collection.
Takes(vs) == vs \subseteq outside /\ outside' = outside \ vs /\ UNCHANGED drops

\* A call that fails drops what it was given before it returns.  (Bound: in a
\* value's drop, no call is given one whose drop panics.)
DropsAll(vs) ==
  /\ vs \subseteq outside
  /\ busy # None => vs \cap MayPanic = {}
  /\ outside' = outside \ vs
  /\ drops' = [v \in Value |-> drops[v] + (IF v \in vs THEN 1 ELSE 0)]

\* Nothing but the failed call's argument is touched.
Refuses(vs) == DropsAll(vs) /\ UNCHANGED arenaVars

-----------------------------------------------------------------------------
(* The dying arena                                                         *)

\* The last Arena handle is dropped, by the program.
DropArena ==
  /\ Calling /\ IsAlive
  /\ phase' = "dying"
  /\ UNCHANGED <<registered, running, todo, walks, busy, unwinding, largest, fault, drops, outside>>

\* execute_drop_chain is between two items, or in the middle of one.
Between == fault = "none" /\ phase = "dying" /\ busy = None /\ running = None /\ ~unwinding
Inside  == fault = "none" /\ phase = "dying" /\ busy = None /\ running # None

\* The oldest drop function is entered; it is going to drop the items in this
\* order, or begins to walk an NMetadata's list.  None of these can change on
\* the way: the collections refuse to.
Enter(entry, items, walk) ==
  /\ Between /\ registered # <<>> /\ Head(registered) = entry
  /\ registered' = Tail(registered)
  /\ running' = entry.fn
  /\ todo' = items
  /\ walks' = walk
  /\ UNCHANGED <<phase, busy, unwinding, largest, fault, drops, outside>>

\* The next item's own drop is entered, or bytes that never held a value are
\* dropped like one, which is undefined.
DropHead ==
  /\ Inside /\ todo # <<>>
  /\ todo' = Tail(todo)
  /\ IF Head(todo) = Garbage
       THEN fault' = "garbage dropped" /\ UNCHANGED <<busy, drops>>
       ELSE /\ busy' = Head(todo)
            /\ drops' = [drops EXCEPT ![Head(todo)] = @ + 1]
            /\ UNCHANGED fault
  /\ UNCHANGED <<phase, registered, running, walks, unwinding, largest, outside>>

\* It returns.
DropReturn ==
  /\ fault = "none" /\ busy \in Value \ MayPanic
  /\ busy' = None
  /\ UNCHANGED <<phase, registered, running, todo, walks, unwinding, largest, fault, drops, outside>>

\* It panics: the other items of an array are lost.  (A second panic aborts the
\* process.)
Panics ==
  /\ fault = "none" /\ busy # None /\ ~unwinding
  /\ busy' = None /\ unwinding' = TRUE /\ todo' = <<>>
  /\ UNCHANGED <<phase, registered, running, walks, largest, fault>>

\* A drop function has dropped everything and returns to the chain.
EndEntry(fn) ==
  /\ Inside /\ running = fn /\ todo = <<>> /\ walks = <<>> /\ ~unwinding
  /\ running' = None
  /\ UNCHANGED <<phase, registered, todo, walks, busy, unwinding, largest, fault, drops, outside>>

\* The unwinding leaves execute_drop_chain; what is registered stays undropped.
EndUnwind ==
  /\ Inside /\ unwinding /\ todo = <<>> /\ walks = <<>>
  /\ phase' = "dead" /\ running' = None
  /\ UNCHANGED <<registered, todo, walks, busy, unwinding, largest, fault, drops, outside>>

FinishChain ==
  /\ Between /\ registered = <<>>
  /\ phase' = "dead"
  /\ UNCHANGED <<registered, running, todo, walks, busy, unwinding, largest, fault, drops, outside>>
=============================================================================
