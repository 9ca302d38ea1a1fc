------------------------------ MODULE BlockPool ------------------------------
(***************************************************************************)
(* What the shared block pool of src/src/memory.rs promises, without its   *)
(* lock, its queue or the loops that fill and trim it: every block that    *)
(* exists is either spare or held by exactly one client, a client only     *)
(* gets a block nobody else holds, the pool allocates only while it has    *)
(* fewer than maxFree spare blocks and gives memory back to the system     *)
(* only while it has more.                                                 *)
(***************************************************************************)
EXTENDS Integers, FiniteSets

CONSTANTS Block,    \* identities of the byte blocks the system can allocate
          Client    \* whoever takes blocks: a thread, or an arena

VARIABLES maxFree,  \* the spare blocks to keep, set when the pool is built
          spare,    \* the blocks waiting in the pool
          held      \* held[c]: the blocks client c has taken

poolVars == <<maxFree, spare, held>>

Held == UNION {held[c] : c \in Client}

\* Blocks that are not allocated now: the system may hand any of them out.
Unallocated == Block \ (spare \cup Held)

Init ==
  /\ maxFree \in Nat
  /\ spare \in SUBSET Block
  /\ Cardinality(spare) <= maxFree
  /\ held = [c \in Client |-> {}]

\* The pool allocates a block ahead of the calls that will need it.
Grow ==
  /\ Cardinality(spare) < maxFree
  /\ \E b \in Unallocated : spare' = spare \cup {b}
  /\ UNCHANGED <<maxFree, held>>

\* A client takes a block; the pool may first top itself up to maxFree.
Take(c) ==
  /\ \E fresh \in SUBSET Unallocated :
       /\ fresh # {} => Cardinality(spare \cup fresh) <= maxFree
       /\ \E b \in spare \cup fresh :
            /\ spare' = (spare \cup fresh) \ {b}
            /\ held' = [held EXCEPT ![c] = @ \cup {b}]
  /\ UNCHANGED maxFree

\* A client gives a block back.
Return(c) ==
  /\ \E b \in held[c] :
       /\ spare' = spare \cup {b}
       /\ held' = [held EXCEPT ![c] = @ \ {b}]
  /\ UNCHANGED maxFree

\* The pool frees a spare block it has in excess.
Shrink ==
  /\ Cardinality(spare) > maxFree
  /\ \E b \in spare : spare' = spare \ {b}
  /\ UNCHANGED <<maxFree, held>>

\* A client frees a block it holds instead of giving it back.
Discard(c) ==
  /\ \E b \in held[c] : held' = [held EXCEPT ![c] = @ \ {b}]
  /\ UNCHANGED <<maxFree, spare>>

\* The last handle on the pool is dropped, and the pool with it.
Destroy ==
  /\ Held = {}
  /\ spare' = {}
  /\ UNCHANGED <<maxFree, held>>

Next ==
  \/ Grow
  \/ Shrink
  \/ Destroy
  \/ \E c \in Client : Take(c) \/ Return(c) \/ Discard(c)

Spec == Init /\ [][Next]_poolVars
=============================================================================
