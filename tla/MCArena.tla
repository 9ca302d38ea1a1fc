------------------------------- MODULE MCArena -------------------------------
(***************************************************************************)
(* Small instances of Arena: two arenas, on one thread or on two.          *)
(***************************************************************************)
EXTENDS Arena

CONSTANTS A1, A2, T1, T2, I1

\* Both arenas on the first thread, or each on a thread of its own.
OneThread  == [a \in Arena |-> T1]
TwoThreads == [a \in Arena |-> IF a = A1 THEN T1 ELSE T2]

\* Items of the first arena may hold handles on the second, or on their own
\* arena, or on both while the second holds handles on the first, or no item
\* holds a handle.
Downward == {<<A1, A2>>}
Itself   == {<<A1, A1>>}
Mutual   == Downward \cup Itself \cup {<<A2, A1>>}
Nothing  == {}

FirstItem == {I1}

\* Blocks, items and handles are interchangeable: sound for the safety runs
\* without a panicking item.
Symmetry == Permutations(Block) \cup Permutations(Item) \cup Permutations(Handle)

\* With a panicking item only blocks and handles are.
SymmetryButItems == Permutations(Block) \cup Permutations(Handle)
=============================================================================
