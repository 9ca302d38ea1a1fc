----------------------------- MODULE MCPlacement -----------------------------
(***************************************************************************)
(* Small instances of Placement: the header has the 24 bytes it has on a   *)
(* 64-bit machine, blocks are just large enough for a few values.          *)
(***************************************************************************)
EXTENDS Placement

\* Types of the usual alignments and of the 16 bytes SIMD vectors have, a
\* zero-sized one and ones too big.
SomeValues == { [size |-> 0, align |-> 8], [size |-> 12, align |-> 4],
                [size |-> 40, align |-> 8], [size |-> 64, align |-> 8],
                [size |-> 16, align |-> 16], [size |-> 48, align |-> 16] }

\* Runs of bytes, of words and of vectors, one too long.
SomeArrays == { [count |-> 7, stride |-> 1, align |-> 1],
                [count |-> 0, stride |-> 8, align |-> 8],
                [count |-> 5, stride |-> 8, align |-> 8],
                [count |-> 9, stride |-> 8, align |-> 8],
                [count |-> 3, stride |-> 16, align |-> 16] }
=============================================================================
