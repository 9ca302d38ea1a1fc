---------------------------- MODULE MCCollections ----------------------------
(***************************************************************************)
(* Small instances of Collections: values whose drop does not panic are    *)
(* interchangeable.                                                        *)
(***************************************************************************)
EXTENDS Collections

Symmetry == Permutations(Value \ MayPanic)
=============================================================================
