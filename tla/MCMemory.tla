------------------------------- MODULE MCMemory -------------------------------
(***************************************************************************)
(* Small instances of the block pool.                                      *)
(***************************************************************************)
EXTENDS Memory

\* Every order of min and max, and the settings with a zero.
AllSettings == [min : {0, 1, 2}, max : {0, 1, 2}]
=============================================================================
