---------------------------- MODULE MCBufferCache ----------------------------
(***************************************************************************)
(* Instances of BufferCache for TLC.                                       *)
(***************************************************************************)
EXTENDS BufferCache, TLC

CONSTANTS b1, b2, b3, p1, p2

Symmetry == Permutations(Blocks) \cup Permutations(Procs)
=============================================================================
