--------------------------- MODULE MCBufferCache ---------------------------
(* Instances of BufferCache for TLC. *)
EXTENDS BufferCache, TLC

Symmetry == Permutations(Procs) \cup Permutations(Blocks) \cup Permutations(Val)
=============================================================================
