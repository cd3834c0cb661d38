------------------------------- MODULE MCLog -------------------------------
(* Log for TLC: two or three processes, blocks interchangeable. *)
EXTENDS Log, TLC

Symmetry == Permutations(Blocks) \cup Permutations(Procs)
=============================================================================
