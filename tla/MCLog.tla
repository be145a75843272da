------------------------------- MODULE MCLog -------------------------------
(* Log for TLC: processes, blocks and contents are interchangeable. *)
EXTENDS Log, TLC

Symmetry == Permutations(Procs) \cup Permutations(Blocks) \cup Permutations(Vals)
=============================================================================
