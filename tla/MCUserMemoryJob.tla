-------------------------- MODULE MCUserMemoryJob --------------------------
(* Small instances of UserMemoryJob for TLC.                               *)
EXTENDS UserMemoryJob, TLC

Symmetry == Permutations(Workers) \cup Permutations(Recoverers)
=============================================================================
