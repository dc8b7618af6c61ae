--------------------------- MODULE MCRagDocument ---------------------------
(* Small instances of RagDocument for TLC.                                 *)
EXTENDS RagDocument, TLC

Symmetry == Permutations(Workers) \cup Permutations(Recoverers) \cup Permutations(Requests)
=============================================================================
