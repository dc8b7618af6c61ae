--------------------------- MODULE MCAuthSession ---------------------------
(* Small instances of AuthSession for TLC.                                 *)
EXTENDS AuthSession, TLC

Symmetry == Permutations(Browsers) \cup Permutations(TabIds) \cup Permutations(CallIds)
=============================================================================
