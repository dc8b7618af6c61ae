-------------------------- MODULE MCMutationTools --------------------------
(* Small instances of MutationTools for TLC.                               *)
EXTENDS MutationTools, TLC

CONSTANTS c1, c2, m1, m2

(* Two messages with a call each; one message with two calls.              *)
OneCallEach == (c1 :> m1) @@ (c2 :> m2)
OneCall     == c1 :> m1
OneMessage  == (c1 :> m1) @@ (c2 :> m1)

(* Runs of the node of each message.                                       *)
ThreeAndTwo == (m1 :> 3) @@ (m2 :> 2)
Three       == m1 :> 3
Four        == m1 :> 4
=============================================================================
