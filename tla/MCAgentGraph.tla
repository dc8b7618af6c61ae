---------------------------- MODULE MCAgentGraph ----------------------------
(* Small instances of AgentGraph, and inputs of RagSearch, for TLC.        *)
EXTENDS AgentGraph, RagSearch, TLC

Symmetry == Permutations(Targets)

(* Every order of some of the members of a set.                            *)
Orders(S) == UNION {{f \in [1..n -> S] : IsInjective(f)} : n \in 0..Cardinality(S)}

(* n chunks of two documents; of those at one distance or with one score   *)
(* the lower id comes first, so the ids may run with or against distance.  *)
Corpus(n, queries) ==
    [vector : {[i \in 1..n |-> i], [i \in 1..n |-> n + 1 - i]}, similar : 0..n,
     queries : queries, documentOf : {[c \in 1..n |-> c % 2]}]

(* Five chunks and a query, more than the candidates of one result; three  *)
(* chunks and two queries.                                                 *)
MCCorpora == Corpus(5, {<<q>> : q \in Orders(1..5)})
                 \cup Corpus(3, Orders(1..3) \X Orders(1..3))

MCTokenLists == UNION {[1..n -> {0, 600, 1700, 3200}] : n \in 0..5}

(* What RagSearch says of all its inputs is looked at once: before the run. *)
BeforeTheRun == node = "supervisor"

(* README.md:577-583: however vector and keyword candidates displace each  *)
(* other, a search returns as many results as it was asked for if so many  *)
(* relevant chunks are among them: four times as many candidates as        *)
(* results are enough.                                                     *)
FullSearches == BeforeTheRun => Unfilled = {}

(* README.md:247-250: a search that found something is answered from it,   *)
(* with all that fits: within the budget, unless the best result alone     *)
(* exceeds it, and no result left out would still have fit.                *)
FittingContexts == BeforeTheRun => BadlyFilled = {}
=============================================================================
