----------------------------- MODULE RagSearch -----------------------------
(***************************************************************************)
(* The search of the rag agent (rag-search.service.ts) and the part of its *)
(* results that the answer is made of (rag-answer.service.ts), as          *)
(* operators. A chunk is its id. A corpus says what PostgreSQL finds for a *)
(* question: the chunks of the user's READY documents by distance, of them *)
(* how many reach RAG_MIN_SIMILARITY, and the matches of every keyword     *)
(* query by score.                                                         *)
(***************************************************************************)
EXTENDS Naturals, Sequences, FiniteSets, SequencesExt

(* The inputs of a small instance.                                         *)
CONSTANTS
    Corpora,    \* what PostgreSQL may find
    Limits,     \* limits of a search
    TokenLists  \* token counts of the results of a search

RrfK             == 60
Multiplier       == 4      \* SEARCH_CANDIDATE_MULTIPLIER
PreferredChunks  == 2      \* MAX_PREFERRED_CHUNKS_PER_DOCUMENT
DefaultLimit     == 5
MaxLimit         == 10
ContextBudget    == 3000   \* RAG_ANSWER_CONTEXT_TOKEN_BUDGET
UnknownTokenCost == 1000   \* UNKNOWN_CHUNK_TOKEN_COST

(* A query finds a chunk once; a search has a limit that normalizeLimit    *)
(* returns.                                                                *)
ASSUME SearchAssumption ==
    /\ Limits \subseteq 1..MaxLimit /\ TokenLists \subseteq Seq(Nat)
    /\ \A corpus \in Corpora :
          /\ corpus.vector \in Seq(Nat) /\ IsInjective(corpus.vector)
          /\ corpus.queries \in Seq(Seq(Nat)) /\ corpus.similar \in Nat

Least(m, n)   == IF m < n THEN m ELSE n
FirstOf(s, n) == SubSeq(s, 1, Least(n, Len(s)))

(* What a sequence has at some of its places, in order.                    *)
AtPlaces(s, places) ==
    LET place == [k \in 1..Cardinality(places) |->
                     CHOOSE i \in places : Cardinality({j \in places : j < i}) = k - 1]
    IN [k \in DOMAIN place |-> s[place[k]]]

NormalizeLimit(limit) == IF limit < 1 THEN DefaultLimit ELSE Least(limit, MaxLimit)

-----------------------------------------------------------------------------
(* Reciprocal rank fusion. A score is a fraction.                          *)

Share(rank)  == [num |-> 1, den |-> RrfK + rank]
Plus(x, y)   == [num |-> x.num * y.den + y.num * x.den, den |-> x.den * y.den]
Above(x, y)  == x.num * y.den > y.num * x.den

Rank(list, c) == CHOOSE i \in DOMAIN list : list[i] = c

RrfScore(lists, c) ==
    FoldLeft(LAMBDA x, list : IF Contains(list, c) THEN Plus(x, Share(Rank(list, c))) ELSE x,
             [num |-> 0, den |-> 1], lists)

(* Equal scores are ordered by id (those of keywords by score first).      *)
Fused(lists, n) ==
    LET all   == UNION {ToSet(lists[i]) : i \in DOMAIN lists}
        score == [c \in all |-> RrfScore(lists, c)]
        Before(c, d) == \/ Above(score[c], score[d])
                        \/ ~Above(score[d], score[c]) /\ c < d
        position == [c \in all |-> 1 + Cardinality({d \in all : Before(d, c)})]
    IN FirstOf([p \in 1..Cardinality(all) |-> CHOOSE c \in all : position[c] = p], n)

(* Variant: no more candidates than results.                               *)
CandidatesAsResults(limit) == limit

CandidateLimit(limit) == limit * Multiplier

Vectors(corpus, limit) == FirstOf(corpus.vector, CandidateLimit(limit))
Keywords(corpus, limit) ==
    LET n == CandidateLimit(limit)
    IN Fused([q \in DOMAIN corpus.queries |-> FirstOf(corpus.queries[q], n)], n)
Candidates(corpus, keywords, limit) ==
    Fused(<<Vectors(corpus, limit), keywords>>, CandidateLimit(limit))

-----------------------------------------------------------------------------
(* selectDiverseResults: of a document two chunks are preferred, more of   *)
(* them only fill up what is left of the limit.                            *)

Preferred(results, documentOf, i) ==
    Cardinality({j \in 1..i - 1 : documentOf[results[j]] = documentOf[results[i]]})
        < PreferredChunks

InOrder(results, documentOf, preferred) ==
    AtPlaces(results,
             {i \in DOMAIN results : Preferred(results, documentOf, i) = preferred})

SelectDiverseResults(results, documentOf, limit) ==
    FirstOf(InOrder(results, documentOf, TRUE) \o InOrder(results, documentOf, FALSE), limit)

Relevant(corpus, keywords, c) ==
    Contains(keywords, c) \/ Rank(corpus.vector, c) <= corpus.similar

Search(corpus, limit) ==
    LET n == NormalizeLimit(limit)
        keywords == Keywords(corpus, n)
        candidates == Candidates(corpus, keywords, n)
        relevant == {i \in DOMAIN candidates : Relevant(corpus, keywords, candidates[i])}
    IN SelectDiverseResults(AtPlaces(candidates, relevant), corpus.documentOf, n)

-----------------------------------------------------------------------------
(* selectContextResults: tokens is a token count for every result, 0 for   *)
(* one that is not known. What does not fit is passed over.                *)

Cost(count) == IF count = 0 THEN UnknownTokenCost ELSE count

NoContext == [taken |-> <<>>, used |-> 0]

Extended(context, i, cost) ==
    [taken |-> Append(context.taken, i), used |-> context.used + cost]

(* Variant: the best result, too, has to fit.                              *)
AddStrictly(context, i, cost) ==
    IF context.used + cost > ContextBudget THEN context ELSE Extended(context, i, cost)

AddToContext(context, i, cost) ==
    IF \/ context.used >= ContextBudget
       \/ context.taken # <<>> /\ context.used + cost > ContextBudget
    THEN context ELSE Extended(context, i, cost)

SelectContextResults(tokens) ==
    FoldLeft(LAMBDA context, i : AddToContext(context, i, Cost(tokens[i])),
             NoContext, [i \in DOMAIN tokens |-> i])

-----------------------------------------------------------------------------
(* What must not be found among the inputs.                                *)

(* Searches with fewer results than asked for, although so many relevant   *)
(* chunks are among the vector and keyword candidates.                     *)
Unfilled ==
    {x \in [corpus : Corpora, limit : Limits] :
        LET keywords == Keywords(x.corpus, x.limit)
            found == ToSet(Vectors(x.corpus, x.limit)) \cup ToSet(keywords)
        IN Len(Search(x.corpus, x.limit)) #
               Least(x.limit, Cardinality({c \in found : Relevant(x.corpus, keywords, c)}))}

(* Results of which the answer gets nothing, not the best, more than the   *)
(* budget, or less than what would fit.                                    *)
BadlyFilled ==
    {tokens \in TokenLists \ {<<>>} :
        LET context == SelectContextResults(tokens) IN
        \/ context.taken = <<>> \/ context.taken[1] # 1
        \/ context.used > ContextBudget /\ Len(context.taken) > 1
        \/ \E i \in DOMAIN tokens \ ToSet(context.taken) :
               context.used + Cost(tokens[i]) <= ContextBudget}
=============================================================================
