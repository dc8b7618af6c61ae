----------------------------- MODULE AgentGraph -----------------------------
(***************************************************************************)
(* One run of the agent graph (agent-graph.factory.ts, agent-route.util    *)
(* .ts): a supervisor splits the request into assignments, the agent of    *)
(* each calls tools in rounds, and the edges decide what a message of the  *)
(* model leads to. The model may answer anything its tools allow.          *)
(*                                                                         *)
(* A step is a node, the unit that the checkpointer saves and a retry runs *)
(* again; MutationTools says what that means for the tools. The domain     *)
(* expense stands for schedule too (memory has no search rule), and update *)
(* for its changes and deletions, each with one set of values: a signature *)
(* is the id of the target.                                                *)
(***************************************************************************)
EXTENDS Naturals, Sequences, FiniteSets

CONSTANTS
    Targets,         \* ids of the data that the user may mean
    MaxRounds,       \* MAX_ACTION_TOOL_ROUNDS (5)
    MaxAssignments,  \* assignments of a decision (3)
    MaxCalls,        \* bound on the tool calls of a message
    MaxSearches      \* bound on the searches for a target in a turn

ASSUME GraphAssumption ==
    /\ MaxRounds \in Nat /\ MaxCalls \in Nat /\ MaxSearches \in Nat
    /\ MaxAssignments \in Nat \ {0}

VARIABLES
    node,         \* the node that runs next
    assignments,  \* agentAssignments
    index,        \* agentDomainIndex, counted from 1
    rounds,       \* actionToolRoundCount
    executed,     \* executedMutationSignatures
    latest,       \* latest search result of the turn
    calls,        \* tool calls of the last message
    results,      \* agentResults: the assignments whose result is kept
    told,         \* assignments whose result is in the answer the user reads
    cited,        \* ragCitations: the assignments whose documents it cites
    searches,     \* history: searches of the turn
    offered,      \* history: what searches with several results found in the turn
    single,       \* history: what a search found alone in the turn
    guesses,      \* history: updates of candidates without the user's choice
    times         \* history: rounds that executed a signature, 2 for more

vars == <<node, assignments, index, rounds, executed, latest, calls, results, told, cited,
          searches, offered, single, guesses, times>>

Domains    == {"expense", "rag", "general"}
Assignment == [domain : Domains, targets : SUBSET Targets, multiple : BOOLEAN]
General    == [domain |-> "general", targets |-> {}, multiple |-> FALSE]

(* A decision the schema accepts; only updates look at targets.            *)
Decisions ==
    {d \in UNION {[1..n -> Assignment] : n \in 1..MaxAssignments} :
        \A i \in DOMAIN d : d[i].domain # "expense" => d[i].targets = {} /\ ~d[i].multiple}

Call    == [tool : {"find", "read", "rag"}, target : {0}] \cup [tool : {"update"}, target : Targets]
NoFind  == [known |-> FALSE, found |-> {}]
Current == assignments[index]
HasNext == index < Len(assignments)

Init ==
    /\ node = "supervisor" /\ assignments = <<General>> /\ index = 1
    /\ rounds = 0 /\ executed = {} /\ latest = NoFind /\ calls = <<>>
    /\ results = {} /\ told = {} /\ cited = {}
    /\ searches = 0 /\ offered = {} /\ single = {} /\ guesses = {} /\ times = [t \in Targets |-> 0]

-----------------------------------------------------------------------------
(* The general agent takes the whole request or no part of it; it also     *)
(* takes what cannot be classified.                                        *)
Supervisor ==
    /\ node = "supervisor"
    /\ \/ \E d \in Decisions :
            assignments' = IF Len(d) > 1 /\ \E i \in DOMAIN d : d[i].domain = "general"
                           THEN <<General>> ELSE d
       \/ assignments' = <<General>>
    /\ node' = "callModel"
    /\ UNCHANGED <<index, rounds, executed, latest, calls, results, told, cited,
                   searches, offered, single, guesses, times>>

-----------------------------------------------------------------------------
(* routeAfterModel and routeAgentToolCalls.                                *)

Each(cs)       == {cs[i] : i \in DOMAIN cs}
Updates(cs)    == {c.target : c \in {d \in Each(cs) : d.tool = "update"}}
Finds(cs)      == {i \in DOMAIN cs : cs[i].tool = "find"}
IsRag(cs)      == \E c \in Each(cs) : c.tool = "rag"
Signatures(cs) == Updates(cs)

Chosen(t, candidates) ==
    t \in Current.targets \/ (Current.multiple /\ t \in candidates)

Ambiguous(cs) ==
    /\ latest.known /\ Cardinality(latest.found) > 1
    /\ \E t \in Updates(cs) : ~Chosen(t, latest.found)

RouteTools(cs, limit) ==
    CASE ~IsRag(cs) /\ Signatures(cs) \cap executed # {} -> "rejectDuplicateMutation"
      [] ~IsRag(cs) /\ Signatures(cs) \cap executed = {} /\ rounds >= limit
           -> "rejectToolLimit"
      [] ~IsRag(cs) /\ Signatures(cs) \cap executed = {} /\ rounds < limit -> "tools"
      [] IsRag(cs) /\ Len(cs) = 1 -> "ragAnswer"
      [] IsRag(cs) /\ Len(cs) > 1 -> "rejectRagCombination"

(* Variants: candidates are not compared; the last domain is not awaited;  *)
(* the limit is passed by one.                                             *)
RouteUnasked(cs) ==
    CASE cs = <<>> -> IF HasNext THEN "advanceDomain" ELSE "end"
      [] cs # <<>> -> RouteTools(cs, MaxRounds)
RouteOnceMore(cs) ==
    CASE Ambiguous(cs) -> "rejectAmbiguousTarget"
      [] ~Ambiguous(cs) /\ cs = <<>> -> IF HasNext THEN "advanceDomain" ELSE "end"
      [] ~Ambiguous(cs) /\ cs # <<>> -> RouteTools(cs, MaxRounds + 1)

Route(cs) ==
    CASE Ambiguous(cs) -> "rejectAmbiguousTarget"
      [] ~Ambiguous(cs) /\ cs = <<>> -> IF HasNext THEN "advanceDomain" ELSE "end"
      [] ~Ambiguous(cs) /\ cs # <<>> -> RouteTools(cs, MaxRounds)

(* What the model of a domain may call: bindTools and, for rag, the forced *)
(* tool_choice.                                                            *)
Callable ==
    LET tools == CASE Current.domain = "expense" -> {"find", "read", "update"}
                   [] Current.domain = "rag"     -> {"rag"}
                   [] Current.domain = "general" -> {"read"}
    IN {c \in Call : c.tool \in tools}

(* Without calls the message is the result of the assignment; the agent of *)
(* the last one puts the earlier results into its answer.                  *)
CallModel ==
    /\ node = "callModel"
    /\ \E n \in (IF Current.domain = "rag" THEN 1 ELSE 0)..MaxCalls :
       \E cs \in [1..n -> Callable] :
            /\ searches + Cardinality(Finds(cs)) <= MaxSearches
            /\ calls' = cs
            /\ node' = Route(cs)
            /\ told' = IF cs = <<>> /\ ~HasNext THEN results \cup {index} ELSE told
    /\ UNCHANGED <<assignments, index, rounds, executed, latest, results, cited,
                   searches, offered, single, guesses, times>>

(* A new turn begins.                                                      *)
AdvanceDomain ==
    /\ node = "advanceDomain"
    /\ results' = results \cup {index}
    /\ index' = index + 1
    /\ rounds' = 0
    /\ latest' = NoFind /\ searches' = 0 /\ offered' = {} /\ single' = {}
    /\ node' = "callModel"
    /\ UNCHANGED <<assignments, executed, calls, told, cited, guesses, times>>

-----------------------------------------------------------------------------
(* Every call of the message runs. A search finds some of the data, or its *)
(* content is an error, which hides the search before it. Of two updates   *)
(* at least one must find its row gone, or the run fails.                  *)

Found == {[known |-> TRUE, found |-> f] : f \in SUBSET Targets} \cup {NoFind}

RunCalls(signatures) ==
    /\ node = "tools"
    /\ rounds' = rounds + 1
    /\ executed' = signatures
    /\ times' = [t \in Targets |-> IF t \in Signatures(calls) /\ times[t] < 2
                                     THEN times[t] + 1 ELSE times[t]]
    /\ \E fs \in [Finds(calls) -> Found] :
         LET sets == {fs[i].found : i \in Finds(calls)}
         IN /\ \/ Finds(calls) = {} /\ UNCHANGED latest
               \/ \E last \in Finds(calls) :
                    (\A j \in Finds(calls) : j <= last) /\ latest' = fs[last]
            /\ offered' = offered \cup UNION {f \in sets : Cardinality(f) > 1}
            /\ single' = single \cup UNION {f \in sets : Cardinality(f) = 1}
    /\ searches' = searches + Cardinality(Finds(calls))
    /\ guesses' = guesses \cup
           {[target |-> t, searches |-> searches] :
                t \in {u \in Updates(calls) \cap offered :
                            u \notin single /\ ~Chosen(u, offered)}}
    /\ node' = "callModel"
    /\ UNCHANGED <<assignments, index, calls, results, told, cited>>

(* Variant: only the signatures of the last round are kept.                *)
ToolsLastRound == RunCalls(Signatures(calls))

Tools == RunCalls(executed \cup Signatures(calls))

(* Two approvals are asked for at once: the run fails, and its retry, which *)
(* finds an interrupt (agent.service.ts:319, 403).                         *)
ToolsFail ==
    /\ node = "tools"
    /\ Cardinality({i \in DOMAIN calls : calls[i].tool = "update"}) > 1
    /\ node' = "failed"
    /\ UNCHANGED <<assignments, index, rounds, executed, latest, calls, results, told, cited,
                   searches, offered, single, guesses, times>>

(* The answer is made of the documents alone, and streamed in the last     *)
(* domain only. Its citations replace earlier ones; a search that found    *)
(* nothing has a fixed answer without any (see RagSearch).                 *)
AnswerFromDocuments(citations) ==
    /\ node = "ragAnswer"
    /\ node' = IF HasNext THEN "advanceDomain" ELSE "end"
    /\ told' = IF HasNext THEN told ELSE {index}
    /\ cited' = citations
    /\ UNCHANGED <<assignments, index, rounds, executed, latest, calls, results,
                   searches, offered, single, guesses, times>>

(* Variant: citations are collected.                                       *)
RagAnswerCollects == \E found \in {{}, {index}} : AnswerFromDocuments(cited \cup found)

RagAnswer == \E found \in {{}, {index}} : AnswerFromDocuments(found)

RejectRagCombination ==
    /\ node = "rejectRagCombination"
    /\ node' = "callModel"
    /\ UNCHANGED <<assignments, index, rounds, executed, latest, calls, results, told, cited,
                   searches, offered, single, guesses, times>>

Rejections == {"rejectToolLimit", "rejectDuplicateMutation", "rejectAmbiguousTarget"}

(* The run ends with the message of the node.                              *)
Reject ==
    /\ node \in Rejections
    /\ node' = "rejected"
    /\ UNCHANGED <<assignments, index, rounds, executed, latest, calls, results, told, cited,
                   searches, offered, single, guesses, times>>

Next ==
    \/ Supervisor \/ CallModel \/ AdvanceDomain \/ Tools \/ ToolsFail
    \/ RagAnswer \/ RejectRagCombination \/ Reject

Spec == Init /\ [][Next]_vars

-----------------------------------------------------------------------------
(* Properties.                                                             *)

(* Every variable has its type; no domain has more rounds than allowed.    *)
TypeOK ==
    /\ node \in {"supervisor", "callModel", "advanceDomain", "tools", "ragAnswer",
                 "rejectRagCombination", "end", "rejected", "failed"} \cup Rejections
    /\ assignments \in Decisions /\ index \in DOMAIN assignments
    /\ rounds \in 0..MaxRounds
    /\ executed \subseteq Targets /\ times \in [Targets -> 0..2]
    /\ latest \in Found
    /\ DOMAIN calls \subseteq 1..MaxCalls /\ Each(calls) \subseteq Call
    /\ results \subseteq DOMAIN assignments /\ told \subseteq DOMAIN assignments
    /\ cited \subseteq DOMAIN assignments
    /\ searches \in 0..MaxSearches
    /\ offered \subseteq Targets /\ single \subseteq Targets
    /\ guesses \subseteq [target : Targets, searches : 0..MaxSearches]

(* README.md:66: of the candidates of a search none is changed, unless     *)
(* another search found it alone, the user named it or meant all of them.  *)
(* NoGuess holds of turns that searched once; a second search hides the    *)
(* candidates of the first.                                                *)
NoGuess    == \A g \in guesses : g.searches > 1
NeverGuess == guesses = {}

(* README.md:200: a change that the run has made, or asked for, is not     *)
(* made again in a later round, whatever domains lie between.              *)
NoRepeat == \A t \in Targets : times[t] <= 1

(* README.md:259-261: the documents cited below an answer are those of an  *)
(* assignment whose result is in it.                                       *)
CitesWhatItTells == node = "end" => cited \subseteq told

(* The prompt of the last agent (agent-graph.factory.ts:903): its answer   *)
(* reports the results of the earlier agents together with its own.        *)
ResultsTold == node = "end" => told = DOMAIN assignments
=============================================================================
