------------------------- MODULE AgentGraph_proofs -------------------------
(* Theorems about AgentGraph: for any data, limits and number of calls,    *)
(* and about RagSearch: for any corpora, limits and token counts.          *)
EXTENDS MCAgentGraph, FiniteSetTheorems, SequenceTheorems, WellFoundedInduction, TLAPS

USE GraphAssumption DEF Rejections

(***************************************************************************)
(* The inductive invariant.                                                *)
(***************************************************************************)
(* Where a node is reached from: only with another domain left, with a     *)
(* round left, and with calls that the edges let pass.                     *)
NodeInv ==
    /\ node = "supervisor" => index = 1 /\ results = {} /\ told = {} /\ cited = {}
    /\ node = "advanceDomain" => HasNext
    /\ node = "tools" =>
          /\ rounds < MaxRounds
          /\ searches + Cardinality(Finds(calls)) <= MaxSearches
          /\ ~Ambiguous(calls)
          /\ Signatures(calls) \cap executed = {}

ExecutedInv == NoRepeat /\ \A t \in Targets : times[t] # 0 => t \in executed

(* A turn that has searched once has its candidates before it.             *)
SearchInv ==
    /\ NoGuess
    /\ searches = 0 => offered = {}
    /\ searches = 1 /\ offered # {} =>
          latest.known /\ Cardinality(latest.found) > 1 /\ offered = latest.found

CitedInv ==
    /\ node \notin {"advanceDomain", "end"} => cited \subseteq results
    /\ node = "advanceDomain" => cited \subseteq results \cup {index}
    /\ CitesWhatItTells

Inv == TypeOK /\ NodeInv /\ ExecutedInv /\ SearchInv /\ CitedInv

LEMMA DecisionTypes ==
    ASSUME NEW d \in Decisions
    PROVE  /\ Len(d) \in 1..MaxAssignments
           /\ DOMAIN d = 1..Len(d)
           /\ \A i \in DOMAIN d : d[i] \in Assignment
<1>1. PICK n \in 1..MaxAssignments : d \in [1..n -> Assignment]
  BY DEF Decisions
<1>2. n \in Nat /\ d \in Seq(Assignment)
  BY <1>1, SeqDef
<1>3. Len(d) \in Nat /\ DOMAIN d = 1..Len(d)
  BY <1>2, LenProperties
<1>4. Len(d) = n
  BY <1>1, <1>2, <1>3
<1> QED BY <1>1, <1>3, <1>4

LEMMA GeneralAlone == <<General>> \in Decisions /\ Len(<<General>>) = 1
<1>1. General \in Assignment /\ General.targets = {} /\ General.multiple = FALSE
  BY DEF General, Assignment, Domains
<1>2. <<General>> \in [1..1 -> Assignment]
  BY <1>1
<1>3. \A i \in DOMAIN <<General>> : <<General>>[i] = General
  OBVIOUS
<1> QED BY <1>1, <1>2, <1>3 DEF Decisions

(* What the types say of the current assignment and of the calls.          *)
LEMMA CurrentTypes ==
    ASSUME TypeOK
    PROVE  /\ index \in Nat /\ DOMAIN assignments = 1..Len(assignments)
           /\ Len(assignments) \in Nat
           /\ Current \in Assignment
BY DecisionTypes DEF TypeOK, Current

LEMMA FindsFinite ==
    ASSUME NEW cs, DOMAIN cs \subseteq 1..MaxCalls
    PROVE  IsFiniteSet(Finds(cs)) /\ Cardinality(Finds(cs)) \in Nat
<1>1. IsFiniteSet(1..MaxCalls)
  BY FS_Interval
<1>2. Finds(cs) \subseteq 1..MaxCalls
  BY DEF Finds
<1> QED BY <1>1, <1>2, FS_Subset, FS_CardinalityType

LEMMA InitInv == Init => Inv
<1> SUFFICES ASSUME Init PROVE Inv
  OBVIOUS
<1>1. assignments \in Decisions /\ index \in DOMAIN assignments
  BY GeneralAlone DEF Init
<1>2. TypeOK
  BY <1>1 DEF Init, TypeOK, Found, Each
<1>3. ExecutedInv
  BY DEF Init, ExecutedInv, NoRepeat
<1> QED BY <1>2, <1>3 DEF Init, Inv, NodeInv, SearchInv, NoGuess, CitedInv, CitesWhatItTells

(***************************************************************************)
(* The steps.                                                              *)
(***************************************************************************)
LEMMA SupervisorInv == ASSUME Inv, Supervisor PROVE Inv'
<1> USE DEF Inv
<1>1. assignments' \in Decisions
  BY GeneralAlone DEF Supervisor
<1>2. index' \in DOMAIN assignments'
  BY <1>1, DecisionTypes DEF Supervisor, NodeInv
<1>3. results' = {} /\ told' = {} /\ cited' = {} /\ node' = "callModel"
  BY DEF Supervisor, NodeInv
<1>4. TypeOK'
  BY <1>1, <1>2, <1>3 DEF Supervisor, TypeOK
<1> QED BY <1>3, <1>4
  DEF Supervisor, NodeInv, ExecutedInv, NoRepeat, SearchInv, NoGuess, CitedInv, CitesWhatItTells

(* Where the edges lead.                                                   *)
LEMMA RouteTypes ==
    ASSUME TypeOK, NEW n \in 0..MaxCalls, NEW cs \in [1..n -> Callable]
    PROVE  /\ Route(cs) \in {"advanceDomain", "end", "tools", "ragAnswer", "rejectRagCombination"}
                            \cup Rejections
           /\ Route(cs) = "advanceDomain" => HasNext
           /\ Route(cs) = "end" => cs = <<>> /\ ~HasNext
           /\ Route(cs) = "tools" =>
                 rounds < MaxRounds /\ ~Ambiguous(cs) /\ Signatures(cs) \cap executed = {}
<1>1. CASE Ambiguous(cs)
  BY <1>1 DEF Route
<1>2. CASE ~Ambiguous(cs) /\ cs = <<>>
  BY <1>2 DEF Route
<1>3. CASE ~Ambiguous(cs) /\ cs # <<>>
  <2>1. Route(cs) = RouteTools(cs, MaxRounds)
    BY <1>3 DEF Route
  <2>2. n \in Nat /\ cs \in Seq(Callable) /\ Len(cs) \in Nat
    BY SeqDef, LenProperties
  <2>3. Len(cs) >= 1
    BY <1>3, <2>2, EmptySeq, LenProperties
  <2>4. CASE IsRag(cs)
    <3>1. RouteTools(cs, MaxRounds) \in {"ragAnswer", "rejectRagCombination"}
      BY <2>2, <2>3, <2>4 DEF RouteTools
    <3> QED BY <1>3, <2>1, <3>1
  <2>5. CASE ~IsRag(cs)
    BY <1>3, <2>1, <2>5 DEF RouteTools, TypeOK
  <2> QED BY <2>4, <2>5
<1> QED BY <1>1, <1>2, <1>3

LEMMA CallModelInv == ASSUME Inv, CallModel PROVE Inv'
<1> USE DEF Inv
<1>1. PICK n \in 0..MaxCalls : \E cs \in [1..n -> Callable] :
            /\ searches + Cardinality(Finds(cs)) <= MaxSearches
            /\ calls' = cs
            /\ node' = Route(cs)
            /\ told' = IF cs = <<>> /\ ~HasNext THEN results \cup {index} ELSE told
  BY DEF CallModel
<1>2. PICK cs \in [1..n -> Callable] :
            /\ searches + Cardinality(Finds(cs)) <= MaxSearches
            /\ calls' = cs
            /\ node' = Route(cs)
            /\ told' = IF cs = <<>> /\ ~HasNext THEN results \cup {index} ELSE told
  BY <1>1
<1>3. UNCHANGED <<assignments, index, rounds, executed, latest, results, cited,
                  searches, offered, single, guesses, times>>
  BY DEF CallModel
<1>4. DOMAIN calls' \subseteq 1..MaxCalls /\ Each(calls') \subseteq Call
  BY <1>2 DEF Each, Callable
<1>5. TypeOK'
  BY <1>2, <1>3, <1>4, RouteTypes DEF TypeOK
<1>6. NodeInv'
  <2>1. Ambiguous(calls)' <=> Ambiguous(cs)
    BY <1>2, <1>3 DEF Ambiguous, Chosen, Current
  <2> QED BY <1>2, <1>3, <2>1, RouteTypes DEF NodeInv, HasNext, Signatures
<1>7. CitedInv'
  <2>1. node = "callModel"
    BY DEF CallModel
  <2>2. cited \subseteq results
    BY <2>1 DEF CitedInv
  <2> QED BY <1>2, <1>3, <2>2, RouteTypes DEF CitedInv, CitesWhatItTells
<1> QED BY <1>3, <1>5, <1>6, <1>7 DEF ExecutedInv, NoRepeat, SearchInv, NoGuess

LEMMA AdvanceDomainInv == ASSUME Inv, AdvanceDomain PROVE Inv'
<1> USE DEF Inv
<1>1. HasNext /\ cited \subseteq results \cup {index}
  BY DEF AdvanceDomain, NodeInv, CitedInv
<1>2. index + 1 \in DOMAIN assignments
  BY <1>1, CurrentTypes DEF HasNext, TypeOK
<1>3. TypeOK'
  BY <1>2 DEF AdvanceDomain, TypeOK, Found
<1> QED BY <1>1, <1>3
  DEF AdvanceDomain, NodeInv, ExecutedInv, NoRepeat, SearchInv, NoGuess, CitedInv, CitesWhatItTells

(* What the searches of a message put before the model.                    *)
LEMMA Searched ==
    ASSUME TypeOK, SearchInv, Tools,
           searches + Cardinality(Finds(calls)) = 1
    PROVE  offered' # {} => /\ latest'.known /\ Cardinality(latest'.found) > 1
                            /\ offered' = latest'.found
<1>1. PICK fs \in [Finds(calls) -> Found] :
         LET sets == {fs[i].found : i \in Finds(calls)}
         IN /\ \/ Finds(calls) = {} /\ UNCHANGED latest
               \/ \E last \in Finds(calls) :
                    (\A j \in Finds(calls) : j <= last) /\ latest' = fs[last]
            /\ offered' = offered \cup UNION {f \in sets : Cardinality(f) > 1}
  BY DEF Tools, RunCalls
<1>2. IsFiniteSet(Finds(calls)) /\ Cardinality(Finds(calls)) \in Nat /\ searches \in Nat
  BY FindsFinite DEF TypeOK
<1>3. CASE Cardinality(Finds(calls)) = 0
  <2>1. Finds(calls) = {}
    BY <1>2, <1>3, FS_EmptySet
  <2>2. latest' = latest /\ offered' = offered
    BY <1>1, <2>1
  <2> QED BY <1>2, <1>3, <2>2 DEF SearchInv
<1>4. CASE Cardinality(Finds(calls)) = 1
  <2>1. PICK i : Finds(calls) = {i}
    BY <1>2, <1>4, FS_Singleton
  <2>2. latest' = fs[i]
    BY <1>1, <2>1
  <2>3. latest' = fs[i] /\ fs[i] \in Found
    BY <2>1, <2>2
  <2>4. searches = 0 /\ offered = {}
    BY <1>2, <1>4 DEF SearchInv
  <2>5. offered' = UNION {f \in {fs[i].found} : Cardinality(f) > 1}
    BY <1>1, <2>1, <2>4
  <2>6. CASE Cardinality(fs[i].found) > 1
    <3>1. offered' = fs[i].found
      BY <2>5, <2>6
    <3>2. fs[i] # NoFind
      <4>1. Cardinality({}) = 0
        BY FS_EmptySet
      <4> QED BY <2>6, <4>1 DEF NoFind
    <3> QED BY <2>3, <2>6, <3>1, <3>2 DEF Found
  <2>7. CASE ~(Cardinality(fs[i].found) > 1)
    BY <2>5, <2>7
  <2> QED BY <2>6, <2>7
<1> QED BY <1>2, <1>3, <1>4

LEMMA ToolsInv == ASSUME Inv, Tools PROVE Inv'
<1> USE DEF Inv
<1>1. /\ rounds < MaxRounds /\ searches + Cardinality(Finds(calls)) <= MaxSearches
      /\ ~Ambiguous(calls) /\ Signatures(calls) \cap executed = {}
  BY DEF Tools, RunCalls, NodeInv
<1>2. Cardinality(Finds(calls)) \in Nat /\ searches \in Nat
  BY FindsFinite DEF TypeOK
<1>3. Updates(calls) \subseteq Targets
  BY DEF TypeOK, Updates, Call
<1>4. PICK fs \in [Finds(calls) -> Found] :
         LET sets == {fs[i].found : i \in Finds(calls)}
         IN /\ \/ Finds(calls) = {} /\ UNCHANGED latest
               \/ \E last \in Finds(calls) :
                    (\A j \in Finds(calls) : j <= last) /\ latest' = fs[last]
            /\ offered' = offered \cup UNION {f \in sets : Cardinality(f) > 1}
            /\ single' = single \cup UNION {f \in sets : Cardinality(f) = 1}
  BY DEF Tools, RunCalls
<1>5. latest' \in Found /\ offered' \subseteq Targets /\ single' \subseteq Targets
  <2>1. \A i \in Finds(calls) : fs[i].found \subseteq Targets
    BY DEF Found, NoFind
  <2>2. latest' \in Found
    BY <1>4 DEF TypeOK
  <2> QED BY <1>4, <2>1, <2>2 DEF TypeOK
<1>6. TypeOK'
  <2>1. rounds + 1 \in 0..MaxRounds /\ searches + Cardinality(Finds(calls)) \in 0..MaxSearches
    BY <1>1, <1>2 DEF TypeOK
  <2>2. times' \in [Targets -> 0..2]
    BY DEF Tools, RunCalls, TypeOK
  <2>3. guesses' \subseteq [target : Targets, searches : 0..MaxSearches]
    BY <1>3 DEF Tools, RunCalls, TypeOK
  <2>4. executed' \subseteq Targets
    BY <1>3 DEF Tools, RunCalls, TypeOK, Signatures
  <2> QED BY <1>5, <2>1, <2>2, <2>3, <2>4 DEF Tools, RunCalls, TypeOK
<1>7. ExecutedInv'
  <2> SUFFICES ASSUME NEW t \in Targets PROVE times'[t] <= 1 /\ (times'[t] # 0 => t \in executed')
    BY DEF ExecutedInv, NoRepeat
  <2>1. times'[t] = IF t \in Signatures(calls) /\ times[t] < 2 THEN times[t] + 1 ELSE times[t]
    BY DEF Tools, RunCalls
  <2>2. executed' = executed \cup Signatures(calls)
    BY DEF Tools, RunCalls
  <2>3. t \in Signatures(calls) => times[t] = 0
    BY <1>1 DEF ExecutedInv
  <2> QED BY <2>1, <2>2, <2>3 DEF ExecutedInv, NoRepeat
<1>8. SearchInv'
  <2>1. \A g \in guesses' : g.searches > 1
    <3> SUFFICES ASSUME NEW t \in Updates(calls) \cap offered,
                        t \notin single, ~Chosen(t, offered)
                 PROVE  searches > 1
      BY DEF Tools, RunCalls, SearchInv, NoGuess
    <3>1. CASE searches = 0
      BY <3>1 DEF SearchInv
    <3>2. CASE searches = 1
      BY <1>1, <3>2 DEF SearchInv, Ambiguous
    <3> QED BY <1>2, <3>1, <3>2
  <2>2. searches' = 0 => offered' = {}
    <3>1. searches' = searches + Cardinality(Finds(calls))
      BY DEF Tools, RunCalls
    <3> SUFFICES ASSUME searches' = 0 PROVE offered' = {}
      OBVIOUS
    <3>2. searches = 0 /\ Cardinality(Finds(calls)) = 0
      BY <1>2, <3>1
    <3>3. Finds(calls) = {}
      BY <3>2, FindsFinite, FS_EmptySet DEF TypeOK
    <3> QED BY <1>4, <3>2, <3>3 DEF SearchInv
  <2>3. searches' = 1 /\ offered' # {} =>
            latest'.known /\ Cardinality(latest'.found) > 1 /\ offered' = latest'.found
    BY Searched DEF Tools, RunCalls
  <2> QED BY <2>1, <2>2, <2>3 DEF SearchInv, NoGuess
<1>9. CitedInv'
  BY DEF Tools, RunCalls, CitedInv, CitesWhatItTells
<1> QED BY <1>6, <1>7, <1>8, <1>9 DEF Tools, RunCalls, NodeInv

LEMMA RagAnswerInv == ASSUME Inv, RagAnswer PROVE Inv'
<1> USE DEF Inv
<1>1. PICK found \in {{}, {index}} : AnswerFromDocuments(found)
  BY DEF RagAnswer
<1>2. TypeOK'
  BY <1>1 DEF AnswerFromDocuments, TypeOK
<1>3. NodeInv'
  BY <1>1 DEF AnswerFromDocuments, NodeInv, HasNext
<1>4. CitedInv'
  BY <1>1 DEF AnswerFromDocuments, CitedInv, CitesWhatItTells
<1> QED BY <1>1, <1>2, <1>3, <1>4
  DEF AnswerFromDocuments, ExecutedInv, NoRepeat, SearchInv, NoGuess

LEMMA EndInv == ASSUME Inv, ToolsFail \/ RejectRagCombination \/ Reject PROVE Inv'
<1> USE DEF Inv
<1>1. TypeOK'
  BY DEF ToolsFail, RejectRagCombination, Reject, TypeOK
<1>2. CitedInv'
  BY DEF ToolsFail, RejectRagCombination, Reject, CitedInv, CitesWhatItTells
<1> QED BY <1>1, <1>2
  DEF ToolsFail, RejectRagCombination, Reject, NodeInv, ExecutedInv, NoRepeat, SearchInv, NoGuess

LEMMA NextInv == Inv /\ [Next]_vars => Inv'
<1> SUFFICES ASSUME Inv, [Next]_vars PROVE Inv'
  OBVIOUS
<1>1. CASE UNCHANGED vars
  BY <1>1 DEF vars, Inv, TypeOK, NodeInv, HasNext, Ambiguous, Chosen, Current,
              ExecutedInv, NoRepeat, SearchInv, NoGuess, CitedInv, CitesWhatItTells
<1>2. CASE Next
  BY <1>2, SupervisorInv, CallModelInv, AdvanceDomainInv, ToolsInv, RagAnswerInv, EndInv DEF Next
<1> QED BY <1>1, <1>2

THEOREM InvHolds == Spec => []Inv
BY InitInv, NextInv, PTL DEF Spec

(* Type correctness of AgentGraph; no domain has more rounds of tool calls *)
(* than MAX_ACTION_TOOL_ROUNDS.                                            *)
THEOREM TypeCorrect == Spec => []TypeOK
<1>1. Inv => TypeOK
  BY DEF Inv
<1> QED BY <1>1, InvHolds, PTL

(* Of the candidates of a turn's only search, none is changed that the     *)
(* user did not choose.                                                    *)
THEOREM NoGuessHolds == Spec => []NoGuess
<1>1. Inv => NoGuess
  BY DEF Inv, SearchInv
<1> QED BY <1>1, InvHolds, PTL

(* No round makes a change again that an earlier round of the run made.    *)
THEOREM NoRepeatHolds == Spec => []NoRepeat
<1>1. Inv => NoRepeat
  BY DEF Inv, ExecutedInv
<1> QED BY <1>1, InvHolds, PTL

(* An answer cites no documents of an assignment that it does not tell of. *)
THEOREM CitesWhatItTellsHolds == Spec => []CitesWhatItTells
<1>1. Inv => CitesWhatItTells
  BY DEF Inv, CitedInv
<1> QED BY <1>1, InvHolds, PTL

(***************************************************************************)
(* Folds. A recursive function is what its definition says if there is a   *)
(* function that satisfies it; what holds of it after each place follows   *)
(* from the least number after which it would not.                         *)
(***************************************************************************)
(* Every set of numbers has a least one.                                   *)
LEMMA LeastNumber ==
    ASSUME NEW T \in SUBSET Nat, T # {}
    PROVE  \E n \in T : \A m \in T : n <= m
<1> DEFINE R == {ss \in Nat \X Nat : ss[1] < ss[2]}
<1>1. IsWellFoundedOn(R, Nat)
  BY NatLessThanWellFounded DEF OpToRel
<1> HIDE DEF R
<1>2. \E x \in T : \A y \in T : ~(<<y, x>> \in R)
  BY <1>1, WFMin
<1>3. \A x, y \in T : <<y, x>> \notin R => x <= y
  BY DEF R
<1> QED BY <1>2, <1>3

(* Induction: what holds of 0 and of one more holds of n.                  *)
LEMMA UpTo ==
    ASSUME NEW n \in Nat, NEW Good, 0 \in Good,
           \A k \in 1..n : k - 1 \in Good => k \in Good
    PROVE  n \in Good
<1> DEFINE Bad == {k \in 0..n : k \notin Good}
<1> SUFFICES ASSUME Bad # {} PROVE FALSE
  OBVIOUS
<1>1. Bad \in SUBSET Nat
  OBVIOUS
<1>2. PICK k \in Bad : \A m \in Bad : k <= m
  <2> HIDE DEF Bad
  <2> QED BY <1>1, LeastNumber
<1>3. k \in 1..n /\ k - 1 \in 0..n /\ k - 1 < k
  BY <1>2
<1>4. k - 1 \in Good
  BY <1>2, <1>3
<1> QED BY <1>2, <1>3, <1>4

(* The greatest of the first numbers is the last.                          *)
LEMMA LastOf ==
    ASSUME NEW k \in Nat \ {0}
    PROVE  /\ 1..k # {} /\ Max(1..k) = k /\ (1..k) \ {k} = 1..k - 1
<1>1. k \in 1..k /\ \A m \in 1..k : k >= m
  OBVIOUS
<1>2. \A x \in 1..k : (\A m \in 1..k : x >= m) => x = k
  OBVIOUS
<1>3. Max(1..k) = k
  BY <1>1, <1>2 DEF Max
<1>4. (1..k) \ {k} = 1..k - 1
  OBVIOUS
<1> QED BY <1>1, <1>3, <1>4

(* Numbers that have a bound have a greatest.                              *)
LEMMA GreatestNumber ==
    ASSUME NEW n \in Nat, NEW S \in SUBSET (1..n), S # {}
    PROVE  Max(S) \in S /\ \A m \in S : m <= Max(S)
<1> DEFINE Bounds == {b \in Nat : \A m \in S : m <= b}
<1>1. n \in Bounds
  OBVIOUS
<1>2. PICK b \in Bounds : \A c \in Bounds : b <= c
  BY <1>1, LeastNumber
<1>3. b \in S
  <2> SUFFICES ASSUME b \notin S PROVE FALSE
    OBVIOUS
  <2>1. PICK m \in S : TRUE
    OBVIOUS
  <2>2. b \in Nat /\ m \in Nat /\ m <= b /\ m # b /\ m >= 1
    BY <2>1
  <2>3. b - 1 \in Nat /\ b - 1 < b
    BY <2>2
  <2>4. \A k \in S : k <= b - 1
    OBVIOUS
  <2>5. b - 1 \in Bounds
    BY <2>3, <2>4
  <2> HIDE DEF Bounds
  <2> QED BY <1>2, <2>2, <2>3, <2>5
<1>4. \A m \in S : b >= m
  OBVIOUS
<1>5. \E x \in S : \A y \in S : x >= y
  BY <1>3, <1>4
<1>6. Max(S) \in S /\ \A y \in S : Max(S) >= y
  BY <1>5 DEF Max
<1> QED BY <1>6

(* The function behind a fold: of a set of places, that without its last.  *)
Folds(base, step, n, f) ==
    \A s \in SUBSET (1..n) :
        f[s] = IF s = {} THEN base ELSE step[<<f[s \ {Max(s)}], Max(s)>>]

(* There is one: that of one more place extends that of the places before. *)
LEMMA FoldsExist ==
    ASSUME NEW U, NEW base \in U, NEW n \in Nat, NEW step \in [U \X (1..n) -> U]
    PROVE  \E f \in [SUBSET (1..n) -> U] : Folds(base, step, n, f)
<1> DEFINE Good == {m \in 0..n : \E f \in [SUBSET (1..m) -> U] : Folds(base, step, m, f)}
<1>1. 0 \in Good
  <2> DEFINE f == [s \in SUBSET (1..0) |-> base]
  <2>1. \A s \in SUBSET (1..0) : s = {}
    OBVIOUS
  <2>2. f \in [SUBSET (1..0) -> U] /\ Folds(base, step, 0, f)
    BY <2>1 DEF Folds
  <2> QED BY <2>2
<1>2. ASSUME NEW m \in 1..n, m - 1 \in Good PROVE m \in Good
  <2>1. m \in Nat /\ m - 1 \in Nat /\ m - 1 < m
    OBVIOUS
  <2>2. PICK g \in [SUBSET (1..m - 1) -> U] : Folds(base, step, m - 1, g)
    BY <1>2
  <2> DEFINE f == [s \in SUBSET (1..m) |->
                      IF s = {} THEN base ELSE step[<<g[s \ {Max(s)}], Max(s)>>]]
  <2>3. ASSUME NEW s \in SUBSET (1..m), s # {}
        PROVE  s \ {Max(s)} \in SUBSET (1..m - 1) /\ Max(s) \in 1..n
    <3>1. Max(s) \in 1..m /\ \A x \in s : x <= Max(s)
      BY <2>1, <2>3, GreatestNumber
    <3>2. ASSUME NEW x \in s, x # Max(s) PROVE x \in 1..m - 1
      BY <2>1, <3>1, <3>2
    <3>3. Max(s) \in 1..n
      BY <2>1, <3>1
    <3>4. s \ {Max(s)} \subseteq 1..m - 1
      BY <3>2
    <3> QED BY <3>3, <3>4
  <2>4. f \in [SUBSET (1..m) -> U]
    <3> SUFFICES ASSUME NEW s \in SUBSET (1..m), s # {}
                 PROVE  step[<<g[s \ {Max(s)}], Max(s)>>] \in U
      OBVIOUS
    <3>1. g[s \ {Max(s)}] \in U /\ Max(s) \in 1..n
      BY <2>3
    <3> QED BY <3>1
  <2>5. ASSUME NEW s \in SUBSET (1..m - 1) PROVE f[s] = g[s]
    <3>1. s \in SUBSET (1..m)
      BY <2>1
    <3>2. g[s] = IF s = {} THEN base ELSE step[<<g[s \ {Max(s)}], Max(s)>>]
      BY <2>2 DEF Folds
    <3> QED BY <3>1, <3>2
  <2>6. \A s \in SUBSET (1..m) : s # {} => f[s \ {Max(s)}] = g[s \ {Max(s)}]
    <3> HIDE DEF f
    <3> QED BY <2>3, <2>5
  <2>7. Folds(base, step, m, f)
    BY <2>6 DEF Folds
  <2> HIDE DEF f
  <2>8. m \in 0..n
    OBVIOUS
  <2> QED BY <2>4, <2>7, <2>8
<1> HIDE DEF Good
<1>3. n \in Good
  BY <1>1, <1>2, UpTo
<1> QED BY <1>3 DEF Good

(* A fold takes the places one after the other.                            *)
Begins(base, after, n, g) ==
    \A s \in SUBSET (1..n) : g[s] = IF s = {} THEN base ELSE after[s]

LEMMA FoldSteps ==
    ASSUME NEW n \in Nat, NEW base, NEW after, NEW g, Begins(base, after, n, g)
    PROVE  /\ g[1..0] = base
           /\ \A k \in 1..n : /\ g[1..k] = after[1..k]
                              /\ Max(1..k) = k /\ (1..k) \ {k} = 1..k - 1
<1>1. 1..0 = {} /\ 1..0 \in SUBSET (1..n)
  OBVIOUS
<1>2. ASSUME NEW k \in 1..n
      PROVE  g[1..k] = after[1..k] /\ Max(1..k) = k /\ (1..k) \ {k} = 1..k - 1
  <2>1. k \in Nat \ {0} /\ 1..k \in SUBSET (1..n)
    OBVIOUS
  <2> QED BY <2>1, LastOf DEF Begins
<1> QED BY <1>1, <1>2 DEF Begins

(***************************************************************************)
(* The context of an answer.                                               *)
(***************************************************************************)
(* selectContextResults with the context after each result.                *)
Added(tokens, context, i) == AddToContext(context, i, Cost(tokens[i]))

LEMMA ContextSteps ==
    ASSUME NEW tokens \in Seq(Nat)
    PROVE  \E v : /\ v[0] = NoContext
                  /\ \A k \in 1..Len(tokens) : v[k] = Added(tokens, v[k - 1], k)
                  /\ SelectContextResults(tokens) = v[Len(tokens)]
<1> DEFINE n == Len(tokens)
           U == [taken : Seq(Nat), used : Nat]
           step == [p \in U \X (1..n) |-> Added(tokens, p[1], p[2])]
           seq == [i \in DOMAIN tokens |-> i]
           Raw(f) == f = [s \in SUBSET (DOMAIN seq) |->
                             IF s = {} THEN NoContext
                             ELSE AddToContext(f[s \ {Max(s)}], seq[Max(s)],
                                               Cost(tokens[seq[Max(s)]]))]
           g == CHOOSE f : Raw(f)
           v == [k \in 0..n |-> g[1..k]]
<1>1. n \in Nat /\ DOMAIN seq = 1..n /\ DOMAIN tokens = 1..n
      /\ \A i \in 1..n : seq[i] = i /\ tokens[i] \in Nat
  BY LenProperties, ElementOfSeq
<1>2. SelectContextResults(tokens) = g[DOMAIN seq]
  BY DEF SelectContextResults, FoldLeft, MapThenFoldSet
<1> HIDE DEF n, seq
<1>3. ASSUME NEW s \in SUBSET (1..n), s # {} PROVE Max(s) \in 1..n /\ s \ {Max(s)} \in SUBSET (1..n)
  BY <1>1, <1>3, GreatestNumber
<1>4. \E f : Raw(f)
  <2>1. NoContext \in U
    BY DEF NoContext
  <2>2. ASSUME NEW c \in U, NEW i \in 1..n PROVE Added(tokens, c, i) \in U
    <3>1. i \in Nat /\ tokens[i] \in Nat
      BY <1>1
    <3>2. Cost(tokens[i]) \in Nat
      BY <3>1 DEF Cost, UnknownTokenCost
    <3>3. c.taken \in Seq(Nat) /\ c.used \in Nat
      OBVIOUS
    <3>4. Append(c.taken, i) \in Seq(Nat)
      BY <3>1, <3>3, AppendProperties
    <3>5. c.used + Cost(tokens[i]) \in Nat
      BY <3>2, <3>3
    <3>6. Extended(c, i, Cost(tokens[i])) \in U
      BY <3>4, <3>5 DEF Extended
    <3> QED BY <3>6 DEF Added, AddToContext
  <2>3. step \in [U \X (1..n) -> U]
    BY <2>2
  <2> HIDE DEF U, step
  <2>4. PICK f \in [SUBSET (1..n) -> U] : Folds(NoContext, step, n, f)
    BY <1>1, <2>1, <2>3, FoldsExist
  <2>5. ASSUME NEW s \in SUBSET (1..n), s # {}
        PROVE  f[s] = AddToContext(f[s \ {Max(s)}], seq[Max(s)], Cost(tokens[seq[Max(s)]]))
    <3>1. f[s] = step[<<f[s \ {Max(s)}], Max(s)>>]
      BY <2>4, <2>5 DEF Folds
    <3>2. Max(s) \in 1..n /\ f[s \ {Max(s)}] \in U /\ seq[Max(s)] = Max(s)
      BY <1>1, <1>3, <2>5
    <3>3. \A c \in U, i \in 1..n : step[<<c, i>>] = Added(tokens, c, i)
      BY DEF step
    <3> QED BY <3>1, <3>2, <3>3 DEF Added
  <2>6. \A s \in SUBSET (1..n) : s = {} => f[s] = NoContext
    BY <2>4 DEF Folds
  <2>7. Raw(f)
    BY <1>1, <2>5, <2>6
  <2> QED BY <2>7
<1>5. Raw(g)
  BY <1>4
<1> HIDE DEF g
<1>6. \A s \in SUBSET (1..n) :
         g[s] = IF s = {} THEN NoContext
                ELSE AddToContext(g[s \ {Max(s)}], seq[Max(s)], Cost(tokens[seq[Max(s)]]))
  BY <1>1, <1>5
<1> DEFINE after == [s \in SUBSET (1..n) |->
                       AddToContext(g[s \ {Max(s)}], seq[Max(s)], Cost(tokens[seq[Max(s)]]))]
<1>7. Begins(NoContext, after, n, g)
  BY <1>6 DEF Begins
<1>8. /\ g[1..0] = NoContext
      /\ \A k \in 1..n : g[1..k] = after[1..k] /\ Max(1..k) = k /\ (1..k) \ {k} = 1..k - 1
  <2> HIDE DEF after
  <2> QED BY <1>1, <1>7, FoldSteps
<1>9. ASSUME NEW k \in 1..n PROVE g[1..k] = Added(tokens, g[1..k - 1], k)
  <2>1. 1..k \in SUBSET (1..n)
    BY <1>1
  <2>2. after[1..k] = AddToContext(g[(1..k) \ {Max(1..k)}], seq[Max(1..k)],
                                   Cost(tokens[seq[Max(1..k)]]))
    BY <2>1
  <2> QED BY <1>1, <1>8, <2>2 DEF Added
<1>10. v[0] = NoContext /\ v[n] = SelectContextResults(tokens)
  BY <1>1, <1>2, <1>8
<1>11. \A k \in 1..n : v[k] = Added(tokens, v[k - 1], k)
  <2>1. \A k \in 1..n : k - 1 \in 0..n /\ k \in 0..n
    BY <1>1
  <2> QED BY <1>9, <2>1
<1> HIDE DEF v
<1> QED BY <1>10, <1>11 DEF n

(* What holds of the context after the first k results.                    *)
Fits(tokens, k, c) ==
    /\ c.taken \in Seq(1..k) /\ c.used \in Nat
    /\ k = 0 => c.taken = <<>> /\ c.used = 0
    /\ k > 0 => c.taken # <<>> /\ c.taken[1] = 1
    /\ c.used > ContextBudget => Len(c.taken) <= 1
    /\ \A i \in 1..k \ ToSet(c.taken) : c.used + Cost(tokens[i]) > ContextBudget

(* One more result keeps that.                                             *)
LEMMA FitsMore ==
    ASSUME NEW tokens \in Seq(Nat), NEW k \in 1..Len(tokens), NEW c,
           Fits(tokens, k - 1, c)
    PROVE  Fits(tokens, k, Added(tokens, c, k))
<1> DEFINE cost == Cost(tokens[k])
<1>1. /\ k \in Nat /\ k - 1 \in Nat /\ k >= 1 /\ k \in 1..k
      /\ c.taken \in Seq(1..k - 1) /\ c.used \in Nat
  BY DEF Fits
<1>2. ASSUME NEW i \in 1..k PROVE Cost(tokens[i]) \in Nat /\ Cost(tokens[i]) > 0
  <2>1. Len(tokens) \in Nat /\ i \in 1..Len(tokens)
    BY <1>1
  <2>2. tokens \in Seq(Nat)
    OBVIOUS
  <2>3. tokens[i] \in Nat
    BY <2>1, <2>2, ElementOfSeq
  <2> QED BY <2>3 DEF Cost, UnknownTokenCost
<1>3. cost \in Nat /\ cost > 0
  BY <1>1, <1>2
<1>4. \A i \in 1..k : i = k \/ i \in 1..k - 1
  BY <1>1
<1>5. Len(c.taken) \in Nat /\ c.taken \in Seq(1..k)
  BY <1>1
<1>6. \A i \in 1..k - 1 : i \notin ToSet(c.taken) => c.used + Cost(tokens[i]) > ContextBudget
  BY DEF Fits
<1> HIDE DEF cost
<1>7. CASE \/ c.used >= ContextBudget
           \/ c.taken # <<>> /\ c.used + cost > ContextBudget
  <2>1. Added(tokens, c, k) = c
    BY <1>7 DEF Added, AddToContext, cost
  <2>2. k - 1 # 0
    BY <1>1, <1>7 DEF Fits, ContextBudget
  <2>3. c.used + cost > ContextBudget
    BY <1>1, <1>3, <1>7 DEF ContextBudget
  <2>4. \A i \in 1..k \ ToSet(c.taken) : c.used + Cost(tokens[i]) > ContextBudget
    BY <1>4, <1>6, <2>3 DEF cost
  <2>5. c.taken # <<>> /\ c.taken[1] = 1 /\ (c.used > ContextBudget => Len(c.taken) <= 1)
    BY <1>1, <2>2 DEF Fits
  <2> QED BY <1>1, <1>5, <2>1, <2>2, <2>4, <2>5 DEF Fits
<1>8. CASE c.used < ContextBudget /\ (c.taken = <<>> \/ c.used + cost <= ContextBudget)
  <2> DEFINE d == Added(tokens, c, k)
  <2>1. d = Extended(c, k, cost)
    BY <1>1, <1>3, <1>8 DEF Added, AddToContext, ContextBudget, cost
  <2>2. d.taken = Append(c.taken, k) /\ d.used = c.used + cost
    BY <2>1 DEF Extended
  <2> HIDE DEF d
  <2>3. d.taken \in Seq(1..k) /\ d.used \in Nat
    <3>1. Append(c.taken, k) \in Seq(1..k)
      BY <1>1, <1>5, AppendProperties
    <3>2. c.used + cost \in Nat
      <4>1. \A u, v \in Nat : u + v \in Nat
        OBVIOUS
      <4> QED BY <1>1, <1>3, <4>1
    <3> QED BY <2>2, <3>1, <3>2
  <2>4. /\ Len(d.taken) = Len(c.taken) + 1
        /\ \A i \in 1..Len(c.taken) : d.taken[i] = c.taken[i]
        /\ d.taken[Len(c.taken) + 1] = k
    BY <1>5, <2>2, AppendProperties
  <2>5. d.taken # <<>>
    <3>1. Len(d.taken) # 0
      <4>1. \A u \in Nat : u + 1 # 0
        OBVIOUS
      <4> QED BY <1>5, <2>4, <4>1
    <3>2. Len(<<>>) = 0
      OBVIOUS
    <3> QED BY <3>1, <3>2
  <2>6. d.taken[1] = 1
    <3>1. CASE k - 1 = 0
      <4>1. c.taken = <<>>
        BY <3>1 DEF Fits
      <4> QED BY <1>1, <2>4, <3>1, <4>1
    <3>2. CASE k - 1 > 0
      <4>1. c.taken # <<>> /\ c.taken[1] = 1
        BY <3>2 DEF Fits
      <4>2. 1 \in 1..Len(c.taken)
        BY <1>5, <4>1
      <4> QED BY <2>4, <4>1, <4>2
    <3> QED BY <1>1, <3>1, <3>2
  <2>7. d.used > ContextBudget => Len(d.taken) <= 1
    <3>1. c.taken = <<>> => Len(c.taken) = 0
      OBVIOUS
    <3> QED BY <1>1, <1>3, <1>8, <2>2, <2>4, <3>1 DEF ContextBudget
  <2>8. ToSet(c.taken) \cup {k} \subseteq ToSet(d.taken)
    <3>1. DOMAIN c.taken = 1..Len(c.taken) /\ DOMAIN d.taken = 1..Len(c.taken) + 1
      BY <1>5, <2>3, <2>4, LenProperties
    <3>2. ASSUME NEW n \in Nat PROVE \A i \in 1..n : i \in 1..n + 1
      OBVIOUS
    <3>3. Len(c.taken) + 1 \in 1..Len(c.taken) + 1
      BY <1>5
    <3> QED BY <1>5, <2>4, <3>1, <3>2, <3>3 DEF ToSet
  <2>9. ASSUME NEW i \in 1..k \ ToSet(d.taken)
        PROVE  d.used + Cost(tokens[i]) > ContextBudget
    <3>1. i \in 1..k - 1 /\ i \notin ToSet(c.taken)
      BY <1>4, <2>8
    <3>2. c.used + Cost(tokens[i]) > ContextBudget /\ Cost(tokens[i]) \in Nat
      BY <1>2, <1>6, <3>1
    <3> QED BY <1>1, <1>3, <2>2, <3>2 DEF ContextBudget
  <2>10. Fits(tokens, k, d)
    BY <1>1, <2>3, <2>5, <2>6, <2>7, <2>9 DEF Fits
  <2> QED BY <2>10 DEF d
<1> QED BY <1>1, <1>3, <1>7, <1>8 DEF ContextBudget

(* So it holds of the whole context.                                       *)
LEMMA ContextsFit ==
    ASSUME NEW tokens \in Seq(Nat)
    PROVE  Fits(tokens, Len(tokens), SelectContextResults(tokens))
<1> DEFINE n == Len(tokens)
<1>1. n \in Nat
  BY LenProperties
<1>2. PICK v : /\ v[0] = NoContext
               /\ \A k \in 1..n : v[k] = Added(tokens, v[k - 1], k)
               /\ SelectContextResults(tokens) = v[n]
  BY ContextSteps
<1> DEFINE Good == {k \in 0..n : Fits(tokens, k, v[k])}
<1>3. 0 \in Good
  <2>1. Fits(tokens, 0, NoContext)
    BY DEF Fits, NoContext, ContextBudget
  <2> QED BY <1>1, <1>2, <2>1
<1>4. ASSUME NEW k \in 1..n, k - 1 \in Good PROVE k \in Good
  <2>1. k \in 0..n /\ Fits(tokens, k - 1, v[k - 1])
    BY <1>1, <1>4
  <2>2. Fits(tokens, k, Added(tokens, v[k - 1], k))
    BY <2>1, FitsMore
  <2> QED BY <1>2, <2>1, <2>2
<1> HIDE DEF Good
<1>5. n \in Good
  BY <1>1, <1>3, <1>4, UpTo
<1> QED BY <1>2, <1>5 DEF Good

(* No results have a context that is badly filled.                         *)
LEMMA NoneBadlyFilled == BadlyFilled = {}
<1> SUFFICES ASSUME NEW tokens \in TokenLists, tokens # <<>>
             PROVE  LET context == SelectContextResults(tokens) IN
                    ~(\/ context.taken = <<>> \/ context.taken[1] # 1
                      \/ context.used > ContextBudget /\ Len(context.taken) > 1
                      \/ \E i \in DOMAIN tokens \ ToSet(context.taken) :
                             context.used + Cost(tokens[i]) <= ContextBudget)
  BY DEF BadlyFilled
<1> DEFINE context == SelectContextResults(tokens)
<1>1. tokens \in Seq(Nat) /\ Len(tokens) \in Nat /\ Len(tokens) > 0
      /\ DOMAIN tokens = 1..Len(tokens)
  BY SearchAssumption
<1>2. Fits(tokens, Len(tokens), context)
  BY <1>1, ContextsFit
<1> HIDE DEF context
<1>3. context.taken # <<>> /\ context.taken[1] = 1
  BY <1>1, <1>2 DEF Fits
<1>4. ~(context.used > ContextBudget /\ Len(context.taken) > 1)
  <2>1. Len(context.taken) \in Nat
    BY <1>2 DEF Fits
  <2> QED BY <1>2, <2>1 DEF Fits
<1>5. ASSUME NEW i \in DOMAIN tokens \ ToSet(context.taken)
      PROVE  ~(context.used + Cost(tokens[i]) <= ContextBudget)
  <2>1. tokens[i] \in Nat
    BY <1>1
  <2>2. Cost(tokens[i]) \in Nat /\ context.used \in Nat
    BY <1>2, <2>1 DEF Cost, UnknownTokenCost, Fits
  <2>3. context.used + Cost(tokens[i]) > ContextBudget
    BY <1>1, <1>2 DEF Fits
  <2> QED BY <2>2, <2>3 DEF ContextBudget
<1> QED BY <1>3, <1>4, <1>5 DEF context

(* The answer to a search that found something gets the best result, keeps *)
(* within the budget unless that one alone exceeds it, and leaves nothing  *)
(* out that would still fit (selectContextResults): for results of any     *)
(* number and size.                                                        *)
THEOREM FittingContextsHolds == Spec => []FittingContexts
<1>1. FittingContexts
  BY NoneBadlyFilled DEF FittingContexts
<1> QED BY <1>1, PTL

(***************************************************************************)
(* The candidates of a search: scores and their order.                     *)
(***************************************************************************)
(* The score of a chunk with the score after each list.                    *)
Fractions == [num : Nat, den : Nat \ {0}]
Zero      == [num |-> 0, den |-> 1]

Counted(lists, c, x, i) ==
    IF Contains(lists[i], c) THEN Plus(x, Share(Rank(lists[i], c))) ELSE x

LEMMA SharesAdd ==
    /\ Zero \in Fractions
    /\ \A i \in Nat : Share(i) \in Fractions
    /\ \A x, y \in Fractions : Plus(x, y) \in Fractions
<1>1. Zero \in Fractions /\ \A i \in Nat : Share(i) \in Fractions
  BY DEF Zero, Fractions, Share, RrfK
<1>2. ASSUME NEW x \in Fractions, NEW y \in Fractions PROVE Plus(x, y) \in Fractions
  <2>1. x.num \in Nat /\ x.den \in Nat \ {0} /\ y.num \in Nat /\ y.den \in Nat \ {0}
    BY DEF Fractions
  <2>2. \A a, b \in Nat : a * b \in Nat /\ a + b \in Nat
    OBVIOUS
  <2>3. \A a, b \in Nat \ {0} : a * b \in Nat \ {0}
    OBVIOUS
  <2>4. x.num * y.den + y.num * x.den \in Nat /\ x.den * y.den \in Nat \ {0}
    BY <2>1, <2>2, <2>3
  <2> QED BY <2>4 DEF Plus, Fractions
<1> QED BY <1>1, <1>2

LEMMA Ranked ==
    ASSUME NEW list \in Seq(Nat), NEW c, Contains(list, c)
    PROVE  /\ Rank(list, c) \in 1..Len(list) /\ Rank(list, c) \in Nat \ {0}
           /\ list[Rank(list, c)] = c
<1>1. DOMAIN list = 1..Len(list) /\ Len(list) \in Nat
  BY LenProperties
<1>2. \E i \in DOMAIN list : list[i] = c
  BY <1>1 DEF Contains
<1>3. Rank(list, c) \in DOMAIN list /\ list[Rank(list, c)] = c
  BY <1>2 DEF Rank
<1> QED BY <1>1, <1>3

LEMMA CountedAdds ==
    ASSUME NEW lists \in Seq(Seq(Nat)), NEW c, NEW x \in Fractions, NEW i \in 1..Len(lists)
    PROVE  Counted(lists, c, x, i) \in Fractions
<1>1. lists[i] \in Seq(Nat)
  BY ElementOfSeq
<1>2. Contains(lists[i], c) => Share(Rank(lists[i], c)) \in Fractions
  BY <1>1, Ranked, SharesAdd
<1> QED BY <1>2, SharesAdd DEF Counted

LEMMA ScoreSteps ==
    ASSUME NEW lists \in Seq(Seq(Nat)), NEW c
    PROVE  \E v : /\ v[0] = Zero
                  /\ \A k \in 1..Len(lists) : v[k] = Counted(lists, c, v[k - 1], k)
                  /\ RrfScore(lists, c) = v[Len(lists)]
<1> DEFINE n == Len(lists)
           step == [p \in Fractions \X (1..n) |-> Counted(lists, c, p[1], p[2])]
           Raw(f) == f = [s \in SUBSET (DOMAIN lists) |->
                             IF s = {} THEN Zero
                             ELSE Counted(lists, c, f[s \ {Max(s)}], Max(s))]
           g == CHOOSE f : Raw(f)
           v == [k \in 0..n |-> g[1..k]]
<1>1. n \in Nat /\ DOMAIN lists = 1..n
  BY LenProperties
<1>2. RrfScore(lists, c) = g[DOMAIN lists]
  BY DEF RrfScore, FoldLeft, MapThenFoldSet, Counted, Zero
<1>3. ASSUME NEW s \in SUBSET (1..n), s # {}
      PROVE  Max(s) \in 1..n /\ s \ {Max(s)} \in SUBSET (1..n)
  BY <1>1, <1>3, GreatestNumber
<1>4. \A x \in Fractions, i \in 1..n : Counted(lists, c, x, i) \in Fractions
  BY CountedAdds
<1> HIDE DEF n
<1>5. \E f : Raw(f)
  <2>1. step \in [Fractions \X (1..n) -> Fractions]
    BY <1>4
  <2> HIDE DEF step
  <2>2. PICK f \in [SUBSET (1..n) -> Fractions] : Folds(Zero, step, n, f)
    BY <1>1, <2>1, SharesAdd, FoldsExist
  <2>3. ASSUME NEW s \in SUBSET (1..n), s # {}
        PROVE  f[s] = Counted(lists, c, f[s \ {Max(s)}], Max(s))
    <3>1. f[s] = step[<<f[s \ {Max(s)}], Max(s)>>]
      BY <2>2, <2>3 DEF Folds
    <3>2. Max(s) \in 1..n /\ f[s \ {Max(s)}] \in Fractions
      BY <1>3, <2>3
    <3>3. \A x \in Fractions, i \in 1..n : step[<<x, i>>] = Counted(lists, c, x, i)
      BY DEF step
    <3> QED BY <3>1, <3>2, <3>3
  <2>4. \A s \in SUBSET (1..n) : s = {} => f[s] = Zero
    BY <2>2 DEF Folds
  <2>5. Raw(f)
    BY <1>1, <2>3, <2>4
  <2> QED BY <2>5
<1>6. Raw(g)
  BY <1>5
<1> HIDE DEF g
<1> DEFINE after == [s \in SUBSET (1..n) |-> Counted(lists, c, g[s \ {Max(s)}], Max(s))]
<1>7. Begins(Zero, after, n, g)
  BY <1>1, <1>6 DEF Begins
<1>8. /\ g[1..0] = Zero
      /\ \A k \in 1..n : g[1..k] = after[1..k] /\ Max(1..k) = k /\ (1..k) \ {k} = 1..k - 1
  <2> HIDE DEF after
  <2> QED BY <1>1, <1>7, FoldSteps
<1>9. ASSUME NEW k \in 1..n PROVE g[1..k] = Counted(lists, c, g[1..k - 1], k)
  <2>1. 1..k \in SUBSET (1..n)
    BY <1>1
  <2>2. after[1..k] = Counted(lists, c, g[(1..k) \ {Max(1..k)}], Max(1..k))
    BY <2>1
  <2> QED BY <1>8, <2>2
<1>10. v[0] = Zero /\ v[n] = RrfScore(lists, c)
  BY <1>1, <1>2, <1>8
<1>11. \A k \in 1..n : v[k] = Counted(lists, c, v[k - 1], k)
  <2>1. \A k \in 1..n : k - 1 \in 0..n /\ k \in 0..n
    BY <1>1
  <2> QED BY <1>9, <2>1
<1> HIDE DEF v
<1> QED BY <1>10, <1>11 DEF n

(* A score is a fraction.                                                  *)
LEMMA ScoreType ==
    ASSUME NEW lists \in Seq(Seq(Nat)), NEW c
    PROVE  RrfScore(lists, c) \in Fractions
<1> DEFINE n == Len(lists)
<1>1. PICK v : /\ v[0] = Zero
               /\ \A k \in 1..n : v[k] = Counted(lists, c, v[k - 1], k)
               /\ RrfScore(lists, c) = v[n]
  BY ScoreSteps
<1> DEFINE Good == {k \in 0..n : v[k] \in Fractions}
<1>2. n \in Nat
  BY LenProperties
<1>3. 0 \in Good
  BY <1>1, <1>2, SharesAdd
<1>4. ASSUME NEW k \in 1..n, k - 1 \in Good PROVE k \in Good
  <2>1. v[k] = Counted(lists, c, v[k - 1], k) /\ v[k - 1] \in Fractions /\ k \in 0..n
    BY <1>1, <1>2, <1>4
  <2> QED BY <2>1, CountedAdds
<1> HIDE DEF Good
<1>5. n \in Good
  BY <1>2, <1>3, <1>4, UpTo
<1> QED BY <1>1, <1>5 DEF Good

(* Scores are compared as fractions are: no score is above itself, and     *)
(* what is not above a score is not above a higher one.                    *)
LEMMA CrossProducts ==
    ASSUME NEW a \in Nat, NEW b \in Nat \ {0}, NEW c \in Nat, NEW d \in Nat \ {0},
           NEW e \in Nat, NEW f \in Nat \ {0}, a * d >= c * b, c * f >= e * d
    PROVE  /\ a * f >= e * b
           /\ (a * d > c * b \/ c * f > e * d) => a * f > e * b
<1>1. /\ (a * d) * f >= (c * b) * f /\ (c * f) * b >= (e * d) * b
      /\ a * d > c * b => (a * d) * f > (c * b) * f
      /\ c * f > e * d => (c * f) * b > (e * d) * b
  <2>1. \A x, y \in Nat, z \in Nat \ {0} : (x >= y => x * z >= y * z) /\ (x > y => x * z > y * z)
    OBVIOUS
  <2>2. \A x, y \in Nat : x * y \in Nat
    OBVIOUS
  <2>3. a * d \in Nat /\ c * b \in Nat /\ c * f \in Nat /\ e * d \in Nat
    BY <2>2
  <2> QED BY <2>1, <2>3
<1>2. (a * d) * f = (a * f) * d /\ (c * b) * f = (c * f) * b /\ (e * d) * b = (e * b) * d
  OBVIOUS
<1>3. \A x, y \in Nat, z \in Nat \ {0} : (x * z >= y * z => x >= y) /\ (x * z > y * z => x > y)
  OBVIOUS
<1>4. a * f \in Nat /\ e * b \in Nat /\ (a * f) * d >= (e * b) * d
      /\ (a * d > c * b \/ c * f > e * d => (a * f) * d > (e * b) * d)
  BY <1>1, <1>2
<1> QED BY <1>3, <1>4

LEMMA Comparison ==
    ASSUME NEW x \in Fractions, NEW y \in Fractions, NEW z \in Fractions
    PROVE  /\ ~Above(x, x)
           /\ Above(x, y) => ~Above(y, x)
           /\ ~Above(y, x) /\ ~Above(z, y) =>
                 ~Above(z, x) /\ (Above(x, y) \/ Above(y, z) => Above(x, z))
<1>1. /\ x.num \in Nat /\ x.den \in Nat \ {0} /\ y.num \in Nat /\ y.den \in Nat \ {0}
      /\ z.num \in Nat /\ z.den \in Nat \ {0}
  BY DEF Fractions
<1>2. \A i, j \in Nat : i * j \in Nat
  OBVIOUS
<1>3. /\ x.num * y.den \in Nat /\ y.num * x.den \in Nat /\ x.num * x.den \in Nat
      /\ y.num * z.den \in Nat /\ z.num * y.den \in Nat
      /\ x.num * z.den \in Nat /\ z.num * x.den \in Nat
  BY <1>1, <1>2
<1>4. ~Above(x, x) /\ (Above(x, y) => ~Above(y, x))
  BY <1>3 DEF Above
<1>5. ASSUME ~Above(y, x), ~Above(z, y)
      PROVE  ~Above(z, x) /\ (Above(x, y) \/ Above(y, z) => Above(x, z))
  <2>1. x.num * y.den >= y.num * x.den /\ y.num * z.den >= z.num * y.den
    BY <1>3, <1>5 DEF Above
  <2>2. /\ x.num * z.den >= z.num * x.den
        /\ (x.num * y.den > y.num * x.den \/ y.num * z.den > z.num * y.den)
              => x.num * z.den > z.num * x.den
    BY <1>1, <2>1, CrossProducts
  <2> QED BY <1>3, <2>2 DEF Above
<1> QED BY <1>4, <1>5

LEMMA ShareOrder ==
    ASSUME NEW i \in Nat, NEW j \in Nat
    PROVE  Above(Share(i), Share(j)) <=> i < j
BY DEF Above, Share, RrfK

LEMMA ShareAdds ==
    ASSUME NEW x \in Fractions, NEW y \in Fractions
    PROVE  ~Above(x, Plus(x, y)) /\ ~Above(y, Plus(x, y))
<1>1. x.num \in Nat /\ x.den \in Nat \ {0} /\ y.num \in Nat /\ y.den \in Nat \ {0}
  BY DEF Fractions
<1>2. ASSUME NEW a \in Nat, NEW b \in Nat \ {0}, NEW c \in Nat, NEW d \in Nat \ {0}
      PROVE  ~(a * (b * d) > (a * d + c * b) * b) /\ ~(c * (b * d) > (a * d + c * b) * d)
  <2>1. /\ a * (b * d) = (a * d) * b /\ (a * d + c * b) * b = (a * d) * b + (c * b) * b
        /\ c * (b * d) = (c * b) * d /\ (a * d + c * b) * d = (a * d) * d + (c * b) * d
    OBVIOUS
  <2>2. \A i, j \in Nat : i * j \in Nat
    OBVIOUS
  <2>3. (a * d) * b \in Nat /\ (c * b) * b \in Nat /\ (c * b) * d \in Nat /\ (a * d) * d \in Nat
    <3>1. a * d \in Nat /\ c * b \in Nat
      BY <2>2
    <3> QED BY <2>2, <3>1
  <2> QED BY <2>1, <2>3
<1>3. /\ Plus(x, y).num = x.num * y.den + y.num * x.den
      /\ Plus(x, y).den = x.den * y.den
  BY DEF Plus
<1> QED BY <1>1, <1>2, <1>3 DEF Above

(* With two lists a chunk that is in the first only has the share of its   *)
(* place, and no chunk of a list has less than the share of its place.     *)
LEMMA TwoLists ==
    ASSUME NEW s \in Seq(Nat), NEW t \in Seq(Nat), NEW c
    PROVE  LET score == RrfScore(<<s, t>>, c) IN
           /\ Contains(s, c) => ~Above(Share(Rank(s, c)), score)
           /\ Contains(t, c) => ~Above(Share(Rank(t, c)), score)
           /\ Contains(s, c) /\ ~Contains(t, c) => ~Above(score, Share(Rank(s, c)))
<1> DEFINE lists == <<s, t>>
           p == Share(Rank(s, c))
           q == Share(Rank(t, c))
           first  == IF Contains(s, c) THEN Plus(Zero, p) ELSE Zero
           second == IF Contains(t, c) THEN Plus(first, q) ELSE first
<1>1. lists \in Seq(Seq(Nat)) /\ Len(lists) = 2 /\ lists[1] = s /\ lists[2] = t
  OBVIOUS
<1>2. RrfScore(lists, c) = second
  <2>1. PICK v : /\ v[0] = Zero
                 /\ \A k \in 1..2 : v[k] = Counted(lists, c, v[k - 1], k)
                 /\ RrfScore(lists, c) = v[2]
    <3> HIDE DEF lists
    <3> QED BY <1>1, ScoreSteps
  <2>2. v[1] = Counted(lists, c, Zero, 1) /\ v[2] = Counted(lists, c, v[1], 2)
    BY <2>1
  <2> HIDE DEF lists
  <2> QED BY <1>1, <2>1, <2>2 DEF Counted
<1> HIDE DEF lists
<1>3. (Contains(s, c) => p \in Fractions) /\ (Contains(t, c) => q \in Fractions)
  BY Ranked, SharesAdd
<1>4. Zero \in Fractions
  BY SharesAdd
<1> HIDE DEF p, q
<1>5. first \in Fractions
  BY <1>3, <1>4, SharesAdd
<1>6. second \in Fractions
  <2> HIDE DEF first
  <2> QED BY <1>3, <1>5, SharesAdd
<1>7. ASSUME Contains(s, c) PROVE ~Above(p, first) /\ ~Above(first, p)
  <2>1. p.num \in Nat /\ p.den \in Nat \ {0}
    BY <1>3, <1>7 DEF Fractions
  <2>2. Plus(Zero, p).num = 0 * p.den + p.num * 1 /\ Plus(Zero, p).den = 1 * p.den
    BY DEF Plus, Zero
  <2>3. Plus(Zero, p).num = p.num /\ Plus(Zero, p).den = p.den
    BY <2>1, <2>2
  <2>4. first = Plus(Zero, p)
    BY <1>7
  <2>5. \A i, j \in Nat : i * j \in Nat
    OBVIOUS
  <2>6. p.num * p.den \in Nat
    BY <2>1, <2>5
  <2> HIDE DEF first
  <2> QED BY <2>3, <2>4, <2>6 DEF Above
<1> HIDE DEF first
<1>8. ~Above(first, second)
  BY <1>3, <1>5, ShareAdds, Comparison
<1>9. Contains(s, c) => ~Above(p, second)
  <2> HIDE DEF second
  <2> QED BY <1>3, <1>5, <1>6, <1>7, <1>8, Comparison
<1>10. Contains(t, c) => ~Above(q, second)
  BY <1>3, <1>5, ShareAdds
<1>11. Contains(s, c) /\ ~Contains(t, c) => ~Above(second, p)
  BY <1>7
<1> QED BY <1>2, <1>9, <1>10, <1>11 DEF p, q, lists

(* In a strict order of a finite set every element has a place.            *)
Places(S, B) == [c \in S |-> 1 + Cardinality({d \in S : <<d, c>> \in B})]

LEMMA PlacesOrder ==
    ASSUME NEW S, IsFiniteSet(S), NEW B,
           \A c \in S : <<c, c>> \notin B,
           \A c, d, e \in S : <<c, d>> \in B /\ <<d, e>> \in B => <<c, e>> \in B,
           \A c, d \in S : c # d => <<c, d>> \in B \/ <<d, c>> \in B
    PROVE  /\ Cardinality(S) \in Nat
           /\ Places(S, B) \in [S -> 1..Cardinality(S)]
           /\ \A p \in 1..Cardinality(S) : \E c \in S : Places(S, B)[c] = p
           /\ \A c, d \in S : Places(S, B)[c] = Places(S, B)[d] => c = d
           /\ \A c, d \in S : <<c, d>> \in B => Places(S, B)[c] < Places(S, B)[d]
<1> DEFINE N == Cardinality(S)
           Below(c) == {d \in S : <<d, c>> \in B}
           pos == Places(S, B)
<1>1. N \in Nat
  BY FS_CardinalityType
<1>2. ASSUME NEW c \in S
      PROVE  IsFiniteSet(Below(c)) /\ Cardinality(Below(c)) \in Nat /\ pos[c] = 1 + Cardinality(Below(c))
  <2>1. Below(c) \in SUBSET S
    OBVIOUS
  <2>2. IsFiniteSet(Below(c))
    <3> HIDE DEF Below
    <3> QED BY <2>1, FS_Subset
  <2>3. pos[c] = 1 + Cardinality(Below(c))
    BY DEF Places
  <2> HIDE DEF Below
  <2> QED BY <2>2, <2>3, FS_CardinalityType
<1>3. pos \in [S -> 1..N]
  <2> SUFFICES ASSUME NEW c \in S PROVE 1 + Cardinality(Below(c)) \in 1..N
    BY DEF Places
  <2>1. Below(c) \in SUBSET S /\ c \in S \ Below(c)
    OBVIOUS
  <2> HIDE DEF Below
  <2>2. Cardinality(Below(c)) <= N /\ Cardinality(Below(c)) # N
    BY <2>1, FS_Subset
  <2> QED BY <1>1, <1>2, <2>2
<1>4. ASSUME NEW c \in S, NEW d \in S, <<c, d>> \in B PROVE pos[c] < pos[d]
  <2>1. Below(c) \in SUBSET Below(d) /\ c \in Below(d) \ Below(c)
    BY <1>4
  <2>2. /\ IsFiniteSet(Below(d)) /\ Cardinality(Below(c)) \in Nat /\ Cardinality(Below(d)) \in Nat
        /\ pos[c] = 1 + Cardinality(Below(c)) /\ pos[d] = 1 + Cardinality(Below(d))
    BY <1>2
  <2> HIDE DEF Below, pos
  <2>3. Cardinality(Below(c)) <= Cardinality(Below(d)) /\ Cardinality(Below(c)) # Cardinality(Below(d))
    BY <2>1, <2>2, FS_Subset
  <2> QED BY <2>2, <2>3
<1>5. ASSUME NEW c \in S, NEW d \in S, pos[c] = pos[d] PROVE c = d
  <2>1. pos[c] \in Nat /\ pos[d] \in Nat
    <3> HIDE DEF pos
    <3> QED BY <1>1, <1>3
  <2>2. ~(pos[c] < pos[d]) /\ ~(pos[d] < pos[c])
    BY <1>5, <2>1
  <2> HIDE DEF pos
  <2> QED BY <1>4, <2>2
<1> HIDE DEF pos
<1>6. pos \in Injection(S, 1..N)
  BY <1>3, <1>5 DEF Injection, IsInjective
<1>7. IsFiniteSet(1..N) /\ Cardinality(1..N) = N
  <2>1. 1 \in Int /\ N \in Int /\ N >= 0
    BY <1>1
  <2>2. IsFiniteSet(1..N) /\ Cardinality(1..N) = IF 1 > N THEN 0 ELSE N - 1 + 1
    BY <2>1, FS_Interval
  <2> HIDE DEF N
  <2> QED BY <2>1, <2>2
<1>8. pos \in Surjection(S, 1..N)
  BY <1>6, <1>7, FS_Injection
<1> QED BY <1>1, <1>3, <1>4, <1>5, <1>8 DEF Surjection, pos

(* The first of a sequence.                                                *)
LEMMA FirstOfProperties ==
    ASSUME NEW U, NEW s \in Seq(U), NEW n \in Nat
    PROVE  /\ FirstOf(s, n) \in Seq(U)
           /\ Len(FirstOf(s, n)) = Least(n, Len(s)) /\ Least(n, Len(s)) \in Nat
           /\ Least(n, Len(s)) <= n /\ Least(n, Len(s)) <= Len(s)
           /\ \A i \in 1..Least(n, Len(s)) : FirstOf(s, n)[i] = s[i]
<1> DEFINE m == Least(n, Len(s))
<1>1. Len(s) \in Nat
  BY LenProperties
<1>2. m \in Nat /\ m <= n /\ m <= Len(s)
  BY <1>1 DEF Least
<1> HIDE DEF m
<1>3. \A i \in 1..m : s[i] \in U
  <2>1. \A i \in 1..m : i \in 1..Len(s)
    BY <1>1, <1>2
  <2> QED BY <2>1, ElementOfSeq
<1>4. 1 \in Int /\ m \in Int
  BY <1>2
<1>5. /\ SubSeq(s, 1, m) \in Seq(U)
      /\ Len(SubSeq(s, 1, m)) = IF 1 <= m THEN m - 1 + 1 ELSE 0
      /\ \A i \in 1..m - 1 + 1 : SubSeq(s, 1, m)[i] = s[1 + i - 1]
  BY <1>3, <1>4, SubSeqProperties
<1>6. Len(SubSeq(s, 1, m)) = m
  BY <1>2, <1>5
<1>7. \A i \in 1..m : i \in 1..m - 1 + 1 /\ 1 + i - 1 = i
  BY <1>2
<1>8. \A i \in 1..m : SubSeq(s, 1, m)[i] = s[i]
  BY <1>5, <1>7
<1> QED BY <1>2, <1>5, <1>6, <1>8 DEF FirstOf, m

(* Fusion: the first n of all chunks of the lists in the order of their    *)
(* scores.                                                                 *)
All(lists) == UNION {ToSet(lists[i]) : i \in DOMAIN lists}

Before(lists) ==
    {p \in All(lists) \X All(lists) :
        \/ Above(RrfScore(lists, p[1]), RrfScore(lists, p[2]))
        \/ ~Above(RrfScore(lists, p[2]), RrfScore(lists, p[1])) /\ p[1] < p[2]}

Place(lists) == Places(All(lists), Before(lists))

LEMMA AllFinite ==
    ASSUME NEW lists \in Seq(Seq(Nat))
    PROVE  IsFiniteSet(All(lists)) /\ All(lists) \subseteq Nat
<1>1. DOMAIN lists = 1..Len(lists) /\ Len(lists) \in Nat
  BY LenProperties
<1>2. \A n \in Nat : IsFiniteSet(1..n)
  BY FS_Interval
<1>3. ASSUME NEW i \in DOMAIN lists
      PROVE  IsFiniteSet(ToSet(lists[i])) /\ ToSet(lists[i]) \subseteq Nat
  <2> DEFINE s == lists[i]
  <2>1. s \in Seq(Nat)
    BY <1>1, <1>3, ElementOfSeq
  <2> HIDE DEF s
  <2>2. DOMAIN s = 1..Len(s) /\ Len(s) \in Nat /\ s \in [1..Len(s) -> Nat]
    BY <2>1, LenProperties
  <2>3. s \in Surjection(1..Len(s), ToSet(s)) /\ ToSet(s) \subseteq Nat
    BY <2>2 DEF Surjection, ToSet
  <2>4. IsFiniteSet(ToSet(s))
    BY <1>2, <2>2, <2>3, FS_Surjection
  <2> QED BY <2>3, <2>4 DEF s
<1> DEFINE sets == {ToSet(lists[i]) : i \in DOMAIN lists}
           f == [i \in DOMAIN lists |-> ToSet(lists[i])]
<1>4. f \in Surjection(DOMAIN lists, sets)
  BY DEF Surjection
<1>5. IsFiniteSet(sets)
  <2>1. IsFiniteSet(DOMAIN lists)
    BY <1>1, <1>2
  <2> HIDE DEF sets, f
  <2> QED BY <1>4, <2>1, FS_Surjection
<1>6. \A T \in sets : IsFiniteSet(T)
  BY <1>3
<1>7. IsFiniteSet(UNION sets)
  <2> HIDE DEF sets
  <2> QED BY <1>5, <1>6, FS_UNION
<1> QED BY <1>3, <1>7 DEF All

LEMMA PlaceOrder ==
    ASSUME NEW lists \in Seq(Seq(Nat))
    PROVE  LET all == All(lists) IN
           /\ Cardinality(all) \in Nat
           /\ Place(lists) \in [all -> 1..Cardinality(all)]
           /\ \A p \in 1..Cardinality(all) : \E c \in all : Place(lists)[c] = p
           /\ \A c, d \in all : Place(lists)[c] = Place(lists)[d] => c = d
           /\ \A c, d \in all :
                 Above(RrfScore(lists, c), RrfScore(lists, d)) => Place(lists)[c] < Place(lists)[d]
<1> DEFINE S == All(lists)
           B == Before(lists)
           score(c) == RrfScore(lists, c)
<1>1. IsFiniteSet(S) /\ S \subseteq Nat
  BY AllFinite
<1>2. \A c \in S : score(c) \in Fractions
  BY ScoreType
<1>3. \A c, d \in S : <<c, d>> \in B <=> \/ Above(score(c), score(d))
                                         \/ ~Above(score(d), score(c)) /\ c < d
  BY DEF Before
<1> HIDE DEF S, B, score
<1>4. \A c \in S : <<c, c>> \notin B
  BY <1>1, <1>2, <1>3, Comparison
<1>5. ASSUME NEW c \in S, NEW d \in S, NEW e \in S, <<c, d>> \in B, <<d, e>> \in B
      PROVE  <<c, e>> \in B
  <2>1. ~Above(score(d), score(c)) /\ ~Above(score(e), score(d))
    BY <1>2, <1>3, <1>5, Comparison
  <2>2. /\ ~Above(score(e), score(c))
        /\ Above(score(c), score(d)) \/ Above(score(d), score(e)) => Above(score(c), score(e))
    BY <1>2, <2>1, Comparison
  <2>3. \/ Above(score(c), score(d)) \/ Above(score(d), score(e))
        \/ c < d /\ d < e
    BY <1>3, <1>5
  <2>4. c < d /\ d < e => c < e
    BY <1>1
  <2> QED BY <1>3, <2>2, <2>3, <2>4
<1>6. ASSUME NEW c \in S, NEW d \in S, c # d PROVE <<c, d>> \in B \/ <<d, c>> \in B
  <2>1. c < d \/ d < c
    BY <1>1, <1>6
  <2> QED BY <1>3, <2>1
<1>7. /\ Cardinality(S) \in Nat
      /\ Places(S, B) \in [S -> 1..Cardinality(S)]
      /\ \A p \in 1..Cardinality(S) : \E c \in S : Places(S, B)[c] = p
      /\ \A c, d \in S : Places(S, B)[c] = Places(S, B)[d] => c = d
      /\ \A c, d \in S : <<c, d>> \in B => Places(S, B)[c] < Places(S, B)[d]
  BY <1>1, <1>4, <1>5, <1>6, PlacesOrder
<1>8. \A c, d \in S : Above(score(c), score(d)) => Places(S, B)[c] < Places(S, B)[d]
  BY <1>3, <1>7
<1> QED BY <1>7, <1>8 DEF S, B, score, Place

LEMMA FusedProperties ==
    ASSUME NEW lists \in Seq(Seq(Nat)), NEW n \in Nat
    PROVE  LET all == All(lists)
               fused == Fused(lists, n)
           IN /\ fused \in Seq(all)
              /\ Len(fused) = Least(n, Cardinality(all)) /\ Len(fused) \in Nat
              /\ \A i \in 1..Len(fused) : Place(lists)[fused[i]] = i
              /\ \A c \in all : c \in ToSet(fused) <=> Place(lists)[c] <= n
<1> DEFINE S == All(lists)
           N == Cardinality(S)
           pos == Place(lists)
           order == [p \in 1..N |-> CHOOSE c \in S : pos[c] = p]
<1>1. /\ N \in Nat /\ pos \in [S -> 1..N]
      /\ \A p \in 1..N : \E c \in S : pos[c] = p
      /\ \A c, d \in S : pos[c] = pos[d] => c = d
  BY PlaceOrder
<1>2. Fused(lists, n) = FirstOf(order, n)
  <2> DEFINE score == [c \in S |-> RrfScore(lists, c)]
             Bef(c, d) == \/ Above(score[c], score[d])
                          \/ ~Above(score[d], score[c]) /\ c < d
             position == [c \in S |-> 1 + Cardinality({d \in S : Bef(d, c)})]
  <2>1. Fused(lists, n) = FirstOf([p \in 1..N |-> CHOOSE c \in S : position[c] = p], n)
    BY DEF Fused, All
  <2>2. \A c \in S : {d \in S : Bef(d, c)} = {d \in S : <<d, c>> \in Before(lists)}
    BY DEF Before
  <2>3. position = pos
    <3>1. pos = [c \in S |-> 1 + Cardinality({d \in S : <<d, c>> \in Before(lists)})]
      BY DEF Place, Places
    <3> HIDE DEF Bef, pos
    <3> QED BY <2>2, <3>1
  <2> HIDE DEF position, pos
  <2> QED BY <2>1, <2>3
<1> HIDE DEF S, N, pos
<1>3. \A p \in 1..N : order[p] \in S /\ pos[order[p]] = p
  BY <1>1
<1>4. order \in Seq(S) /\ Len(order) = N
  <2>1. order \in [1..N -> S]
    BY <1>3
  <2> HIDE DEF order
  <2>2. order \in Seq(S)
    BY <1>1, <2>1, SeqDef
  <2>3. DOMAIN order = 1..N /\ DOMAIN order = 1..Len(order) /\ Len(order) \in Nat
    BY <2>1, <2>2, LenProperties
  <2> QED BY <1>1, <2>2, <2>3
<1> HIDE DEF order
<1> DEFINE fused == FirstOf(order, n)
<1>5. /\ fused \in Seq(S) /\ Len(fused) = Least(n, N) /\ Len(fused) \in Nat
      /\ Len(fused) <= n /\ Len(fused) <= N
      /\ \A i \in 1..Len(fused) : fused[i] = order[i]
  BY <1>4, FirstOfProperties
<1>6. DOMAIN fused = 1..Len(fused)
  BY <1>5, LenProperties
<1>7. N <= Len(fused) \/ n <= Len(fused)
  BY <1>1, <1>5 DEF Least
<1> HIDE DEF fused
<1>8. \A i \in 1..Len(fused) : i \in 1..N
  BY <1>1, <1>5
<1>9. \A i \in 1..Len(fused) : fused[i] \in S /\ pos[fused[i]] = i
  BY <1>3, <1>5, <1>8
<1>10. ASSUME NEW c \in S PROVE c \in ToSet(fused) <=> pos[c] <= n
  <2>1. pos[c] \in 1..N
    BY <1>1
  <2>2. ASSUME pos[c] <= n PROVE c \in ToSet(fused)
    <3>1. pos[c] \in 1..Len(fused)
      BY <1>1, <1>5, <1>7, <2>1, <2>2
    <3>2. fused[pos[c]] = c
      BY <1>1, <1>9, <3>1
    <3> QED BY <1>6, <3>1, <3>2 DEF ToSet
  <2>3. ASSUME c \in ToSet(fused) PROVE pos[c] <= n
    <3>1. PICK i \in 1..Len(fused) : fused[i] = c
      BY <1>6, <2>3 DEF ToSet
    <3>2. pos[c] = i
      BY <1>9, <3>1
    <3> QED BY <1>5, <3>2
  <2> QED BY <2>2, <2>3
<1> QED BY <1>2, <1>5, <1>9, <1>10 DEF fused, S, N, pos

(***************************************************************************)
(* The cut at four times as many candidates as results, and the choice of  *)
(* results from them.                                                      *)
(***************************************************************************)
LEMMA Beats ==
    ASSUME NEW x \in Fractions, NEW a \in Fractions, NEW b \in Fractions, NEW y \in Fractions,
           ~Above(a, x), Above(a, b), ~Above(y, b)
    PROVE  Above(x, y)
<1>1. ~Above(b, a)
  BY Comparison
<1>2. Above(x, b) /\ ~Above(b, x)
  BY <1>1, Comparison
<1> QED BY <1>2, Comparison

(* The ranks in a list without repetitions.                                *)
LEMMA RankOf ==
    ASSUME NEW s \in Seq(Nat), IsInjective(s)
    PROVE  /\ \A c : Contains(s, c) <=> c \in ToSet(s)
           /\ \A i \in 1..Len(s) : s[i] \in ToSet(s) /\ Rank(s, s[i]) = i
<1>1. DOMAIN s = 1..Len(s)
  BY LenProperties
<1>2. \A c : Contains(s, c) <=> c \in ToSet(s)
  BY <1>1 DEF Contains, ToSet
<1>3. ASSUME NEW i \in 1..Len(s) PROVE s[i] \in ToSet(s) /\ Rank(s, s[i]) = i
  <2>1. s[i] \in ToSet(s)
    BY <1>1 DEF ToSet
  <2>2. Rank(s, s[i]) \in 1..Len(s) /\ s[Rank(s, s[i])] = s[i]
    BY <1>2, <2>1, Ranked
  <2> QED BY <1>1, <2>1, <2>2 DEF IsInjective
<1> QED BY <1>2, <1>3

(* Chunks of which enough are among the first ones.                        *)
LEMMA LeastOfMore ==
    ASSUME NEW n \in Nat, NEW S, IsFiniteSet(S), NEW T \in SUBSET S, Cardinality(T) >= n
    PROVE  Least(n, Cardinality(T)) = Least(n, Cardinality(S))
<1>1. IsFiniteSet(T) /\ Cardinality(T) <= Cardinality(S)
  BY FS_Subset
<1>2. Cardinality(S) \in Nat /\ Cardinality(T) \in Nat
  BY <1>1, FS_CardinalityType
<1> QED BY <1>1, <1>2 DEF Least

(* Of the vectors the nearest are relevant, and those with a keyword.      *)
CutAt(V, K, R, similar) ==
    \A i \in 1..Len(V) : V[i] \in R <=> V[i] \in ToSet(K) \/ i <= similar

(* Four times as many candidates are enough: an irrelevant candidate below *)
(* the first 3n vectors would leave the first 3n keywords among them.      *)
LEMMA EnoughCandidates ==
    ASSUME NEW n \in Nat \ {0}, NEW similar \in Nat,
           NEW V \in Seq(Nat), IsInjective(V), NEW K \in Seq(Nat), IsInjective(K),
           NEW R \in SUBSET (ToSet(V) \cup ToSet(K)), ToSet(K) \subseteq R,
           CutAt(V, K, R, similar)
    PROVE  Least(n, Cardinality(ToSet(Fused(<<V, K>>, 4 * n)) \cap R))
              = Least(n, Cardinality(R))
<1> DEFINE lists == <<V, K>>
           all == All(lists)
           N == Cardinality(all)
           pos == Place(lists)
           F == Fused(lists, 4 * n)
           C == ToSet(F)
           score(c) == RrfScore(lists, c)
<1>1. lists \in Seq(Seq(Nat)) /\ DOMAIN lists = 1..2 /\ lists[1] = V /\ lists[2] = K
  OBVIOUS
<1>2. all = ToSet(V) \cup ToSet(K)
  <2>1. \A i \in 1..2 : i = 1 \/ i = 2
    OBVIOUS
  <2>2. 1 \in 1..2 /\ 2 \in 1..2
    OBVIOUS
  <2> HIDE DEF lists
  <2> QED BY <1>1, <2>1, <2>2 DEF All
<1>3. \A c \in all : /\ score(c) \in Fractions
                     /\ Contains(V, c) => ~Above(Share(Rank(V, c)), score(c))
                     /\ Contains(K, c) => ~Above(Share(Rank(K, c)), score(c))
                     /\ Contains(V, c) /\ ~Contains(K, c) => ~Above(score(c), Share(Rank(V, c)))
  BY <1>1, ScoreType, TwoLists
<1> HIDE DEF lists
<1>4. IsFiniteSet(all) /\ N \in Nat
  BY <1>1, AllFinite, FS_CardinalityType
<1>5. 4 * n \in Nat /\ 3 * n \in Nat /\ 3 * n >= n /\ 4 * n - n = 3 * n
  OBVIOUS
<1>6. /\ F \in Seq(all) /\ Len(F) = Least(4 * n, N) /\ Len(F) \in Nat
      /\ \A i \in 1..Len(F) : pos[F[i]] = i
      /\ \A c \in all : c \in C <=> pos[c] <= 4 * n
  BY <1>1, <1>5, FusedProperties
<1>7. /\ pos \in [all -> 1..N]
      /\ \A c, d \in all : Above(score(c), score(d)) => pos[c] < pos[d]
  BY <1>1, PlaceOrder
<1>8. C \in SUBSET all /\ DOMAIN F = 1..Len(F) /\ F \in [1..Len(F) -> C]
  <2>1. DOMAIN F = 1..Len(F) /\ F \in [1..Len(F) -> all]
    BY <1>6, LenProperties
  <2> HIDE DEF F, all
  <2> QED BY <2>1 DEF ToSet
<1>9. IsFiniteSet(R) /\ IsFiniteSet(C) /\ C \cap R \in SUBSET R
  BY <1>2, <1>4, <1>8, FS_Subset
<1> HIDE DEF all, N, pos, F, score
<1>10. CASE R \subseteq C
  <2>1. C \cap R = R
    BY <1>10
  <2> QED BY <2>1 DEF F, lists
<1>11. CASE ~(R \subseteq C)
  <2>1. PICK d \in R : d \notin C
    BY <1>11
  <2>2. d \in all /\ pos[d] \in 1..N /\ 4 * n < pos[d]
    <3>1. d \in all
      BY <1>2
    <3>2. pos[d] \in 1..N /\ ~(pos[d] <= 4 * n)
      BY <1>6, <1>7, <2>1, <3>1
    <3> HIDE DEF C
    <3> QED BY <1>4, <1>5, <3>1, <3>2
  <2>3. Len(F) = 4 * n
    BY <1>4, <1>5, <1>6, <2>2 DEF Least
  <2>4. Cardinality(C) = 4 * n
    <3>1. F \in Injection(1..4 * n, C)
      BY <1>6, <1>8, <2>3 DEF Injection, IsInjective
    <3>2. F \in Surjection(1..4 * n, C)
      BY <1>8, <2>3 DEF Surjection, ToSet
    <3>3. IsFiniteSet(1..4 * n) /\ Cardinality(1..4 * n) = 4 * n
      <4>1. \A k \in Nat : IsFiniteSet(1..k) /\ Cardinality(1..k) = IF 1 > k THEN 0 ELSE k - 1 + 1
        BY FS_Interval
      <4>2. 4 * n > 0
        OBVIOUS
      <4> QED BY <1>5, <4>1, <4>2
    <3> HIDE DEF C
    <3> QED BY <3>1, <3>2, <3>3, FS_Surjection
  <2>5. SUFFICES ASSUME Cardinality(C \cap R) < n PROVE FALSE
    <3>1. Cardinality(C \cap R) \in Nat
      BY <1>9, FS_Subset, FS_CardinalityType
    <3>2. ~(Cardinality(C \cap R) < n) => Cardinality(C \cap R) >= n
      BY <3>1
    <3> HIDE DEF C
    <3>3. Cardinality(C \cap R) >= n => Least(n, Cardinality(C \cap R)) = Least(n, Cardinality(R))
      BY <1>9, LeastOfMore
    <3> QED BY <3>2, <3>3 DEF C, F, lists
  <2> DEFINE Irrelevant == C \ R
  <2>6. IsFiniteSet(Irrelevant) /\ Cardinality(Irrelevant) > 3 * n
    <3>1. IsFiniteSet(C \cap R)
      BY <1>9, FS_Subset
    <3>2. Cardinality(C \cap R) \in Nat
      BY <3>1, FS_CardinalityType
    <3> HIDE DEF C
    <3>3. IsFiniteSet(Irrelevant) /\ Cardinality(Irrelevant) = Cardinality(C) - Cardinality(C \cap R)
      BY <1>9, FS_Difference
    <3> HIDE DEF Irrelevant
    <3> QED BY <1>5, <2>4, <2>5, <3>2, <3>3
  <2>7. ASSUME NEW u \in Irrelevant
        PROVE  /\ u \in all /\ Contains(V, u) /\ ~Contains(K, u)
               /\ Rank(V, u) \in 1..Len(V) /\ V[Rank(V, u)] = u
               /\ Rank(V, u) > similar /\ Rank(V, u) \in Nat \ {0}
    <3>1. u \in all /\ u \notin R /\ u \in ToSet(V) /\ u \notin ToSet(K)
      BY <1>2, <1>8
    <3>2. Contains(V, u) /\ ~Contains(K, u)
      BY <3>1, RankOf
    <3>3. Rank(V, u) \in 1..Len(V) /\ V[Rank(V, u)] = u /\ Rank(V, u) \in Nat \ {0}
      BY <3>2, Ranked
    <3>4. ~(Rank(V, u) <= similar)
      BY <3>1, <3>3 DEF CutAt
    <3> QED BY <3>1, <3>2, <3>3, <3>4
  <2> HIDE DEF Irrelevant
  <2>8. PICK u \in Irrelevant : Rank(V, u) > 3 * n
    <3> SUFFICES ASSUME \A u \in Irrelevant : ~(Rank(V, u) > 3 * n) PROVE FALSE
      OBVIOUS
    <3> DEFINE f == [u \in Irrelevant |-> Rank(V, u)]
    <3>1. \A u \in Irrelevant : Rank(V, u) \in 1..3 * n
      BY <1>5, <2>7
    <3>2. \A u, w \in Irrelevant : Rank(V, u) = Rank(V, w) => u = w
      BY <2>7
    <3>3. f \in Injection(Irrelevant, 1..3 * n)
      BY <3>1, <3>2 DEF Injection, IsInjective
    <3>4. IsFiniteSet(1..3 * n) /\ Cardinality(1..3 * n) = 3 * n
      <4>1. \A k \in Nat : IsFiniteSet(1..k) /\ Cardinality(1..k) = IF 1 > k THEN 0 ELSE k - 1 + 1
        BY FS_Interval
      <4>2. 3 * n > 0
        OBVIOUS
      <4> QED BY <1>5, <4>1, <4>2
    <3> HIDE DEF f
    <3>5. Cardinality(Irrelevant) <= 3 * n
      BY <3>3, <3>4, FS_Injection
    <3>6. Cardinality(Irrelevant) \in Nat
      BY <2>6, FS_CardinalityType
    <3> QED BY <1>5, <2>6, <3>5, <3>6
  <2> DEFINE r == Rank(V, u)
  <2>9. /\ r \in Nat \ {0} /\ r > 3 * n /\ r > similar
        /\ u \in all /\ score(u) \in Fractions /\ Share(r) \in Fractions
        /\ ~Above(score(u), Share(r)) /\ pos[u] \in 1..N /\ pos[u] <= 4 * n
    <3>1. u \in C
      BY DEF Irrelevant
    <3> HIDE DEF C
    <3> QED BY <1>3, <1>6, <1>7, <2>7, <2>8, <3>1, SharesAdd
  <2> HIDE DEF r
  <2>10. ASSUME NEW c \in all, NEW i \in Nat, i < r, ~Above(Share(i), score(c))
         PROVE  Above(score(c), score(u)) /\ pos[c] < pos[u]
    <3>1. Above(Share(i), Share(r)) /\ Share(i) \in Fractions
      BY <2>9, <2>10, ShareOrder, SharesAdd
    <3>2. Above(score(c), score(u))
      BY <1>3, <2>9, <2>10, <3>1, Beats
    <3> QED BY <1>7, <2>9, <3>2
  <2>11. ~(pos[d] < pos[u])
    BY <1>4, <1>5, <2>2, <2>9
  <2>12. d \in ToSet(K)
    <3> SUFFICES ASSUME d \notin ToSet(K) PROVE FALSE
      OBVIOUS
    <3>1. d \in ToSet(V)
      BY <1>2, <2>2
    <3>2. Contains(V, d)
      BY <3>1, RankOf
    <3>3. Rank(V, d) \in 1..Len(V) /\ V[Rank(V, d)] = d /\ Rank(V, d) \in Nat \ {0}
      BY <3>2, Ranked
    <3>4. Rank(V, d) <= similar
      BY <3>3 DEF CutAt
    <3>5. Rank(V, d) < r
      BY <2>9, <3>3, <3>4
    <3> QED BY <1>3, <2>2, <2>10, <2>11, <3>2, <3>3, <3>5
  <2>13. 3 * n < Len(K)
    <3>1. Contains(K, d)
      BY <2>12, RankOf
    <3>2. Rank(K, d) \in 1..Len(K) /\ Rank(K, d) \in Nat \ {0} /\ Len(K) \in Nat
      BY <3>1, Ranked, LenProperties
    <3>3. ~(Rank(K, d) < r)
      BY <1>3, <2>2, <2>10, <2>11, <3>1, <3>2
    <3> QED BY <1>5, <2>9, <3>2, <3>3
  <2>14. ASSUME NEW j \in 1..3 * n PROVE K[j] \in C \cap R
    <3>1. j \in 1..Len(K) /\ j \in Nat /\ j < r
      <4>1. Len(K) \in Nat
        BY LenProperties
      <4> QED BY <1>5, <2>9, <2>13, <4>1
    <3>2. K[j] \in ToSet(K) /\ Contains(K, K[j]) /\ Rank(K, K[j]) = j
      BY <3>1, RankOf
    <3>3. K[j] \in all /\ K[j] \in R
      BY <1>2, <3>2
    <3>4. ~Above(Share(j), score(K[j]))
      BY <1>3, <3>2, <3>3
    <3>5. pos[K[j]] < pos[u] /\ pos[K[j]] \in 1..N
      BY <1>7, <2>10, <3>1, <3>3, <3>4
    <3>6. pos[K[j]] <= 4 * n
      <4>1. \A a, b, m \in Nat : a < b /\ b <= m => a <= m
        OBVIOUS
      <4>2. pos[K[j]] \in Nat /\ pos[u] \in Nat
        BY <1>4, <2>9, <3>5
      <4> QED BY <1>5, <2>9, <3>5, <4>1, <4>2
    <3> QED BY <1>6, <3>3, <3>6
  <2>15. Cardinality(C \cap R) >= 3 * n
    <3> DEFINE f == [j \in 1..3 * n |-> K[j]]
    <3>1. \A j \in 1..3 * n : j \in 1..Len(K)
      <4>1. Len(K) \in Nat
        BY LenProperties
      <4> QED BY <1>5, <2>13, <4>1
    <3>2. DOMAIN K = 1..Len(K)
      BY LenProperties
    <3>3. \A i, j \in 1..3 * n : K[i] = K[j] => i = j
      BY <3>1, <3>2 DEF IsInjective
    <3>4. f \in Injection(1..3 * n, C \cap R)
      BY <2>14, <3>3 DEF Injection, IsInjective
    <3>5. IsFiniteSet(C \cap R)
      BY <1>9, FS_Subset
    <3>6. Cardinality(1..3 * n) = 3 * n
      <4>1. \A k \in Nat : Cardinality(1..k) = IF 1 > k THEN 0 ELSE k - 1 + 1
        BY FS_Interval
      <4>2. 3 * n > 0
        OBVIOUS
      <4> QED BY <1>5, <4>1, <4>2
    <3> HIDE DEF f, C
    <3>7. Cardinality(1..3 * n) <= Cardinality(C \cap R)
      BY <3>4, <3>5, FS_Injection
    <3>8. Cardinality(C \cap R) \in Nat
      BY <3>5, FS_CardinalityType
    <3> QED BY <1>5, <3>6, <3>7, <3>8
  <2>16. Cardinality(C \cap R) \in Nat
    BY <1>9, FS_Subset, FS_CardinalityType
  <2> QED BY <1>5, <2>5, <2>15, <2>16
<1> QED BY <1>10, <1>11

(* A selection of places is as long as the places are many.                *)
LEMMA AtPlacesLength ==
    ASSUME NEW s, NEW places, IsFiniteSet(places)
    PROVE  /\ \E U : AtPlaces(s, places) \in Seq(U)
           /\ Len(AtPlaces(s, places)) = Cardinality(places)
<1> DEFINE n == Cardinality(places)
           r == AtPlaces(s, places)
           U == {r[k] : k \in 1..n}
<1>1. n \in Nat
  BY FS_CardinalityType
<1>2. r \in [1..n -> U]
  <2> DEFINE place == [k \in 1..n |->
                          CHOOSE i \in places : Cardinality({j \in places : j < i}) = k - 1]
  <2>1. r = [k \in DOMAIN place |-> s[place[k]]]
    BY DEF AtPlaces
  <2>2. DOMAIN place = 1..n
    OBVIOUS
  <2> HIDE DEF place
  <2>3. r = [k \in 1..n |-> s[place[k]]]
    BY <2>1, <2>2
  <2> HIDE DEF r, n
  <2> QED BY <2>3
<1> HIDE DEF r, n, U
<1>3. r \in Seq(U)
  BY <1>1, <1>2, SeqDef
<1>4. DOMAIN r = 1..n /\ DOMAIN r = 1..Len(r) /\ Len(r) \in Nat
  BY <1>2, <1>3, LenProperties
<1>5. Len(r) = n
  BY <1>1, <1>4
<1> QED BY <1>3, <1>5 DEF r, n

(* Diversity orders the results and drops none below the limit.            *)
LEMMA DiverseLength ==
    ASSUME NEW U, NEW s \in Seq(U), NEW documentOf, NEW n \in Nat
    PROVE  Len(SelectDiverseResults(s, documentOf, n)) = Least(n, Len(s))
<1> DEFINE some == {i \in DOMAIN s : Preferred(s, documentOf, i) = TRUE}
           rest == {i \in DOMAIN s : Preferred(s, documentOf, i) = FALSE}
           first  == InOrder(s, documentOf, TRUE)
           second == InOrder(s, documentOf, FALSE)
<1>1. DOMAIN s = 1..Len(s) /\ Len(s) \in Nat
  BY LenProperties
<1>2. IsFiniteSet(1..Len(s)) /\ Cardinality(1..Len(s)) = Len(s)
  <2>1. \A k \in Nat : IsFiniteSet(1..k) /\ Cardinality(1..k) = IF 1 > k THEN 0 ELSE k - 1 + 1
    BY FS_Interval
  <2> QED BY <1>1, <2>1
<1>3. /\ some \cup rest = 1..Len(s)
      /\ some \cap rest = {}
  <2>1. \A i \in DOMAIN s : Preferred(s, documentOf, i) \in BOOLEAN
    BY DEF Preferred
  <2> QED BY <1>1, <2>1
<1>4. IsFiniteSet(some) /\ IsFiniteSet(rest)
  <2>1. some \in SUBSET (1..Len(s)) /\ rest \in SUBSET (1..Len(s))
    BY <1>1
  <2> HIDE DEF some, rest
  <2> QED BY <1>2, <2>1, FS_Subset
<1>5. first = AtPlaces(s, some) /\ second = AtPlaces(s, rest)
  BY DEF InOrder
<1> HIDE DEF some, rest, first, second
<1>6. Cardinality(some) + Cardinality(rest) = Len(s)
  <2>1. Cardinality(some \cup rest)
           = Cardinality(some) + Cardinality(rest)
                - Cardinality(some \cap rest)
    BY <1>4, FS_Union
  <2>2. Cardinality(some) \in Nat /\ Cardinality(rest) \in Nat
    BY <1>4, FS_CardinalityType
  <2>3. Cardinality(some \cup rest) = Len(s)
    BY <1>2, <1>3
  <2>4. Cardinality(some \cap rest) = 0
    BY <1>3, FS_EmptySet
  <2> QED BY <2>1, <2>2, <2>3, <2>4
<1>7. PICK P : first \in Seq(P)
  BY <1>4, <1>5, AtPlacesLength
<1>8. PICK Q : second \in Seq(Q)
  BY <1>4, <1>5, AtPlacesLength
<1>9. first \in Seq(P \cup Q) /\ second \in Seq(P \cup Q)
  BY <1>7, <1>8, SeqMonotonic
<1>10. first \o second \in Seq(P \cup Q) /\ Len(first \o second) = Len(s)
  <2>1. Len(first) = Cardinality(some) /\ Len(second) = Cardinality(rest)
    BY <1>4, <1>5, AtPlacesLength
  <2> QED BY <1>6, <1>9, <2>1, ConcatProperties
<1>11. Len(FirstOf(first \o second, n)) = Least(n, Len(first \o second))
  BY <1>10, FirstOfProperties
<1> QED BY <1>10, <1>11 DEF SelectDiverseResults, first, second

(* The places of a list without repetitions that hold members of a set.    *)
LEMMA CountPlaces ==
    ASSUME NEW U, NEW s \in Seq(U), IsInjective(s), NEW R,
           NEW I, I = {i \in DOMAIN s : s[i] \in R}
    PROVE  IsFiniteSet(I) /\ Cardinality(I) = Cardinality(ToSet(s) \cap R)
<1>1. DOMAIN s = 1..Len(s) /\ Len(s) \in Nat
  BY LenProperties
<1>2. IsFiniteSet(I)
  <2>1. IsFiniteSet(1..Len(s))
    BY <1>1, FS_Interval
  <2>2. I \in SUBSET (1..Len(s))
    BY <1>1
  <2> QED BY <2>1, <2>2, FS_Subset
<1> DEFINE f == [i \in I |-> s[i]]
<1>3. f \in Injection(I, ToSet(s) \cap R)
  BY DEF Injection, IsInjective, ToSet
<1>4. f \in Surjection(I, ToSet(s) \cap R)
  BY DEF Surjection, ToSet
<1> HIDE DEF f
<1>5. ExistsBijection(I, ToSet(s) \cap R)
  BY <1>3, <1>4 DEF ExistsBijection, Bijection
<1> QED BY <1>2, <1>5, FS_Bijection

LEMMA FullSearch ==
    ASSUME NEW corpus \in Corpora, NEW limit \in Limits
    PROVE  LET keywords == Keywords(corpus, limit)
               found == ToSet(Vectors(corpus, limit)) \cup ToSet(keywords)
           IN Len(Search(corpus, limit))
                 = Least(limit, Cardinality({c \in found : Relevant(corpus, keywords, c)}))
<1> DEFINE V == Vectors(corpus, limit)
           queries == [q \in DOMAIN corpus.queries |->
                          FirstOf(corpus.queries[q], CandidateLimit(limit))]
           K == Keywords(corpus, limit)
           F == Candidates(corpus, K, limit)
           found == ToSet(V) \cup ToSet(K)
           R == {c \in found : Relevant(corpus, K, c)}
           I == {i \in DOMAIN F : Relevant(corpus, K, F[i])}
<1>1. limit \in Nat \ {0} /\ NormalizeLimit(limit) = limit
  <2>1. limit \in 1..10
    BY SearchAssumption DEF MaxLimit
  <2> QED BY <2>1 DEF NormalizeLimit, Least, MaxLimit
<1>2. CandidateLimit(limit) = 4 * limit /\ 4 * limit \in Nat
  BY <1>1 DEF CandidateLimit, Multiplier
<1>3. /\ corpus.vector \in Seq(Nat) /\ IsInjective(corpus.vector)
      /\ corpus.queries \in Seq(Seq(Nat)) /\ corpus.similar \in Nat
  BY SearchAssumption
<1>4. /\ V \in Seq(Nat) /\ IsInjective(V)
      /\ \A i \in 1..Len(V) : i \in 1..Len(corpus.vector) /\ V[i] = corpus.vector[i]
  <2> DEFINE W == corpus.vector
  <2>1. V = FirstOf(W, 4 * limit)
    BY <1>2 DEF Vectors
  <2>2. W \in Seq(Nat) /\ IsInjective(W) /\ DOMAIN W = 1..Len(W) /\ Len(W) \in Nat
    BY <1>3, LenProperties
  <2> HIDE DEF V, W
  <2>3. /\ V \in Seq(Nat) /\ Len(V) \in Nat /\ Len(V) <= Len(W)
        /\ \A i \in 1..Len(V) : V[i] = W[i]
    BY <1>2, <2>1, <2>2, FirstOfProperties
  <2>4. DOMAIN V = 1..Len(V) /\ \A i \in 1..Len(V) : i \in 1..Len(W)
    BY <2>2, <2>3, LenProperties
  <2>5. IsInjective(V)
    BY <2>2, <2>3, <2>4 DEF IsInjective
  <2> QED BY <2>3, <2>4, <2>5 DEF W
<1>5. queries \in Seq(Seq(Nat))
  <2>1. /\ DOMAIN corpus.queries = 1..Len(corpus.queries) /\ Len(corpus.queries) \in Nat
        /\ \A q \in DOMAIN corpus.queries : corpus.queries[q] \in Seq(Nat)
    BY <1>3, LenProperties, ElementOfSeq
  <2>2. \A q \in DOMAIN corpus.queries :
           FirstOf(corpus.queries[q], CandidateLimit(limit)) \in Seq(Nat)
    BY <1>2, <2>1, FirstOfProperties
  <2>3. queries \in [1..Len(corpus.queries) -> Seq(Nat)]
    BY <2>1, <2>2
  <2> HIDE DEF queries
  <2> QED BY <2>1, <2>3, SeqDef
<1>6. K = Fused(queries, 4 * limit)
  BY <1>2 DEF Keywords
<1>7. F = Fused(<<V, K>>, 4 * limit)
  BY <1>2 DEF Candidates
<1> HIDE DEF queries
<1>8. ASSUME NEW lists \in Seq(Seq(Nat))
      PROVE  LET f == Fused(lists, 4 * limit) IN
             f \in Seq(Nat) /\ IsInjective(f) /\ ToSet(f) \subseteq All(lists)
  <2> DEFINE f == Fused(lists, 4 * limit)
  <2>1. f \in Seq(All(lists)) /\ \A i \in 1..Len(f) : Place(lists)[f[i]] = i
    BY <1>2, FusedProperties
  <2>2. DOMAIN f = 1..Len(f) /\ f \in [1..Len(f) -> All(lists)]
    BY <2>1, LenProperties
  <2>3. f \in Seq(Nat)
    BY <2>1, AllFinite, SeqMonotonic
  <2> HIDE DEF f
  <2>4. IsInjective(f)
    BY <2>1, <2>2 DEF IsInjective
  <2>5. ToSet(f) \subseteq All(lists)
    BY <2>2 DEF ToSet
  <2> QED BY <2>3, <2>4, <2>5 DEF f
<1>9. K \in Seq(Nat) /\ IsInjective(K)
  BY <1>5, <1>6, <1>8
<1> HIDE DEF V, K, F
<1>10. F \in Seq(Nat) /\ IsInjective(F) /\ ToSet(F) \subseteq found
  <2> DEFINE lists == <<V, K>>
  <2>1. lists \in Seq(Seq(Nat)) /\ DOMAIN lists = 1..2 /\ lists[1] = V /\ lists[2] = K
    BY <1>4, <1>9
  <2>2. \A i \in 1..2 : i = 1 \/ i = 2
    OBVIOUS
  <2> HIDE DEF lists
  <2>3. All(lists) \subseteq found
    BY <2>1, <2>2 DEF All
  <2>4. F \in Seq(Nat) /\ IsInjective(F) /\ ToSet(F) \subseteq All(lists)
    BY <1>7, <1>8, <2>1 DEF lists
  <2> QED BY <2>3, <2>4
<1>11. R \in SUBSET found /\ ToSet(K) \subseteq R
  BY <1>9, RankOf DEF Relevant
<1>12. ASSUME NEW i \in 1..Len(V)
       PROVE  V[i] \in R <=> V[i] \in ToSet(K) \/ i <= corpus.similar
  <2>1. V[i] \in found /\ i \in 1..Len(corpus.vector) /\ V[i] = corpus.vector[i]
    BY <1>4, RankOf
  <2>2. Rank(corpus.vector, V[i]) = i
    BY <1>3, <2>1, RankOf
  <2>3. Contains(K, V[i]) <=> V[i] \in ToSet(K)
    BY <1>9, RankOf
  <2> QED BY <2>1, <2>2, <2>3 DEF Relevant
<1>13. Least(limit, Cardinality(ToSet(F) \cap R)) = Least(limit, Cardinality(R))
  <2> DEFINE similar == corpus.similar
  <2> HIDE DEF R
  <2>1. R \in SUBSET (ToSet(V) \cup ToSet(K)) /\ similar \in Nat
    BY <1>3, <1>11
  <2>2. CutAt(V, K, R, similar)
    BY <1>12 DEF CutAt
  <2> HIDE DEF similar
  <2>3. Least(limit, Cardinality(ToSet(Fused(<<V, K>>, 4 * limit)) \cap R))
           = Least(limit, Cardinality(R))
    BY <1>1, <1>4, <1>9, <1>11, <2>1, <2>2, EnoughCandidates
  <2> QED BY <1>7, <2>3
<1>14. IsFiniteSet(I) /\ Cardinality(I) = Cardinality(ToSet(F) \cap R)
  <2>1. I = {i \in DOMAIN F : F[i] \in R}
    BY <1>10 DEF ToSet
  <2> HIDE DEF I, R
  <2> QED BY <1>10, <2>1, CountPlaces
<1>15. Len(Search(corpus, limit)) = Least(limit, Cardinality(I))
  <2>1. Search(corpus, limit)
           = SelectDiverseResults(AtPlaces(F, I), corpus.documentOf, limit)
    BY <1>1 DEF Search, K, F
  <2> HIDE DEF I
  <2>2. PICK U : AtPlaces(F, I) \in Seq(U)
    BY <1>14, AtPlacesLength
  <2>3. Len(AtPlaces(F, I)) = Cardinality(I)
    BY <1>14, AtPlacesLength
  <2>4. limit \in Nat
    BY <1>1
  <2> QED BY <2>1, <2>2, <2>3, <2>4, DiverseLength
<1> HIDE DEF I
<1> QED BY <1>13, <1>14, <1>15 DEF V, K, R, found

LEMMA AllSearchesFull == Unfilled = {}
BY FullSearch DEF Unfilled

(* A search finds as many results as it was asked for, if so many relevant *)
(* chunks are among its vector and keyword candidates: the cut at          *)
(* SEARCH_CANDIDATE_MULTIPLIER times the limit and the diversity after it  *)
(* cost none (rag-search.service.ts). For any corpus and any limit.        *)
THEOREM FullSearchesHolds == Spec => []FullSearches
<1>1. FullSearches
  BY AllSearchesFull DEF FullSearches
<1> QED BY <1>1, PTL
=============================================================================
