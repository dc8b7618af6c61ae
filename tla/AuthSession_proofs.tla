------------------------- MODULE AuthSession_proofs -------------------------
(* Theorems about AuthSession: for any number of browsers, tabs, calls,    *)
(* sign-ins and tokens.                                                    *)
EXTENDS AuthSession, TLAPS

USE DEF Sessions

CallState == [at : {"idle", "sent", "wait", "find", "rotate", "answer", "again"},
              on : Calls \cup {None}, token : 0..MaxTokens,
              row : {0} \cup Sessions, hash : 0..MaxTokens, next : 0..MaxTokens]

RowState == [state : {"free", "live", "expired", "revoked"}, hash : 0..MaxTokens]

(* A call that takes no part in a refresh, or no longer does.              *)
Aside(r) == r.at \in {"idle", "sent", "wait", "again"} /\ r.next = 0

(***************************************************************************)
(* The inductive invariant.  A row never has a hash again that it had      *)
(* before: tokens are numbered as they are issued, and the hash of a row   *)
(* only goes up.  A refresh that found a row knows a hash not newer than   *)
(* the row's, and one that has won knows an older one: nobody else can win *)
(* with the hash that it replaced.                                         *)
(***************************************************************************)
HashesIssued == \A s \in Sessions : session[s].hash <= tokens

Found(c) == call[c].at = "rotate" =>
    call[c].row \in Sessions /\ call[c].hash <= session[call[c].row].hash

Replaced(c) == Won(c) =>
    call[c].row \in Sessions /\ call[c].hash < session[call[c].row].hash

RowsKnown ==
    /\ \A c \in Calls : call[c].at # "answer" => call[c].next = 0
    /\ \A c \in Calls : Found(c) /\ Replaced(c)

Inv == TypeOK /\ HashesIssued /\ RowsKnown /\ RotatedOnce

LEMMA IdleIsIdle ==
    /\ Idle \in CallState /\ Aside(Idle)
    /\ Idle.at = "idle"
BY SessionAssumption DEF Idle, CallState, Aside

LEMMA TypedCalls == ASSUME TypeOK PROVE call \in [Calls -> CallState]
BY DEF TypeOK, CallState

LEMMA TypedRows == ASSUME TypeOK PROVE session \in [Sessions -> RowState]
BY DEF TypeOK, RowState

LEMMA TypedTabs ==
    ASSUME TypeOK
    PROVE  /\ cookie \in [Browsers -> 0..MaxTokens] /\ tokens \in 0..MaxTokens
           /\ promise \in [Tabs -> Calls \cup {None}]
           /\ spent \in [Tabs -> SUBSET (0..MaxTokens)]
BY DEF TypeOK

LEMMA CallParts ==
    \A c \in Calls : TabOf(c) \in Tabs /\ BrowserOf(c) \in Browsers /\ TabOf(c)[1] = BrowserOf(c)
BY DEF Calls, Tabs, TabOf, BrowserOf

(* When a promise settles, the calls that took part in it go on.           *)
LEMMA Settled ==
    ASSUME TypeOK, NEW c \in Calls, NEW stage \in {"idle", "again"}, Settle(c, stage)
    PROVE  /\ call' \in [Calls -> CallState]
           /\ promise' \in [Tabs -> Calls \cup {None}]
           /\ \A d \in Calls :
                 IF d = c \/ (call[d].at = "wait" /\ call[d].on = c)
                 THEN Aside(call'[d]) /\ call'[d].at = stage ELSE call'[d] = call[d]
           /\ promise' = [promise EXCEPT ![TabOf(c)] = None]
<1>1. At(stage) \in CallState /\ Aside(At(stage)) /\ At(stage).at = stage
  BY SessionAssumption DEF At, Idle, CallState, Aside
<1>2. call' = [d \in Calls |-> IF d = c \/ (call[d].at = "wait" /\ call[d].on = c)
                               THEN At(stage) ELSE call[d]]
  BY DEF Settle
<1>3. call' \in [Calls -> CallState]
  BY <1>1, <1>2, TypedCalls
<1>4. promise' \in [Tabs -> Calls \cup {None}]
  BY DEF Settle, TypeOK
<1> QED BY <1>1, <1>2, <1>3, <1>4 DEF Settle

LEMMA Counts ==
    ASSUME tokens \in 0..MaxTokens, tokens < MaxTokens
    PROVE  tokens + 1 \in 0..MaxTokens
BY SessionAssumption

LEMMA TabParts == \A t \in Tabs : t[1] \in Browsers
BY DEF Tabs

(***************************************************************************)
(* Types.                                                                  *)
(***************************************************************************)
LEMMA InitType == Init => TypeOK
BY SessionAssumption DEF Init, TypeOK, Idle

LEMMA SignInType == ASSUME TypeOK, NEW t \in Tabs, SignIn(t) PROVE TypeOK'
<1>1. t[1] \in Browsers
  BY TabParts
<1>2. tokens + 1 \in 0..MaxTokens
  BY Counts DEF TypeOK, SignIn
<1> QED BY <1>1, <1>2 DEF TypeOK, SignIn

LEMMA ClockType ==
    ASSUME TypeOK, \/ \E t \in Tabs : ExpireAccess(t)
                   \/ \E s \in Sessions : ExpireSession(s)
    PROVE  TypeOK'
<1>1. ASSUME NEW t \in Tabs, ExpireAccess(t) PROVE TypeOK'
  BY <1>1 DEF TypeOK, ExpireAccess, server, history
<1>2. ASSUME NEW s \in Sessions, ExpireSession(s) PROVE TypeOK'
  <2>1. [session[s] EXCEPT !.state = "expired"] \in RowState
    BY TypedRows DEF RowState
  <2>2. session' \in [Sessions -> RowState]
    BY <1>2, <2>1, TypedRows DEF ExpireSession
  <2> QED BY <1>2, <2>2 DEF TypeOK, RowState, ExpireSession, history
<1> QED BY <1>1, <1>2

(* A request that is sent, lost or repeated.                               *)
LEMMA SendStep ==
    ASSUME TypeOK, NEW c \in Calls, Send(c) \/ LoseRequest(c) \/ Again(c)
    PROVE  /\ call' \in [Calls -> CallState]
           /\ Aside(call'[c]) /\ call'[c].at # "wait" /\ ~InFlight(c)
           /\ \A d \in Calls : d # c => call'[d] = call[d]
<1>1. At("sent") \in CallState /\ Aside(At("sent")) /\ At("sent").at = "sent"
  BY SessionAssumption DEF At, Idle, CallState, Aside
<1>2. call' \in {[call EXCEPT ![c] = At("sent")], [call EXCEPT ![c] = Idle]}
  BY DEF Send, LoseRequest, Again
<1>3. call[c].at \in {"idle", "sent", "again"}
  BY DEF Send, LoseRequest, Again
<1> QED BY <1>1, <1>2, <1>3, IdleIsIdle, TypedCalls DEF InFlight

LEMMA SendType ==
    ASSUME TypeOK, NEW c \in Calls, Send(c) \/ LoseRequest(c) \/ Again(c) PROVE TypeOK'
<1>1. call' \in [Calls -> CallState]
  BY SendStep
<1>2. auth' \in [Tabs -> {"in", "stale", "out"}]
  BY CallParts DEF TypeOK, Send, LoseRequest, Again
<1> QED BY <1>1, <1>2 DEF TypeOK, Send, LoseRequest, Again, CallState, server, history

(* A refresh that starts, with a request of its own or without.            *)
LEMMA StartStep ==
    ASSUME TypeOK, NEW c \in Calls, StartRefresh(c)
    PROVE  /\ call' \in [Calls -> CallState]
           /\ call[c].at \in {"idle", "sent"} /\ call'[c].next = 0
           /\ \A d \in Calls : d # c => call'[d] = call[d]
           /\ \/ /\ promise[TabOf(c)] = None /\ promise' = [promise EXCEPT ![TabOf(c)] = c]
                 /\ call'[c].at = "find" /\ call'[c].token = cookie[BrowserOf(c)]
              \/ /\ promise[TabOf(c)] # None /\ promise' = promise
                 /\ call'[c].at = "wait" /\ call'[c].on = promise[TabOf(c)]
<1>1. cookie[BrowserOf(c)] \in 0..MaxTokens /\ promise[TabOf(c)] \in Calls \cup {None}
  BY CallParts, TypedTabs
<1>2. RefreshOf(c) \in CallState /\ Waiting(promise[TabOf(c)]) \in CallState
  <2>1. 0 \in 0..MaxTokens
    BY SessionAssumption
  <2> QED BY <1>1, <2>1 DEF RefreshOf, Waiting, Idle, CallState
<1>3. /\ RefreshOf(c).at = "find" /\ RefreshOf(c).next = 0
      /\ RefreshOf(c).token = cookie[BrowserOf(c)]
  BY DEF RefreshOf, Idle
<1>4. /\ Waiting(promise[TabOf(c)]).at = "wait" /\ Waiting(promise[TabOf(c)]).next = 0
      /\ Waiting(promise[TabOf(c)]).on = promise[TabOf(c)]
  BY DEF Waiting, Idle
<1> QED BY <1>2, <1>3, <1>4, TypedCalls DEF StartRefresh, Refreshes

LEMMA StartType == ASSUME TypeOK, NEW c \in Calls, StartRefresh(c) PROVE TypeOK'
<1>1. call' \in [Calls -> CallState]
  BY StartStep
<1>2. promise' \in [Tabs -> Calls \cup {None}]
  BY CallParts, StartStep, TypedTabs
<1> QED BY <1>1, <1>2 DEF TypeOK, StartRefresh, CallState, server, history

LEMMA FindType == ASSUME TypeOK, NEW c \in Calls, Find(c) PROVE TypeOK'
<1>1. call' \in [Calls -> CallState]
  <2>1. CASE call' = [call EXCEPT ![c].at = "answer"]
    <3>1. [call[c] EXCEPT !.at = "answer"] \in CallState
      BY TypedCalls DEF CallState
    <3> QED BY <2>1, <3>1, TypedCalls
  <2>2. ASSUME NEW s \in Matched(call[c].token),
               call' = [call EXCEPT ![c].at = "rotate", ![c].row = s, ![c].hash = session[s].hash]
        PROVE  call' \in [Calls -> CallState]
    <3>1. s \in Sessions /\ session[s].hash \in 0..MaxTokens
      BY TypedRows DEF Matched, RowState
    <3>2. [call[c] EXCEPT !.at = "rotate", !.row = s, !.hash = session[s].hash] \in CallState
      BY <3>1, TypedCalls DEF CallState
    <3> QED BY <2>2, <3>2, TypedCalls
  <2> QED BY <2>1, <2>2 DEF Find
<1> QED BY <1>1 DEF TypeOK, Find, CallState, server, history

LEMMA RotateType == ASSUME TypeOK, NEW c \in Calls, Rotate(c) PROVE TypeOK'
<1> DEFINE s == call[c].row
<1>1. CASE RotateTo(c, s)
  <2>1. tokens + 1 \in 0..MaxTokens
    BY Counts DEF TypeOK, Rotate
  <2>2. call' \in [Calls -> CallState]
    BY <1>1, <2>1, TypedCalls DEF RotateTo, CallState
  <2>3. session' \in [Sessions -> RowState]
    <3>1. \A r \in Sessions : [session[r] EXCEPT !.hash = tokens + 1] \in RowState
      BY <2>1, TypedRows DEF RowState
    <3> QED BY <1>1, <3>1, TypedRows DEF RotateTo
  <2> QED BY <1>1, <2>1, <2>2, <2>3 DEF TypeOK, RowState, Rotate, RotateTo, CallState, history
<1>2. CASE Refuse(c)
  <2>1. call' \in [Calls -> CallState]
    BY <1>2, TypedCalls DEF Refuse, CallState
  <2> QED BY <1>2, <2>1 DEF TypeOK, Rotate, Refuse, CallState, server, history
<1> QED BY <1>1, <1>2 DEF Rotate

LEMMA AnswerType ==
    ASSUME TypeOK, NEW c \in Calls, Answer(c) \/ LoseAnswer(c) PROVE TypeOK'
<1>1. TabOf(c) \in Tabs /\ BrowserOf(c) \in Browsers /\ call[c] \in CallState
  BY CallParts, TypedCalls
<1>2. call' \in [Calls -> CallState] /\ promise' \in [Tabs -> Calls \cup {None}]
  BY Settled DEF Answer, LoseAnswer
<1>3. call[c].next \in 0..MaxTokens /\ call[c].token \in 0..MaxTokens
  BY <1>1 DEF CallState
<1>4. CASE Answer(c)
  <2>1. spent' \in [Tabs -> SUBSET (0..MaxTokens)]
    <3>1. spent[TabOf(c)] \cup {call[c].token} \in SUBSET (0..MaxTokens)
      BY <1>1, <1>3, TypedTabs
    <3> QED BY <1>1, <1>4, <3>1, TypedTabs DEF Answer
  <2>2. thrown' \subseteq Tabs
    BY <1>1, <1>4 DEF TypeOK, Answer
  <2>4. cookie' \in [Browsers -> 0..MaxTokens]
    BY <1>1, <1>3, <1>4, TypedTabs DEF Answer
  <2>3. auth' \in [Tabs -> {"in", "stale", "out"}]
    BY <1>4 DEF TypeOK, Answer
  <2> QED BY <1>2, <1>4, <2>1, <2>2, <2>3, <2>4 DEF TypeOK, Answer, CallState, server
<1>5. CASE LoseAnswer(c)
  BY <1>1, <1>2, <1>5 DEF TypeOK, LoseAnswer, CallState, server, history
<1> QED BY <1>4, <1>5

LEMMA LogoutType ==
    ASSUME TypeOK, NEW t \in Tabs, LogoutFind(t) \/ LogoutRevoke(t) \/ LogoutNothing(t)
    PROVE  TypeOK'
<1>1. t[1] \in Browsers
  BY TabParts
<1>2. CASE LogoutFind(t)
  BY <1>1, <1>2 DEF TypeOK, LogoutFind, Matched, server, history
<1>3. ASSUME LoggedOut(t)
      PROVE  /\ cookie' \in [Browsers -> 0..MaxTokens] /\ home' \in [Browsers -> {0} \cup Sessions]
             /\ auth' \in [Tabs -> {"in", "stale", "out"}]
  <2>1. 0 \in 0..MaxTokens /\ cookie \in [Browsers -> 0..MaxTokens]
    BY SessionAssumption, TypedTabs
  <2>2. cookie' \in [Browsers -> 0..MaxTokens]
    BY <1>1, <1>3, <2>1 DEF LoggedOut
  <2>3. home' \in [Browsers -> {0} \cup Sessions] /\ auth' \in [Tabs -> {"in", "stale", "out"}]
    BY <1>3 DEF TypeOK, LoggedOut
  <2> QED BY <2>2, <2>3
<1>4. CASE LogoutRevoke(t)
  <2>1. leaving[t] \in Sessions
    BY <1>4 DEF TypeOK, LogoutRevoke
  <2>2. [session[leaving[t]] EXCEPT !.state = "revoked"] \in RowState
    BY <2>1, TypedRows DEF RowState
  <2>3. session' \in [Sessions -> RowState]
    BY <1>4, <2>1, <2>2, TypedRows DEF LogoutRevoke
  <2>4. leaving' \in [Tabs -> {0} \cup Sessions]
    BY <1>4 DEF TypeOK, LogoutRevoke
  <2> QED BY <1>3, <1>4, <2>3, <2>4 DEF TypeOK, RowState, LogoutRevoke
<1>5. CASE LogoutNothing(t)
  BY <1>3, <1>5 DEF TypeOK, LogoutNothing, server
<1> QED BY <1>2, <1>4, <1>5

LEMMA NextType == TypeOK /\ [Next]_vars => TypeOK'
<1> SUFFICES ASSUME TypeOK, [Next]_vars PROVE TypeOK'
  OBVIOUS
<1>1. CASE UNCHANGED vars
  BY <1>1 DEF vars, TypeOK
<1>2. CASE Next
  BY <1>2, SignInType, ClockType, SendType, StartType, FindType, RotateType, AnswerType, LogoutType DEF Next
<1> QED BY <1>1, <1>2

(* Type correctness: every variable of AuthSession has its type.           *)
THEOREM TypeCorrect == Spec => []TypeOK
BY InitType, NextType, PTL DEF Spec

(***************************************************************************)
(* Rotation.                                                               *)
(***************************************************************************)
(* A step after which some calls know no row any more, and that lowers no  *)
(* hash, keeps what the refreshes know of the rows.                        *)
LEMMA RowsKept ==
    ASSUME Inv, TypeOK',
           \A s \in Sessions : session[s].hash <= session'[s].hash,
           \A d \in Calls : \/ call'[d] = call[d]
                            \/ call'[d].at \notin {"rotate", "answer"} /\ call'[d].next = 0
    PROVE  RowsKnown' /\ RotatedOnce'
<1>1. \A s \in Sessions : session[s].hash \in Nat /\ session'[s].hash \in Nat
  BY SessionAssumption DEF Inv, TypeOK
<1>2. \A d \in Calls : call[d].hash \in Nat
  BY SessionAssumption, TypedCalls DEF Inv, CallState
<1>3. ASSUME NEW d \in Calls PROVE Found(d)' /\ Replaced(d)'
  BY <1>1, <1>2 DEF Inv, RowsKnown, Found, Replaced, Won
<1>4. RotatedOnce'
  BY DEF Inv, RotatedOnce, Won
<1>5. \A d \in Calls : call'[d].at # "answer" => call'[d].next = 0
  BY DEF Inv, RowsKnown
<1> QED BY <1>3, <1>4, <1>5 DEF RowsKnown

LEMMA FindKept ==
    ASSUME Inv, NEW c \in Calls, Find(c) PROVE RowsKnown' /\ RotatedOnce'
<1> USE DEF Inv
<1>1. \A d \in Calls : d # c => call'[d] = call[d]
  BY TypedCalls DEF Find
<1>2. session' = session
  BY DEF Find, server
<1>3. call[c].next = 0
  BY DEF RowsKnown, Find
<1>4. /\ call'[c].next = 0 /\ ~Won(c)'
      /\ Found(c)'
  <2>1. CASE call' = [call EXCEPT ![c].at = "answer"]
    BY <1>3, <2>1, TypedCalls DEF Won, Found, CallState
  <2>2. ASSUME NEW s \in Matched(call[c].token),
               call' = [call EXCEPT ![c].at = "rotate", ![c].row = s, ![c].hash = session[s].hash]
        PROVE  call'[c].next = 0 /\ ~Won(c)' /\ Found(c)'
    <3>1. s \in Sessions /\ session[s].hash \in Nat
      BY SessionAssumption DEF Matched, TypeOK
    <3>2. call'[c].at = "rotate" /\ call'[c].row = s /\ call'[c].hash = session[s].hash
          /\ call'[c].next = 0
      BY <1>3, <2>2, TypedCalls DEF CallState
    <3> QED BY <1>2, <3>1, <3>2 DEF Won, Found
  <2> QED BY <2>1, <2>2 DEF Find
<1> QED BY <1>1, <1>2, <1>4 DEF RowsKnown, Found, Replaced, RotatedOnce, Won

(* The refresh that wins replaces the hash that it found: whoever has won  *)
(* with this row before knows an older one.                                *)
LEMMA RotateKept ==
    ASSUME Inv, NEW c \in Calls, Rotate(c) PROVE RowsKnown' /\ RotatedOnce'
<1> USE DEF Inv
<1> DEFINE s == call[c].row
<1>1. \A d \in Calls : d # c => call'[d] = call[d]
  BY TypedCalls DEF Rotate, RotateTo, Refuse
<1>2. s \in Sessions /\ call[c].next = 0
  BY DEF RowsKnown, Found, Rotate
<1>3. \A d \in Calls : call[d].hash \in Nat
  BY SessionAssumption, TypedCalls DEF CallState
<1>4. \A r \in Sessions : session[r].hash \in Nat /\ session[r].hash <= tokens
  BY SessionAssumption DEF TypeOK, HashesIssued
<1>5. CASE RotateTo(c, s) /\ session[s].hash = call[c].hash
  <2>1. /\ call'[c].at = "answer" /\ call'[c].row = s
        /\ call'[c].hash = call[c].hash
    BY <1>5, TypedCalls DEF RotateTo, CallState
  <2>2. session'[s].hash = tokens + 1 /\ \A r \in Sessions : r # s => session'[r] = session[r]
    BY <1>2, <1>5 DEF RotateTo, TypeOK
  <2>3. tokens \in Nat
    BY SessionAssumption DEF TypeOK
  <2>4. \A r \in Sessions : session[r].hash <= session'[r].hash
    BY <1>4, <2>2, <2>3
  <2>5. \A r \in Sessions : session'[r].hash \in Nat
    BY <1>4, <2>2, <2>3
  <2>6. ASSUME NEW d \in Calls PROVE Found(d)' /\ Replaced(d)'
    <3>1. CASE d = c
      BY <1>2, <1>3, <1>4, <1>5, <2>1, <2>2, <2>3, <3>1 DEF Found, Replaced, Won
    <3>2. CASE d # c
      BY <1>1, <1>3, <1>4, <2>4, <2>5, <3>2 DEF RowsKnown, Found, Replaced, Won
    <3> QED BY <3>1, <3>2
  <2>7. ASSUME NEW d \in Calls, d # c, Won(d)', call'[d].row = s
        PROVE  call'[d].hash # call'[c].hash
    BY <1>1, <1>3, <1>4, <1>5, <2>1, <2>7 DEF RowsKnown, Replaced, Won
  <2>8. RotatedOnce'
    BY <1>1, <2>1, <2>7 DEF RotatedOnce, Won
  <2>9. \A d \in Calls : call'[d].at # "answer" => call'[d].next = 0
    BY <1>1, <2>1 DEF RowsKnown
  <2> QED BY <2>6, <2>8, <2>9 DEF RowsKnown
<1>6. CASE Refuse(c)
  <2>1. call'[c].at = "answer" /\ call'[c].next = 0 /\ session' = session
    BY <1>2, <1>6, TypedCalls DEF Refuse, CallState, server
  <2> QED BY <1>1, <2>1 DEF RowsKnown, Found, Replaced, RotatedOnce, Won
<1> QED BY <1>5, <1>6 DEF Rotate

LEMMA HashesKept == ASSUME Inv, Next, TypeOK'
                    PROVE  HashesIssued' /\ \A s \in Sessions : session[s].hash <= session'[s].hash
<1> USE DEF Inv
<1>0. /\ tokens \in Nat
      /\ \A s \in Sessions : session[s].hash \in Nat /\ session[s].hash <= tokens
  BY SessionAssumption DEF TypeOK, HashesIssued
<1> DEFINE Kept == /\ tokens' \in Nat /\ tokens <= tokens'
                   /\ \A s \in Sessions :
                         session'[s].hash = session[s].hash \/ session'[s].hash = tokens'
<1>1. ASSUME NEW t \in Tabs, SignIn(t) PROVE Kept
  BY <1>0, <1>1 DEF SignIn, TypeOK
<1>2. ASSUME NEW t \in Tabs, LogoutRevoke(t) PROVE Kept
  BY <1>0, <1>2 DEF LogoutRevoke, TypeOK
<1>3. ASSUME NEW s \in Sessions, ExpireSession(s) PROVE Kept
  BY <1>0, <1>3 DEF ExpireSession, TypeOK
<1>4. ASSUME NEW c \in Calls, Rotate(c) PROVE Kept
  <2>1. call[c].row \in Sessions
    BY <1>4 DEF RowsKnown, Found, Rotate
  <2>2. CASE RotateTo(c, call[c].row)
    BY <1>0, <2>1, <2>2, TypedRows DEF RotateTo, RowState
  <2>3. CASE Refuse(c)
    BY <1>0, <2>3 DEF Refuse, server
  <2> QED BY <1>4, <2>2, <2>3 DEF Rotate
<1>5. ASSUME UNCHANGED <<session, tokens>> PROVE Kept
  BY <1>0, <1>5
<1>6. Kept
  BY <1>1, <1>2, <1>3, <1>4, <1>5
  DEF Next, ExpireAccess, LogoutFind, LogoutNothing, Send, LoseRequest, StartRefresh, Find,
      Answer, LoseAnswer, Again, server
<1> QED BY <1>0, <1>6 DEF HashesIssued

LEMMA InitInv == Init => Inv
<1> SUFFICES ASSUME Init PROVE Inv
  OBVIOUS
<1>1. TypeOK
  BY InitType
<1>2. HashesIssued
  BY DEF Init, HashesIssued
<1>3. RowsKnown /\ RotatedOnce
  BY DEF Init, Idle, RowsKnown, Found, Replaced, RotatedOnce, Won
<1> QED BY <1>1, <1>2, <1>3 DEF Inv

LEMMA NextInv == Inv /\ [Next]_vars => Inv'
<1> SUFFICES ASSUME Inv, [Next]_vars PROVE Inv'
  OBVIOUS
<1>1. TypeOK'
  BY NextType DEF Inv
<1>2. CASE UNCHANGED vars
  BY <1>1, <1>2 DEF Inv, vars, HashesIssued, RowsKnown, Found, Replaced, RotatedOnce, Won
<1>3. CASE Next
  <2>1. HashesIssued' /\ \A s \in Sessions : session[s].hash <= session'[s].hash
    BY <1>1, <1>3, HashesKept
  <2>2. ASSUME NEW c \in Calls, Find(c) \/ Rotate(c) PROVE RowsKnown' /\ RotatedOnce'
    BY <2>2, FindKept, RotateKept
  <2>3. ASSUME NEW c \in Calls, StartRefresh(c) \/ Send(c) \/ LoseRequest(c) \/ Again(c)
        PROVE  RowsKnown' /\ RotatedOnce'
    <3>1. \A d \in Calls : \/ call'[d] = call[d]
                           \/ call'[d].at \notin {"rotate", "answer"} /\ call'[d].next = 0
      BY <2>3, StartStep, SendStep DEF Inv, Aside
    <3> QED BY <1>1, <2>1, <3>1, RowsKept
  <2>4. ASSUME NEW c \in Calls, Answer(c) \/ LoseAnswer(c) PROVE RowsKnown' /\ RotatedOnce'
    <3>1. \A d \in Calls : call'[d] = call[d] \/ Aside(call'[d])
      BY <2>4, Settled DEF Inv, Answer, LoseAnswer
    <3> QED BY <1>1, <2>1, <3>1, RowsKept DEF Aside
  <2>5. ASSUME UNCHANGED call PROVE RowsKnown' /\ RotatedOnce'
    BY <1>1, <2>1, <2>5, RowsKept
  <2>6. RowsKnown' /\ RotatedOnce'
    BY <1>3, <2>2, <2>3, <2>4, <2>5
    DEF Next, SignIn, ExpireAccess, ExpireSession, LogoutFind, LogoutRevoke, LogoutNothing
  <2> QED BY <1>1, <2>1, <2>6 DEF Inv
<1> QED BY <1>2, <1>3

THEOREM InvHolds == Spec => []Inv
BY InitInv, NextInv, PTL DEF Spec

(* Of all the refreshes that found a row as it was, whatever tab or        *)
(* browser they come from, one replaces its hash (auth.service.ts:156).    *)
THEOREM RotatedOnceHolds == Spec => []RotatedOnce
<1>1. Inv => RotatedOnce
  BY DEF Inv
<1> QED BY <1>1, InvHolds, PTL

(* No step brings a revoked row back, or gives it a new hash.              *)
THEOREM RevokedIsFinalHolds == Spec => RevokedIsFinal
<1>1. ASSUME TypeOK, [Next]_vars, NEW s \in Sessions, session[s].state = "revoked"
      PROVE  session'[s] = session[s]
  <2>0. session \in [Sessions -> RowState]
    BY <1>1, TypedRows
  <2>1. ASSUME NEW t \in Tabs, SignIn(t) PROVE session'[s] = session[s]
    BY <1>1, <2>0, <2>1 DEF SignIn
  <2>2. ASSUME NEW t \in Tabs, LogoutRevoke(t) PROVE session'[s] = session[s]
    <3>1. [session[s] EXCEPT !.state = "revoked"] = session[s]
      BY <1>1, <2>0 DEF RowState
    <3> QED BY <2>0, <2>2, <3>1 DEF LogoutRevoke
  <2>3. ASSUME NEW r \in Sessions, ExpireSession(r) PROVE session'[s] = session[s]
    BY <1>1, <2>0, <2>3 DEF ExpireSession
  <2>4. ASSUME NEW c \in Calls, Rotate(c) PROVE session'[s] = session[s]
    BY <1>1, <2>0, <2>4 DEF Rotate, RotateTo, Refuse, server
  <2>5. CASE UNCHANGED session
    BY <2>5
  <2> QED BY <1>1, <2>1, <2>2, <2>3, <2>4, <2>5
    DEF Next, vars, ExpireAccess, LogoutFind, LogoutNothing, Send, LoseRequest, StartRefresh,
        Find, Answer, LoseAnswer, Again, server
<1>2. TypeOK /\ [Next]_vars =>
        [\A s \in Sessions : session[s].state = "revoked" => session'[s] = session[s]]_vars
  BY <1>1
<1> QED BY <1>2, TypeCorrect, PTL DEF Spec, RevokedIsFinal

(***************************************************************************)
(* The promise of a refresh.  PromiseKept: a refresh is on its way for a   *)
(* tab exactly when the promise names it, and whoever waits waits for it.  *)
(* Then the tokens: whatever is in a cookie, in a refresh or in an answer  *)
(* was issued; an answer's token is nowhere else; what a tab has had       *)
(* replaced is neither in its browser's cookie nor in a refresh of it.     *)
(***************************************************************************)
PromiseKept ==
    /\ \A c \in Calls, t \in Tabs : promise[t] = c <=> InFlight(c) /\ TabOf(c) = t
    /\ \A c \in Calls : call[c].at = "wait" =>
          \E d \in Calls : call[c].on = d /\ InFlight(d)

Issued ==
    /\ \A b \in Browsers : cookie[b] <= tokens
    /\ \A t \in Tabs : \A n \in spent[t] : n # 0 /\ n <= tokens
    /\ \A c \in Calls : InFlight(c) => call[c].token <= tokens
    /\ \A c \in Calls : call[c].at = "rotate" \/ Won(c) => call[c].token # 0

NotSpent ==
    /\ \A t \in Tabs : cookie[t[1]] \notin spent[t]
    /\ \A c \in Calls : InFlight(c) => call[c].token \notin spent[TabOf(c)]

Fresh(c) == Won(c) =>
    /\ call[c].next <= tokens
    /\ \A b \in Browsers : cookie[b] # call[c].next
    /\ \A t \in Tabs : call[c].next \notin spent[t]
    /\ \A d \in Calls : InFlight(d) => call[d].token # call[c].next
    /\ \A d \in Calls : Won(d) /\ d # c => call[d].next # call[c].next

TokensKept == Issued /\ NotSpent /\ \A c \in Calls : Fresh(c)

(* Every number in sight is a natural number.                              *)
LEMMA Numbers ==
    ASSUME TypeOK
    PROVE  /\ tokens \in Nat
           /\ \A b \in Browsers : cookie[b] \in Nat
           /\ \A t \in Tabs : \A n \in spent[t] : n \in Nat
           /\ \A c \in Calls : call[c].token \in Nat /\ call[c].next \in Nat
BY TypedTabs, TypedCalls, SessionAssumption DEF CallState

(* A step that starts and ends no refresh.                                 *)
LEMMA PromiseSame ==
    ASSUME PromiseKept, promise' = promise,
           \A d \in Calls : InFlight(d)' <=> InFlight(d),
           \A d \in Calls : call'[d].at = "wait" =>
               \/ call[d].at = "wait" /\ call'[d].on = call[d].on
               \/ \E e \in Calls : call'[d].on = e /\ InFlight(e)
    PROVE  PromiseKept'
<1>1. \A d \in Calls, t \in Tabs : promise'[t] = d <=> InFlight(d)' /\ TabOf(d) = t
  BY DEF PromiseKept
<1>2. \A d \in Calls : call'[d].at = "wait" =>
         \E e \in Calls : call'[d].on = e /\ InFlight(e)'
  BY DEF PromiseKept
<1> QED BY <1>1, <1>2 DEF PromiseKept

LEMMA StartPromise ==
    ASSUME TypeOK, PromiseKept, NEW c \in Calls, StartRefresh(c) PROVE PromiseKept'
<1> DEFINE t == TabOf(c)
<1>1. /\ t \in Tabs /\ ~InFlight(c) /\ promise[t] \in Calls \cup {None}
      /\ \A d \in Calls : d # c => call'[d] = call[d] /\ (InFlight(d)' <=> InFlight(d))
  BY CallParts, StartStep, TypedTabs DEF InFlight
<1>2. CASE promise[t] = None
  <2>1. promise' = [promise EXCEPT ![t] = c] /\ call'[c].at = "find" /\ InFlight(c)'
    BY <1>2, StartStep DEF InFlight
  <2>2. promise'[t] = c /\ \A u \in Tabs : u # t => promise'[u] = promise[u]
    BY <1>1, <2>1, TypedTabs
  <2>3. ASSUME NEW d \in Calls, NEW u \in Tabs
        PROVE  promise'[u] = d <=> InFlight(d)' /\ TabOf(d) = u
    <3>1. CASE d = c
      BY <1>1, <2>1, <2>2, <3>1 DEF PromiseKept
    <3>2. CASE d # c
      BY <1>1, <1>2, <2>2, <3>2, SessionAssumption DEF PromiseKept
    <3> QED BY <3>1, <3>2
  <2>4. ASSUME NEW d \in Calls, call'[d].at = "wait"
        PROVE  \E e \in Calls : call'[d].on = e /\ InFlight(e)'
    <3>1. d # c /\ call'[d] = call[d]
      BY <1>1, <2>1, <2>4
    <3>2. PICK e \in Calls : call[d].on = e /\ InFlight(e)
      BY <2>4, <3>1 DEF PromiseKept
    <3>3. InFlight(e)'
      BY <1>1, <2>1, <3>2
    <3> QED BY <3>1, <3>2, <3>3
  <2> QED BY <2>3, <2>4 DEF PromiseKept
<1>3. CASE promise[t] # None
  <2>1. promise' = promise /\ call'[c].at = "wait" /\ call'[c].on = promise[t]
    BY <1>3, StartStep
  <2>2. \A d \in Calls : InFlight(d)' <=> InFlight(d)
    BY <1>1, <2>1 DEF InFlight
  <2>3. \E e \in Calls : call'[c].on = e /\ InFlight(e)
    BY <1>1, <1>3, <2>1 DEF PromiseKept
  <2> QED BY <1>1, <2>1, <2>2, <2>3, PromiseSame
<1> QED BY <1>2, <1>3

LEMMA SettlePromise ==
    ASSUME TypeOK, PromiseKept, NEW c \in Calls, InFlight(c),
           NEW stage \in {"idle", "again"}, Settle(c, stage)
    PROVE  PromiseKept'
<1> DEFINE t == TabOf(c)
<1>1. t \in Tabs /\ promise'[t] = None /\ \A u \in Tabs : u # t => promise'[u] = promise[u]
  BY CallParts, Settled, TypedTabs
<1>2. /\ ~InFlight(c)' /\ call'[c].at # "wait"
      /\ \A d \in Calls : d # c => (InFlight(d)' <=> InFlight(d))
      /\ \A d \in Calls : call'[d].at = "wait" => call'[d] = call[d] /\ call[d].on # c
  BY Settled DEF InFlight
<1>3. ASSUME NEW d \in Calls, NEW u \in Tabs
      PROVE  promise'[u] = d <=> InFlight(d)' /\ TabOf(d) = u
  <2>1. CASE u = t
    BY <1>1, <1>2, <2>1, SessionAssumption DEF PromiseKept
  <2>2. CASE u # t
    BY <1>1, <1>2, <2>2 DEF PromiseKept
  <2> QED BY <2>1, <2>2
<1>4. ASSUME NEW d \in Calls, call'[d].at = "wait"
      PROVE  \E e \in Calls : call'[d].on = e /\ InFlight(e)'
  <2>1. PICK e \in Calls : call[d].on = e /\ InFlight(e)
    BY <1>2, <1>4 DEF PromiseKept
  <2>2. InFlight(e)'
    BY <1>2, <1>4, <2>1
  <2> QED BY <1>2, <1>4, <2>1, <2>2
<1> QED BY <1>3, <1>4 DEF PromiseKept

(* A server's step of a refresh.                                           *)
LEMMA ServerStep ==
    ASSUME TypeOK, NEW c \in Calls, Find(c) \/ Rotate(c)
    PROVE  /\ \A d \in Calls : d # c => call'[d] = call[d]
           /\ call'[c].at \in {"rotate", "answer"} /\ call'[c].token = call[c].token
           /\ InFlight(c) /\ InFlight(c)' /\ promise' = promise
<1>1. InFlight(c) /\ promise' = promise
  BY DEF Find, Rotate, InFlight
<1>2. CASE call' = [call EXCEPT ![c].at = "answer"]
  BY <1>1, <1>2, TypedCalls DEF InFlight, CallState
<1>3. ASSUME NEW s \in Sessions,
             call' = [call EXCEPT ![c].at = "rotate", ![c].row = s, ![c].hash = session[s].hash]
      PROVE  /\ \A d \in Calls : d # c => call'[d] = call[d]
             /\ call'[c].at = "rotate" /\ call'[c].token = call[c].token
  BY <1>3, TypedCalls DEF CallState
<1>4. CASE call' = [call EXCEPT ![c].at = "answer", ![c].next = tokens + 1]
  BY <1>1, <1>4, TypedCalls DEF InFlight, CallState
<1> QED BY <1>1, <1>2, <1>3, <1>4 DEF Find, Matched, Rotate, RotateTo, Refuse, InFlight

LEMMA NextPromise ==
    ASSUME TypeOK, PromiseKept, [Next]_vars PROVE PromiseKept'
<1>1. ASSUME NEW c \in Calls, StartRefresh(c) PROVE PromiseKept'
  BY <1>1, StartPromise
<1>2. ASSUME NEW c \in Calls, Find(c) \/ Rotate(c) PROVE PromiseKept'
  <2>1. /\ \A d \in Calls : InFlight(d)' <=> InFlight(d)
        /\ \A d \in Calls : call'[d].at = "wait" => call'[d] = call[d]
    BY <1>2, ServerStep DEF InFlight
  <2> QED BY <1>2, <2>1, ServerStep, PromiseSame
<1>3. ASSUME NEW c \in Calls, Send(c) \/ LoseRequest(c) \/ Again(c) PROVE PromiseKept'
  <2>1. /\ \A d \in Calls : InFlight(d)' <=> InFlight(d)
        /\ \A d \in Calls : call'[d].at = "wait" => call'[d] = call[d]
    BY <1>3, SendStep DEF InFlight, Aside
  <2>2. promise' = promise
    BY <1>3 DEF Send, LoseRequest, Again
  <2> QED BY <2>1, <2>2, PromiseSame
<1>4. ASSUME NEW c \in Calls, Answer(c) \/ LoseAnswer(c) PROVE PromiseKept'
  BY <1>4, SettlePromise DEF Answer, LoseAnswer, InFlight
<1>5. CASE UNCHANGED <<call, promise>>
  BY <1>5, PromiseSame DEF InFlight
<1> QED BY <1>1, <1>2, <1>3, <1>4, <1>5
    DEF Next, vars, SignIn, ExpireAccess, ExpireSession, LogoutFind, LogoutRevoke, LogoutNothing

(* A step that issues no token, has none replaced and shows none to anyone *)
(* who did not have it: a cookie is kept or cleared, a call goes on as it  *)
(* was, or leaves its refresh.                                             *)
LEMMA TokensSame ==
    ASSUME TypeOK, TokensKept, tokens' = tokens, spent' = spent,
           \A b \in Browsers : cookie'[b] = cookie[b] \/ cookie'[b] = 0,
           \A d \in Calls : call'[d] = call[d] \/ Aside(call'[d])
    PROVE  TokensKept'
<1>1. \A d \in Calls : /\ InFlight(d)' => InFlight(d) /\ call'[d] = call[d]
                       /\ Won(d)' => Won(d) /\ call'[d] = call[d]
                       /\ call'[d].at = "rotate" => call'[d] = call[d]
  BY DEF InFlight, Won, Aside
<1>2. Issued'
  BY <1>1, Numbers DEF TokensKept, Issued
<1>3. NotSpent'
  BY <1>1, TabParts DEF TokensKept, Issued, NotSpent
<1>4. ASSUME NEW c \in Calls, Won(c)' PROVE Fresh(c)'
  <2>1. Won(c) /\ call'[c] = call[c] /\ InFlight(c)
    BY <1>1, <1>4 DEF Won, InFlight
  <2>2. call[c].next # 0
    BY <2>1 DEF Won
  <2> QED BY <1>1, <2>1, <2>2 DEF TokensKept, Fresh
<1> QED BY <1>2, <1>3, <1>4 DEF TokensKept, Fresh

(* A sign-in shows a new token to the browser.                             *)
LEMMA SignInTokens ==
    ASSUME TypeOK, TokensKept, NEW t \in Tabs, SignIn(t) PROVE TokensKept'
<1>1. /\ tokens' = tokens + 1 /\ call' = call /\ spent' = spent
      /\ \A b \in Browsers : cookie'[b] = cookie[b] \/ cookie'[b] = tokens + 1
  BY TypedTabs DEF SignIn
<1>2. Issued'
  BY <1>1, Numbers DEF TokensKept, Issued, InFlight, Won
<1>3. \A u \in Tabs : \A n \in spent[u] : n # tokens + 1
  BY Numbers DEF TokensKept, Issued
<1>4. NotSpent'
  BY <1>1, <1>3, TabParts DEF TokensKept, NotSpent, InFlight
<1>5. ASSUME NEW c \in Calls, Won(c)' PROVE Fresh(c)'
  <2>1. Won(c) /\ call[c].next # tokens + 1 /\ call[c].next <= tokens + 1
    BY <1>1, <1>5, Numbers DEF TokensKept, Fresh, Won
  <2> QED BY <1>1, <2>1 DEF TokensKept, Fresh, InFlight, Won
<1> QED BY <1>2, <1>4, <1>5 DEF TokensKept, Fresh

(* A refresh presents its browser's cookie.                                *)
LEMMA StartTokens ==
    ASSUME TypeOK, TokensKept, NEW c \in Calls, StartRefresh(c) PROVE TokensKept'
<1>1. /\ \A d \in Calls : d # c => call'[d] = call[d]
      /\ call'[c].at \in {"find", "wait"}
      /\ call'[c].at = "find" => call'[c].token = cookie[BrowserOf(c)]
      /\ UNCHANGED <<tokens, cookie, spent>>
  BY StartStep DEF StartRefresh, server, history
<1>2. BrowserOf(c) \in Browsers /\ TabOf(c) \in Tabs /\ TabOf(c)[1] = BrowserOf(c)
  BY CallParts
<1>3. \A d \in Calls : Won(d)' => d # c /\ Won(d) /\ call'[d] = call[d]
  BY <1>1 DEF Won
<1>4. Issued'
  BY <1>1, <1>2 DEF TokensKept, Issued, InFlight, Won
<1>5. NotSpent'
  BY <1>1, <1>2 DEF TokensKept, NotSpent, InFlight
<1>6. ASSUME NEW e \in Calls, Won(e)' PROVE Fresh(e)'
  <2>1. e # c /\ Won(e) /\ call'[e] = call[e]
    BY <1>3, <1>6
  <2>2. \A d \in Calls : InFlight(d)' => call'[d].token # call[e].next
    BY <1>1, <1>2, <2>1 DEF TokensKept, Fresh, InFlight
  <2>3. \A d \in Calls : Won(d)' /\ d # e => call'[d].next # call[e].next
    BY <1>3, <2>1 DEF TokensKept, Fresh
  <2> QED BY <1>1, <2>1, <2>2, <2>3 DEF TokensKept, Fresh
<1> QED BY <1>4, <1>5, <1>6 DEF TokensKept, Fresh

(* The server issues at most one token, for the answer of this refresh.    *)
LEMMA ServerTokens ==
    ASSUME Inv, TokensKept, NEW c \in Calls, Find(c) \/ Rotate(c) PROVE TokensKept'
<1> USE DEF Inv
<1>1. /\ \A d \in Calls : d # c => call'[d] = call[d]
      /\ call'[c].token = call[c].token /\ InFlight(c)
      /\ cookie' = cookie /\ spent' = spent
      /\ \A d \in Calls : InFlight(d)' <=> InFlight(d)
  BY ServerStep DEF Find, Rotate, history, InFlight
<1>2. \/ ~Won(c)' /\ tokens' = tokens
      \/ call'[c].next = tokens + 1 /\ tokens' = tokens + 1
  <2>1. call[c].next = 0
    BY DEF RowsKnown, Find, Rotate
  <2>2. CASE tokens' = tokens /\ call' = [call EXCEPT ![c].at = "answer"]
    BY <2>1, <2>2, TypedCalls DEF Won, CallState
  <2>3. CASE tokens' = tokens /\ call'[c].at = "rotate"
    BY <2>3 DEF Won
  <2>4. CASE RotateTo(c, call[c].row)
    BY <2>4, TypedCalls DEF RotateTo, CallState
  <2>5. ASSUME NEW s \in Sessions,
               call' = [call EXCEPT ![c].at = "rotate", ![c].row = s, ![c].hash = session[s].hash]
        PROVE  call'[c].at = "rotate"
    BY <2>5, TypedCalls DEF CallState
  <2> QED BY <2>2, <2>3, <2>4, <2>5 DEF Find, Matched, Rotate, Refuse, server
<1>3. call'[c].at = "rotate" \/ Won(c)' => call[c].token # 0
  <2>1. CASE Find(c)
    <3>1. CASE call' = [call EXCEPT ![c].at = "answer"]
      <4>1. call'[c].at = "answer" /\ call'[c].next = 0
        BY <2>1, <3>1, TypedCalls DEF RowsKnown, Find, CallState
      <4> QED BY <4>1 DEF Won
    <3>2. CASE call[c].token # 0
      BY <3>2
    <3> QED BY <2>1, <3>1, <3>2 DEF Find
  <2>2. CASE Rotate(c)
    BY <2>2 DEF TokensKept, Issued, Rotate
  <2> QED BY <2>1, <2>2
<1>4. tokens \in Nat /\ tokens <= tokens' /\ tokens' \in Nat
  BY <1>2, Numbers
<1>5. \A d \in Calls : d # c => (Won(d)' <=> Won(d))
  BY <1>1 DEF Won
<1>6. Issued'
  <2>1. \A b \in Browsers : cookie'[b] <= tokens'
    BY <1>1, <1>2, Numbers DEF TokensKept, Issued
  <2>2. \A t \in Tabs : \A n \in spent'[t] : n # 0 /\ n <= tokens'
    BY <1>1, <1>2, Numbers DEF TokensKept, Issued
  <2>3. \A d \in Calls : call'[d].token = call[d].token
    BY <1>1
  <2>4. \A d \in Calls : InFlight(d)' => call'[d].token <= tokens'
    BY <1>1, <1>2, <2>3, Numbers DEF TokensKept, Issued
  <2>5. \A d \in Calls : call'[d].at = "rotate" \/ Won(d)' => call'[d].token # 0
    BY <1>1, <1>3, <1>5, <2>3 DEF TokensKept, Issued
  <2> QED BY <2>1, <2>2, <2>4, <2>5 DEF Issued
<1>7. NotSpent'
  BY <1>1 DEF TokensKept, NotSpent
<1>8. ASSUME NEW e \in Calls, Won(e)' PROVE Fresh(e)'
  <2>1. CASE e = c
    <3>1. call'[c].next = tokens + 1 /\ tokens' = tokens + 1
      BY <1>2, <1>8, <2>1
    <3>2. /\ \A b \in Browsers : cookie[b] # tokens + 1
          /\ \A t \in Tabs : tokens + 1 \notin spent[t]
          /\ \A d \in Calls : InFlight(d) => call[d].token # tokens + 1
          /\ \A d \in Calls : Won(d) => call[d].next # tokens + 1
      BY Numbers DEF TokensKept, Issued, Fresh
    <3>3. \A d \in Calls : InFlight(d)' => call'[d].token # tokens + 1
      BY <1>1, <3>2
    <3>4. \A d \in Calls : Won(d)' /\ d # c => call'[d].next # tokens + 1
      BY <1>1, <1>5, <3>2
    <3> QED BY <1>1, <1>4, <2>1, <3>1, <3>2, <3>3, <3>4 DEF Fresh
  <2>2. CASE e # c
    <3>1. Won(e) /\ call'[e] = call[e] /\ call[e].next <= tokens
      BY <1>1, <1>5, <1>8, <2>2 DEF TokensKept, Fresh
    <3>2. call[e].next <= tokens' /\ call[e].next # tokens + 1
      BY <1>2, <1>4, <3>1, Numbers
    <3>3. \A d \in Calls : InFlight(d)' => call'[d].token # call[e].next
      BY <1>1, <3>1 DEF TokensKept, Fresh
    <3>4. \A d \in Calls : Won(d)' /\ d # e => call'[d].next # call[e].next
      BY <1>1, <1>2, <1>5, <3>1, <3>2 DEF TokensKept, Fresh
    <3> QED BY <1>1, <3>1, <3>2, <3>3, <3>4 DEF TokensKept, Fresh
  <2> QED BY <2>1, <2>2
<1> QED BY <1>6, <1>7, <1>8 DEF TokensKept, Fresh

(* The answer moves the new token to the cookie, where the old one was or  *)
(* may have been; no other refresh of the tab is on its way with it.       *)
LEMMA AnswerTokens ==
    ASSUME TypeOK, PromiseKept, TokensKept, NEW c \in Calls, Answer(c), call[c].next # 0
    PROVE  TokensKept'
<1> DEFINE n == call[c].next  k == call[c].token  t == TabOf(c)
<1>1. /\ Won(c) /\ InFlight(c) /\ k # 0
      /\ n <= tokens /\ k <= tokens
      /\ \A b \in Browsers : cookie[b] # n
      /\ \A u \in Tabs : n \notin spent[u]
      /\ \A d \in Calls : InFlight(d) => call[d].token # n
      /\ \A d \in Calls : Won(d) /\ d # c => call[d].next # n
  BY DEF Answer, Won, InFlight, TokensKept, Issued, Fresh
<1>2. /\ tokens' = tokens
      /\ \A b \in Browsers : cookie'[b] = IF b = BrowserOf(c) THEN n ELSE cookie[b]
      /\ \A u \in Tabs : spent'[u] = IF u = t THEN spent[u] \cup {k} ELSE spent[u]
  BY TypedTabs, CallParts DEF Answer, server
<1>3. \A d \in Calls : /\ InFlight(d)' => d # c /\ InFlight(d) /\ call'[d] = call[d]
                       /\ Won(d)' => d # c /\ Won(d) /\ call'[d] = call[d]
                       /\ call'[d].at = "rotate" => call'[d] = call[d]
  BY Settled DEF Answer, InFlight, Won, Aside
<1>4. \A d \in Calls : d # c /\ InFlight(d) => TabOf(d) # t
  BY <1>1, CallParts DEF PromiseKept
<1>5. t \in Tabs /\ t[1] = BrowserOf(c)
  BY CallParts
<1>6. Issued'
  BY <1>1, <1>2, <1>3 DEF TokensKept, Issued
<1>7. NotSpent'
  <2>1. ASSUME NEW u \in Tabs PROVE cookie'[u[1]] \notin spent'[u]
    <3>1. n # k /\ u[1] \in Browsers
      BY <1>1, TabParts
    <3>2. CASE u[1] = BrowserOf(c)
      <4>1. cookie'[u[1]] = n /\ n \notin spent[u]
        BY <1>1, <1>2, <3>1, <3>2
      <4> QED BY <1>2, <3>1, <4>1
    <3>3. CASE u[1] # BrowserOf(c)
      BY <1>2, <1>5, <3>1, <3>3 DEF TokensKept, NotSpent
    <3> QED BY <3>2, <3>3
  <2>2. ASSUME NEW d \in Calls, InFlight(d)' PROVE call'[d].token \notin spent'[TabOf(d)]
    BY <1>2, <1>3, <1>4, <2>2, CallParts DEF TokensKept, NotSpent
  <2> QED BY <2>1, <2>2 DEF NotSpent
<1>8. ASSUME NEW e \in Calls, Won(e)' PROVE Fresh(e)'
  <2>1. e # c /\ Won(e) /\ call'[e] = call[e] /\ call[e].next # n /\ call[e].next # k
    BY <1>1, <1>3, <1>8 DEF TokensKept, Fresh
  <2>2. \A d \in Calls : InFlight(d)' => call'[d].token # call[e].next
    BY <1>3, <2>1 DEF TokensKept, Fresh
  <2>3. \A d \in Calls : Won(d)' /\ d # e => call'[d].next # call[e].next
    BY <1>3, <2>1 DEF TokensKept, Fresh
  <2>4. \A u \in Tabs : call[e].next \notin spent'[u]
    BY <1>2, <2>1 DEF TokensKept, Fresh
  <2>5. (\A b \in Browsers : cookie'[b] # call[e].next) /\ call[e].next <= tokens
    BY <1>2, <2>1 DEF TokensKept, Fresh
  <2> QED BY <1>2, <2>1, <2>2, <2>3, <2>4, <2>5 DEF Fresh
<1> QED BY <1>6, <1>7, <1>8 DEF TokensKept, Fresh

LEMMA NextTokens ==
    ASSUME Inv, PromiseKept, TokensKept, [Next]_vars PROVE TokensKept'
<1> USE DEF Inv
<1>1. ASSUME NEW t \in Tabs, SignIn(t) PROVE TokensKept'
  BY <1>1, SignInTokens
<1>2. ASSUME NEW c \in Calls, StartRefresh(c) \/ Find(c) \/ Rotate(c) PROVE TokensKept'
  BY <1>2, StartTokens, ServerTokens
<1>3. ASSUME NEW c \in Calls, Answer(c), call[c].next # 0 PROVE TokensKept'
  BY <1>3, AnswerTokens
<1>4. ASSUME NEW c \in Calls, (Answer(c) /\ call[c].next = 0) \/ LoseAnswer(c) PROVE TokensKept'
  <2>1. UNCHANGED <<tokens, cookie, spent>>
    BY <1>4 DEF Answer, LoseAnswer, server, history
  <2>2. \A d \in Calls : call'[d] = call[d] \/ Aside(call'[d])
    BY <1>4, Settled DEF Answer, LoseAnswer
  <2> QED BY <2>1, <2>2, TokensSame
<1>5. ASSUME NEW c \in Calls, Send(c) \/ LoseRequest(c) \/ Again(c) PROVE TokensKept'
  <2>1. UNCHANGED <<tokens, cookie, spent>>
    BY <1>5 DEF Send, LoseRequest, Again, server, history
  <2>2. \A d \in Calls : call'[d] = call[d] \/ Aside(call'[d])
    BY <1>5, SendStep
  <2> QED BY <2>1, <2>2, TokensSame
<1>6. ASSUME NEW t \in Tabs, LogoutRevoke(t) \/ LogoutNothing(t) PROVE TokensKept'
  <2>1. UNCHANGED <<tokens, call, spent>>
    BY <1>6 DEF LogoutRevoke, LogoutNothing, server
  <2>2. \A b \in Browsers : cookie'[b] = cookie[b] \/ cookie'[b] = 0
    BY <1>6, TypedTabs DEF LogoutRevoke, LogoutNothing, LoggedOut
  <2> QED BY <2>1, <2>2, TokensSame
<1>7. CASE UNCHANGED <<tokens, cookie, call, spent>>
  BY <1>7, TokensSame
<1> QED BY <1>1, <1>2, <1>3, <1>4, <1>5, <1>6, <1>7
    DEF Next, vars, ExpireAccess, ExpireSession, LogoutFind, server, history

LEMMA InitShared == Init => PromiseKept /\ TokensKept
<1> SUFFICES ASSUME Init PROVE PromiseKept /\ TokensKept
  OBVIOUS
<1>1. \A c \in Calls : call[c].at = "idle" /\ c # None
  BY SessionAssumption DEF Init, Idle
<1>2. PromiseKept
  BY <1>1 DEF Init, PromiseKept, InFlight
<1>3. Issued /\ NotSpent
  BY <1>1, TabParts DEF Init, Issued, NotSpent, InFlight, Won
<1>4. \A c \in Calls : Fresh(c)
  BY <1>1 DEF Fresh, Won
<1> QED BY <1>2, <1>3, <1>4 DEF TokensKept

(* However many calls of a tab are refused, and however late, they share a *)
(* refresh: none presents a token for which the tab has had a new one, and *)
(* none waits for a promise that has settled (http.ts:99-136).             *)
THEOREM RefreshSharedHolds == Spec => []RefreshShared
<1> DEFINE S == PromiseKept /\ TokensKept
<1>1. Init => S
  BY InitShared
<1>2. Inv /\ S /\ [Next]_vars => S'
  BY NextPromise, NextTokens DEF Inv
<1>3. S => RefreshShared
  BY DEF PromiseKept, TokensKept, NotSpent, RefreshShared
<1> HIDE DEF S
<1> QED BY <1>1, <1>2, <1>3, InvHolds, PTL DEF Spec
=============================================================================
