---------------------------- MODULE AuthSession ----------------------------
(***************************************************************************)
(* The refresh-token sessions of one user (auth.service.ts) and the        *)
(* browsers that use them (web/src/api/http.ts, authStore.ts): a browser   *)
(* holds one cookie, each of its tabs its own access token and the promise *)
(* of its refresh; tabs and browsers do not know of each other. A page     *)
(* reloaded before its refresh is answered counts as a second tab.         *)
(*                                                                         *)
(* A token is the number of its jti. bcrypt reads the first 72 bytes of    *)
(* what it hashes: of a refresh token that is the header and the sub and   *)
(* username of the payload, the same for every token of a user.            *)
(***************************************************************************)
EXTENDS Naturals

CONSTANTS
    Browsers, TabIds, CallIds,
    None,         \* no promise
    MaxSessions,  \* bound on sign-ins
    MaxTokens     \* bound on refresh tokens issued

Tabs     == Browsers \X TabIds
Calls    == Browsers \X TabIds \X CallIds

ASSUME SessionAssumption == MaxSessions \in Nat /\ MaxTokens \in Nat /\ None \notin Calls

Sessions == 1..MaxSessions
BrowserOf(c) == c[1]
TabOf(c)     == <<c[1], c[2]>>

VARIABLES
    session,  \* rows of RefreshTokenSession: state, and the token hashed
    tokens,   \* tokens issued
    cookie,   \* the refresh token of a browser, 0 without
    auth,     \* access token of a tab: "in", "stale" (expired), "out"
    promise,  \* refreshAccessTokenPromise of a tab: the call that created it
    call,     \* where a request, and the refresh that it started, stand
    leaving,  \* logout of a tab: the row that it found
    home,     \* history: the session of the browser's sign-in, 0 signed out
    spent,    \* history: the tokens that a tab has had replaced
    thrown    \* history: tabs refused for a session that was still good

vars == <<session, tokens, cookie, auth, promise, call, leaving, home, spent, thrown>>
server == <<session, tokens>>
history == <<home, spent, thrown>>

Idle == [at |-> "idle", on |-> None, token |-> 0, row |-> 0, hash |-> 0, next |-> 0]
At(stage) == [Idle EXCEPT !.at = stage]

Init ==
    /\ session = [s \in Sessions |-> [state |-> "free", hash |-> 0]]
    /\ tokens = 0
    /\ cookie = [b \in Browsers |-> 0]
    /\ auth = [t \in Tabs |-> "out"]
    /\ promise = [t \in Tabs |-> None]
    /\ call = [c \in Calls |-> Idle]
    /\ leaving = [t \in Tabs |-> 0]
    /\ home = [b \in Browsers |-> 0]
    /\ spent = [t \in Tabs |-> {}]
    /\ thrown = {}

(* bcrypt.compare of a token with the hash of another one of the user.     *)
First72Bytes(token) == "header.sub.username"
Matches(token, hash) == First72Bytes(token) = First72Bytes(hash)

(* findMatchedRefreshTokenSession; the query has no order.                 *)
Matched(token) == {s \in Sessions : session[s].state = "live" /\ Matches(token, session[s].hash)}

InFlight(c) == call[c].at \in {"find", "rotate", "answer"}

-----------------------------------------------------------------------------
SignIn(t) ==
    /\ auth[t] = "out" /\ tokens < MaxTokens
    /\ \E s \in Sessions :
        /\ session[s].state = "free"
        /\ session' = [session EXCEPT ![s] = [state |-> "live", hash |-> tokens + 1]]
        /\ home' = [home EXCEPT ![t[1]] = s]
    /\ tokens' = tokens + 1
    /\ cookie' = [cookie EXCEPT ![t[1]] = tokens + 1]
    /\ auth' = [auth EXCEPT ![t] = "in"]
    /\ UNCHANGED <<promise, call, leaving, spent, thrown>>

(* The clock. A row in its last second is refused like an expired one.     *)
ExpireAccess(t) ==
    /\ auth[t] = "in"
    /\ auth' = [auth EXCEPT ![t] = "stale"]
    /\ UNCHANGED <<server, cookie, promise, call, leaving, history>>

ExpireSession(s) ==
    /\ session[s].state = "live"
    /\ session' = [session EXCEPT ![s].state = "expired"]
    /\ UNCHANGED <<tokens, cookie, auth, promise, call, leaving, history>>

-----------------------------------------------------------------------------
(* A request with an expired token: its 401 may come late, when another    *)
(* call's refresh is over.                                                 *)

Send(c) ==
    /\ call[c].at = "idle" /\ auth[TabOf(c)] = "stale"
    /\ call' = [call EXCEPT ![c] = At("sent")]
    /\ UNCHANGED <<server, cookie, auth, promise, leaving, history>>

LoseRequest(c) ==
    /\ call[c].at = "sent"
    /\ call' = [call EXCEPT ![c] = Idle]
    /\ UNCHANGED <<server, cookie, auth, promise, leaving, history>>

-----------------------------------------------------------------------------
(* A refresh: a request was answered 401, the page is loaded (authStore.ts *)
(* 42) or its socket was refused (chatSocket.ts:51).                       *)

Refreshes(c) == call[c].at \in {"sent", "idle"}
RefreshOf(c) == [Idle EXCEPT !.at = "find", !.token = cookie[BrowserOf(c)]]
Waiting(d)   == [Idle EXCEPT !.at = "wait", !.on = d]

(* Variant: every call refreshes for itself.                               *)
StartRefreshAlone(c) ==
    /\ Refreshes(c)
    /\ call' = [call EXCEPT ![c] = RefreshOf(c)]
    /\ promise' = [promise EXCEPT ![TabOf(c)] = c]
    /\ UNCHANGED <<server, cookie, auth, leaving, history>>

StartRefresh(c) ==
    LET t == TabOf(c) IN
    /\ Refreshes(c)
    /\ \/ /\ promise[t] = None
          /\ promise' = [promise EXCEPT ![t] = c]
          /\ call' = [call EXCEPT ![c] = RefreshOf(c)]
       \/ /\ promise[t] # None
          /\ call' = [call EXCEPT ![c] = Waiting(promise[t])]
          /\ UNCHANGED promise
    /\ UNCHANGED <<server, cookie, auth, leaving, history>>

Find(c) ==
    /\ call[c].at = "find"
    /\ \/ /\ call[c].token = 0 \/ Matched(call[c].token) = {}
          /\ call' = [call EXCEPT ![c].at = "answer"]
       \/ \E s \in Matched(call[c].token) :
            /\ call[c].token # 0
            /\ call' = [call EXCEPT ![c].at = "rotate", ![c].row = s,
                                    ![c].hash = session[s].hash]
    /\ UNCHANGED <<server, cookie, auth, promise, leaving, history>>

RotateTo(c, s) ==
    /\ session' = [session EXCEPT ![s].hash = tokens + 1]
    /\ tokens' = tokens + 1
    /\ call' = [call EXCEPT ![c].at = "answer", ![c].next = tokens + 1]
Refuse(c) ==
    /\ call' = [call EXCEPT ![c].at = "answer"]
    /\ UNCHANGED server

(* Variants: the hash is not compared; the revocation is not.              *)
RotateLatest(c) ==
    LET s == call[c].row IN
    /\ call[c].at = "rotate" /\ tokens < MaxTokens
    /\ IF session[s].state = "live" THEN RotateTo(c, s) ELSE Refuse(c)
    /\ UNCHANGED <<cookie, auth, promise, leaving, history>>

RotateRevoked(c) ==
    LET s == call[c].row IN
    /\ call[c].at = "rotate" /\ tokens < MaxTokens
    /\ IF session[s].hash = call[c].hash THEN RotateTo(c, s) ELSE Refuse(c)
    /\ UNCHANGED <<cookie, auth, promise, leaving, history>>

(* updateMany of the row as it was found.                                  *)
Rotate(c) ==
    LET s == call[c].row IN
    /\ call[c].at = "rotate" /\ tokens < MaxTokens
    /\ IF session[s].state = "live" /\ session[s].hash = call[c].hash
       THEN RotateTo(c, s) ELSE Refuse(c)
    /\ UNCHANGED <<cookie, auth, promise, leaving, history>>

(* The promise settles: finally forgets it, the calls that wait go on.     *)
Settle(c, stage) ==
    /\ call' = [d \in Calls |-> IF d = c \/ (call[d].at = "wait" /\ call[d].on = c)
                                THEN At(stage) ELSE call[d]]
    /\ promise' = [promise EXCEPT ![TabOf(c)] = None]

(* Refused though the row that was found is neither expired nor revoked.   *)
Overtaken(c) == call[c].row # 0 /\ session[call[c].row].state = "live"

Answer(c) ==
    LET b == BrowserOf(c)  t == TabOf(c) IN
    /\ call[c].at = "answer"
    /\ IF call[c].next # 0
       THEN /\ Settle(c, "again")
            /\ cookie' = [cookie EXCEPT ![b] = call[c].next]
            /\ auth' = [auth EXCEPT ![t] = "in"]
            /\ spent' = [spent EXCEPT ![t] = @ \cup {call[c].token}]
            /\ UNCHANGED thrown
       ELSE /\ Settle(c, "idle")
            /\ auth' = [auth EXCEPT ![t] = "out"]
            /\ thrown' = IF Overtaken(c) THEN thrown \cup {t} ELSE thrown
            /\ UNCHANGED <<cookie, spent>>
    /\ UNCHANGED <<server, leaving, home>>

(* The refresh or its answer is lost; the catch block signs the tab out.   *)
LoseAnswer(c) ==
    /\ call[c].at \in {"find", "answer"}
    /\ Settle(c, "idle")
    /\ auth' = [auth EXCEPT ![TabOf(c)] = "out"]
    /\ UNCHANGED <<server, cookie, leaving, history>>

(* The request is repeated; lost or refused, it signs the tab out.         *)
Again(c) ==
    /\ call[c].at = "again"
    /\ call' = [call EXCEPT ![c] = Idle]
    /\ auth' \in {auth, [auth EXCEPT ![TabOf(c)] = "out"]}
    /\ UNCHANGED <<server, cookie, promise, leaving, history>>

-----------------------------------------------------------------------------
(* Logout. The tabs of a browser may log out at once, with its one cookie. *)

LogoutFind(t) ==
    /\ auth[t] # "out" /\ leaving[t] = 0 /\ cookie[t[1]] # 0
    /\ \E s \in Matched(cookie[t[1]]) : leaving' = [leaving EXCEPT ![t] = s]
    /\ UNCHANGED <<server, cookie, auth, promise, call, history>>

(* What the answer does to the browser; when it is lost, the cookie stays. *)
LoggedOut(t) ==
    /\ cookie' \in {cookie, [cookie EXCEPT ![t[1]] = 0]}
    /\ auth' = [auth EXCEPT ![t] = "out"]
    /\ home' = [home EXCEPT ![t[1]] = 0]

(* The row found is revoked whatever became of it.                         *)
LogoutRevoke(t) ==
    /\ leaving[t] # 0
    /\ session' = [session EXCEPT ![leaving[t]].state = "revoked"]
    /\ leaving' = [leaving EXCEPT ![t] = 0]
    /\ LoggedOut(t)
    /\ UNCHANGED <<tokens, promise, call, spent, thrown>>

(* No row matches: nothing to revoke.                                      *)
LogoutNothing(t) ==
    /\ auth[t] # "out" /\ leaving[t] = 0
    /\ cookie[t[1]] = 0 \/ Matched(cookie[t[1]]) = {}
    /\ LoggedOut(t)
    /\ UNCHANGED <<server, promise, call, leaving, spent, thrown>>

-----------------------------------------------------------------------------
Next ==
    \/ \E t \in Tabs : \/ SignIn(t) \/ ExpireAccess(t)
                       \/ LogoutFind(t) \/ LogoutRevoke(t) \/ LogoutNothing(t)
    \/ \E s \in Sessions : ExpireSession(s)
    \/ \E c \in Calls : \/ Send(c) \/ LoseRequest(c)
                        \/ StartRefresh(c) \/ Find(c) \/ Rotate(c)
                        \/ Answer(c) \/ LoseAnswer(c) \/ Again(c)

Spec == Init /\ [][Next]_vars

-----------------------------------------------------------------------------
(* Properties.                                                             *)

(* Every variable has its type.                                            *)
TypeOK ==
    /\ session \in [Sessions -> [state : {"free", "live", "expired", "revoked"},
                                 hash : 0..MaxTokens]]
    /\ tokens \in 0..MaxTokens
    /\ cookie \in [Browsers -> 0..MaxTokens]
    /\ auth \in [Tabs -> {"in", "stale", "out"}]
    /\ promise \in [Tabs -> Calls \cup {None}]
    /\ call \in [Calls -> [at : {"idle", "sent", "wait", "find", "rotate", "answer", "again"},
                           on : Calls \cup {None}, token : 0..MaxTokens,
                           row : {0} \cup Sessions, hash : 0..MaxTokens, next : 0..MaxTokens]]
    /\ leaving \in [Tabs -> {0} \cup Sessions]
    /\ home \in [Browsers -> {0} \cup Sessions]
    /\ spent \in [Tabs -> SUBSET (0..MaxTokens)]
    /\ thrown \subseteq Tabs

(* http.ts:100: the calls of a tab share a refresh. However late their 401 *)
(* comes, none presents a token that its tab has had replaced, and whoever *)
(* waits for the promise waits for a refresh that is still on its way.     *)
RefreshShared ==
    \A c \in Calls :
        /\ InFlight(c) => call[c].token \notin spent[TabOf(c)]
        /\ call[c].at = "wait" => InFlight(call[c].on)

Won(c) == call[c].at = "answer" /\ call[c].next # 0

(* A stored hash is replaced once: of two refreshes that found the same    *)
(* row as it was, one wins.                                                *)
RotatedOnce ==
    \A c, d \in Calls :
        Won(c) /\ Won(d) /\ call[c].row = call[d].row /\ call[c].hash = call[d].hash => c = d

(* A logout holds: a refresh that found the row before it does not bring   *)
(* the revoked row back to life.                                           *)
RevokedIsFinal ==
    [][\A s \in Sessions : session[s].state = "revoked" => session'[s] = session[s]]_vars

(* A tab is told '인증이 만료되었습니다. 다시 로그인해주세요.' (http.ts:172) only if the *)
(* session that it asked to refresh has expired or was revoked. One tab    *)
(* keeps to it; a second tab, or a reload before the answer, does not.     *)
KeepsLogin == thrown = {}

(* logout revokes the session that matches the token of the cookie         *)
(* (auth.service.ts:205): that of its own browser, and no other's.         *)
LogoutEndsOwn ==
    \A b \in Browsers : home[b] # 0 => session[home[b]].state # "revoked"
=============================================================================
