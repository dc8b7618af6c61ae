---------------------------- MODULE ChatGateway ----------------------------
(***************************************************************************)
(* The WebSocket gateway of apps/api (src/apps/api/src/chat/               *)
(* chat.gateway.ts) for one user and one room: send_message,               *)
(* retry_message, respond_agent_approval, stop_generation and join_room,   *)
(* each handler cut at its awaits, on one or more server instances.        *)
(*                                                                         *)
(* A Request is one client event.  It names everything it creates, because *)
(* it creates at most one of each: the user message it saves, the agent    *)
(* thread of that message, the interrupt its graph run raises and the      *)
(* approval card it stores.                                                *)
(***************************************************************************)
EXTENDS Naturals, FiniteSets

CONSTANTS
    Instances,   \* API server processes that share PostgreSQL and Redis
    Requests,    \* client events, numbered as they arrive; each is handled once
    Ops,         \* the kinds of event the clients send
    Sequential,  \* TRUE: one tab, which waits for an answer (stop excepted)
    Faults,      \* TRUE: a PostgreSQL or Redis call may fail
    SlowRuns,    \* TRUE: a run may outlive the 300 s of the approval lock
    MaxCrashes,  \* bound on the number of server crashes
    None

Kinds == {"send", "retry", "approve", "stop", "join"}
Card  == [id : Requests, thread : Requests]

ASSUME GatewayAssumption ==
    /\ Ops \subseteq Kinds
    /\ Sequential \in BOOLEAN /\ Faults \in BOOLEAN /\ SlowRuns \in BOOLEAN
    /\ MaxCrashes \in Nat
    /\ Requests \subseteq Nat
    /\ None \notin Requests \cup Instances \cup Card

VARIABLES
    pc,               \* where the handler of a request stands
    loc,              \* its local variables
    processing,       \* processingRooms.has(key), per instance
    cancelled,        \* cancelledRooms.has(key)
    aborter,          \* abortControllers.get(key): the run it belongs to
    pendingApprovals, \* pendingApprovals.get(key): a card or None
    lock,             \* Redis key lock:agent-approval:<key>: token or None
    store,            \* the room's AgentPendingApproval row or None
    msg,              \* status of the user messages
    answers,          \* assistant answers saved: to which message, by whom
    thread,           \* checkpoint of an agent thread: does it have next nodes?
    interrupt,        \* the interrupt pending in a thread's checkpoint
    executions,       \* mutations committed by tools: card approved, request run
    stopped,          \* history: the threads of which a run was stopped
    crashes

mem  == <<processing, cancelled, aborter, pendingApprovals>>
db   == <<store, msg, answers>>
lang == <<thread, interrupt, executions, stopped>>
vars == <<pc, loc, mem, lock, db, lang, crashes>>

Decisions == {"approve", "cancel", "revise"}

(* The awaits at which a handler may be suspended.                         *)
SendPcs     == {"rateLimit", "saveUser", "prepare"}
RetryPcs    == {"checkRetryable", "getState", "completeIfFailed", "saveRetried"}
GraphPcs    == {"stream", "saveCard", "saveCardMessage", "saveAnswer",
                "cancelTry", "cancelCatch", "failGen", "finally"}
ApprovalPcs == {"resolve", "resume", "resumed", "checkInterrupt", "resave",
                "deleteStore", "deleteStoreCatch", "deleteStoreOnly",
                "deleteMemory"}
JoinPcs     == {"joinFind", "joinCheck", "joinDelete"}
Pcs == {"idle", "acquire", "release", "done"}
           \cup SendPcs \cup RetryPcs \cup GraphPcs \cup ApprovalPcs \cup JoinPcs

ApprovalKinds == {"button", "chat"}
Approval(h) == loc[h].kind \in ApprovalKinds
Here(h)     == loc[h].at

(* createAgentRunContext: one agent thread per user message.               *)
RunThread(h) == CASE loc[h].kind = "send"  -> h
                  [] loc[h].kind = "retry" -> loc[h].target
                  [] OTHER                 -> loc[h].card.thread

(* statusUserMessageId: the message whose status a cancelled run changes.  *)
(* An answer in the chat gets it when its own message is saved, and from   *)
(* then on has a decision.                                                 *)
StatusMessage(h) ==
    IF loc[h].kind = "chat" /\ loc[h].decision # None THEN h ELSE RunThread(h)

NoLocals == [kind |-> "none", at |-> None, target |-> None, card |-> None,
             decision |-> None, aborted |-> FALSE]

Init ==
    /\ pc = [h \in Requests |-> "idle"]
    /\ loc = [h \in Requests |-> NoLocals]
    /\ processing = [i \in Instances |-> FALSE]
    /\ cancelled = [i \in Instances |-> FALSE]
    /\ aborter = [i \in Instances |-> None]
    /\ pendingApprovals = [i \in Instances |-> None]
    /\ lock = None
    /\ store = None
    /\ msg = [h \in Requests |-> "none"]
    /\ answers = {}
    /\ thread = [h \in Requests |-> "none"]
    /\ interrupt = [h \in Requests |-> None]
    /\ executions = {}
    /\ stopped = {}
    /\ crashes = 0

Active(h) == pc[h] \notin {"idle", "done"}

Enter(h, p, frame) == pc' = [pc EXCEPT ![h] = p] /\ loc' = [loc EXCEPT ![h] = frame]

(* Go on at p; the locals of a handler that returns are gone.              *)
Goto(h, p) == Enter(h, p, IF p = "done" THEN NoLocals ELSE loc[h])

(* A client event reaches instance i.                                      *)
Arrives(h, op) ==
    /\ pc[h] = "idle" /\ op \in Ops
    /\ Sequential /\ op # "stop" => \A g \in Requests : ~Active(g)

(* What a call writes to PostgreSQL: a status, the card row, an answer.    *)
StatusIs(m, s)   == msg' = [msg EXCEPT ![m] = s] /\ UNCHANGED <<store, answers>>
StoreIs(c)       == store' = c /\ UNCHANGED <<msg, answers>>
Answer(h, how)   == [to |-> RunThread(h), by |-> h, via |-> how]
AnswerIs(h, how) == answers' = answers \cup {Answer(h, how)} /\ UNCHANGED <<store, msg>>

(* The card of the interrupt that the run of h raised.                     *)
OwnCard(h) == [id |-> h, thread |-> RunThread(h)]

(* The one transaction of a retried answer: it changes a FAILED message    *)
(* only, to COMPLETED and together with the answer.                        *)
SettleRetry(h) ==
    /\ msg[loc[h].target] = "FAILED"
    /\ msg' = [msg EXCEPT ![loc[h].target] = "COMPLETED"]
    /\ answers' = answers \cup {Answer(h, "retry")}
    /\ UNCHANGED store

Frame(i, kind, target, card) ==
    [kind |-> kind, at |-> i, target |-> target, card |-> card,
     decision |-> None, aborted |-> FALSE]

-----------------------------------------------------------------------------
(* send_message.  A pending card turns the text into an answer to it.      *)

SendMessage(h, i) ==
    /\ Arrives(h, "send")
    /\ \/ /\ pendingApprovals[i] = None
          /\ Enter(h, "rateLimit", Frame(i, "send", None, None))
       \/ /\ pendingApprovals[i] # None /\ ~processing[i]
          /\ Enter(h, "acquire", Frame(i, "chat", None, pendingApprovals[i]))
       \/ /\ pendingApprovals[i] # None /\ processing[i]
          /\ Goto(h, "done")
    /\ UNCHANGED <<mem, lock, db, lang, crashes>>

(* retry_message: both guards are read before the rate limiter's await.    *)
RetryMessage(h, i) ==
    /\ Arrives(h, "retry")
    /\ IF pendingApprovals[i] # None \/ processing[i]
       THEN Goto(h, "done")
       ELSE \E m \in Requests : Enter(h, "rateLimit", Frame(i, "retry", m, None))
    /\ UNCHANGED <<mem, lock, db, lang, crashes>>

(* redisRateLimitService.consume rejects the request, or fails.            *)
RateLimitRejects(h) ==
    /\ pc[h] = "rateLimit"
    /\ Goto(h, "done")
    /\ UNCHANGED <<mem, lock, db, lang, crashes>>

RateLimitAllowsSend(h) ==
    /\ pc[h] = "rateLimit" /\ loc[h].kind = "send"
    /\ IF processing[Here(h)]
       THEN Goto(h, "done") /\ UNCHANGED processing
       ELSE Goto(h, "saveUser") /\ processing' = [processing EXCEPT ![Here(h)] = TRUE]
    /\ UNCHANGED <<cancelled, aborter, pendingApprovals, lock, db, lang, crashes>>

(* handleRetryMessage marks the room without looking at it again.          *)
RateLimitAllowsRetry(h) ==
    /\ pc[h] = "rateLimit" /\ loc[h].kind = "retry"
    /\ Goto(h, "checkRetryable")
    /\ processing' = [processing EXCEPT ![Here(h)] = TRUE]
    /\ aborter' = [aborter EXCEPT ![Here(h)] = h]
    /\ UNCHANGED <<cancelled, pendingApprovals, lock, db, lang, crashes>>

SaveUserMessage(h) ==
    /\ pc[h] = "saveUser"
    /\ Goto(h, "prepare")
    /\ StatusIs(h, "COMPLETED")
    /\ UNCHANGED <<mem, lock, lang, crashes>>

(* Memory job, room title and context window, then the abort controller.   *)
PrepareContext(h) ==
    /\ pc[h] = "prepare"
    /\ Goto(h, "stream")
    /\ aborter' = [aborter EXCEPT ![Here(h)] = h]
    /\ UNCHANGED <<processing, cancelled, pendingApprovals, lock, db, lang, crashes>>

-----------------------------------------------------------------------------
(* Where a handler goes when an await of it throws: its catch clause runs  *)
(* without a further await up to the next one.                             *)

InCatch == {"cancelCatch", "failGen", "checkInterrupt", "resave",
            "deleteStoreCatch", "deleteStoreOnly"}

OnError(h, isAbort) ==
    IF loc[h].kind = "join" THEN "done"
    ELSE IF loc[h].kind = "retry" \/ pc[h] \in InCatch THEN "finally"
    ELSE IF loc[h].kind = "send" /\ msg[h] = "none" THEN "finally"
    ELSE IF cancelled[Here(h)] \/ isAbort THEN "cancelCatch"
    ELSE IF loc[h].kind = "send" THEN "failGen"
    ELSE "checkInterrupt"

(* A PostgreSQL call fails: before it wrote anything, or after, when only  *)
(* the answer is lost (an answer saved so is unknown to its handler) or    *)
(* the rest of the call fails (cancelGeneration and failGeneration begin   *)
(* with the status, an approval in the chat with its message).             *)
DatabaseFails(h) ==
    /\ Faults
    /\ pc[h] \in (SendPcs \cup RetryPcs \cup GraphPcs \cup ApprovalPcs \cup JoinPcs)
                     \ {"rateLimit", "stream", "resume", "resumed", "finally", "deleteMemory"}
    /\ Goto(h, OnError(h, FALSE))
    /\ \/ UNCHANGED db
       \/ /\ pc[h] = "saveUser" \/ (pc[h] = "resolve" /\ loc[h].kind = "chat")
          /\ StatusIs(h, "COMPLETED")
       \/ pc[h] \in {"cancelTry", "cancelCatch"} /\ StatusIs(StatusMessage(h), "CANCELLED")
       \/ pc[h] = "failGen" /\ StatusIs(h, "FAILED")
       \/ /\ pc[h] = "completeIfFailed" /\ msg[loc[h].target] = "FAILED"
          /\ StatusIs(loc[h].target, "COMPLETED")
       \/ pc[h] = "saveRetried" /\ SettleRetry(h)
       \/ pc[h] = "saveAnswer" /\ AnswerIs(h, "unacknowledged")
       \/ pc[h] = "saveCard" /\ StoreIs(OwnCard(h))
       \/ pc[h] = "resave" /\ StoreIs(loc[h].card)
       \/ /\ pc[h] \in {"deleteStore", "deleteStoreCatch", "deleteStoreOnly", "joinDelete"}
          /\ StoreIs(None)
    /\ UNCHANGED <<mem, lock, lang, crashes>>

-----------------------------------------------------------------------------
(* The agent graph (LangGraph, checkpointed in PostgreSQL) as the gateway  *)
(* sees it through agent.service.ts.                                       *)

(* streamReply: the first checkpoint of the thread.                        *)
GraphStarts(h) ==
    /\ pc[h] = "stream" /\ thread[RunThread(h)] = "none"
    /\ thread' = [thread EXCEPT ![RunThread(h)] = "next"]
    /\ UNCHANGED <<pc, loc, mem, lock, db, interrupt, executions, stopped, crashes>>

(* The loop of send and approval looks at cancelledRooms at every event;   *)
(* the loop of retry does not.                                             *)
StopSeen(h) == loc[h].kind # "retry" /\ cancelled[Here(h)]

GraphInterrupts(h) ==
    /\ pc[h] = "stream" /\ thread[RunThread(h)] # "none"
    /\ thread' = [thread EXCEPT ![RunThread(h)] = "next"]
    /\ interrupt' = [interrupt EXCEPT ![RunThread(h)] = h]
    /\ Goto(h, IF StopSeen(h) THEN "cancelTry" ELSE "saveCard")
    /\ UNCHANGED <<mem, lock, db, executions, stopped, crashes>>

(* The stream ends, with a text or (an error of the gateway) without one.  *)
GraphCompletes(h) ==
    /\ pc[h] = "stream" /\ thread[RunThread(h)] # "none"
    /\ thread' = [thread EXCEPT ![RunThread(h)] = "done"]
    /\ interrupt' = [interrupt EXCEPT ![RunThread(h)] = None]
    /\ \E text \in BOOLEAN :
         Goto(h, IF StopSeen(h) THEN "cancelTry"
                 ELSE IF ~text THEN OnError(h, FALSE)
                 ELSE IF loc[h].kind = "retry" THEN "saveRetried" ELSE "saveAnswer")
    /\ UNCHANGED <<mem, lock, db, executions, stopped, crashes>>

(* A text delta is delivered after a stop: the run is abandoned.           *)
DeltaAfterStop(h) ==
    /\ pc[h] = "stream" /\ StopSeen(h)
    /\ Goto(h, "cancelTry")
    /\ UNCHANGED <<mem, lock, db, lang, crashes>>

(* The model provider fails, or the abort signal ends the stream.          *)
GraphFails(h) ==
    /\ pc[h] \in {"stream", "resume", "resumed"}
    /\ Goto(h, OnError(h, loc[h].aborted))
    /\ UNCHANGED <<mem, lock, db, lang, crashes>>

-----------------------------------------------------------------------------
(* The ends of a run.                                                      *)

(* setPendingApproval: upsert the row, save the request message, then show *)
(* the card.                                                               *)
SaveCard(h) ==
    /\ pc[h] = "saveCard"
    /\ Goto(h, "saveCardMessage")
    /\ StoreIs(OwnCard(h))
    /\ UNCHANGED <<mem, lock, lang, crashes>>

(* Variant: the new card is stored but not put into memory.                *)
SaveCardMessageNotShown(h) ==
    /\ pc[h] = "saveCardMessage"
    /\ Goto(h, IF loc[h].kind = "retry" THEN "completeIfFailed" ELSE "finally")
    /\ UNCHANGED <<mem, lock, db, lang, crashes>>

SaveCardMessage(h) ==
    /\ pc[h] = "saveCardMessage"
    /\ pendingApprovals' = [pendingApprovals EXCEPT ![Here(h)] = OwnCard(h)]
    /\ Goto(h, IF loc[h].kind = "retry" THEN "completeIfFailed" ELSE "finally")
    /\ UNCHANGED <<processing, cancelled, aborter, lock, db, lang, crashes>>

(* The answer of a message is saved by its own run or, when a card waited, *)
(* by the run of the approval.                                             *)
SaveAnswer(h) ==
    /\ pc[h] = "saveAnswer"
    /\ Goto(h, IF Approval(h) THEN "deleteStore" ELSE "finally")
    /\ AnswerIs(h, IF Approval(h) THEN "approval" ELSE "send")
    /\ UNCHANGED <<mem, lock, lang, crashes>>

CancelGeneration(h) ==
    /\ pc[h] \in {"cancelTry", "cancelCatch"}
    /\ Goto(h, IF ~Approval(h) THEN "finally"
               ELSE IF pc[h] = "cancelTry" THEN "deleteStore" ELSE "deleteStoreCatch")
    /\ StatusIs(StatusMessage(h), "CANCELLED")
    /\ stopped' = stopped \cup {RunThread(h)}
    /\ UNCHANGED <<mem, lock, thread, interrupt, executions, crashes>>

FailGeneration(h) ==
    /\ pc[h] = "failGen"
    /\ Goto(h, "finally")
    /\ StatusIs(h, "FAILED")
    /\ UNCHANGED <<mem, lock, lang, crashes>>

(* Variants: one of the flags is not deleted.                              *)
FinallyKeepsCancelled(h) ==
    /\ pc[h] = "finally"
    /\ Goto(h, IF Approval(h) THEN "release" ELSE "done")
    /\ processing' = [processing EXCEPT ![Here(h)] = FALSE]
    /\ aborter' = [aborter EXCEPT ![Here(h)] = None]
    /\ UNCHANGED <<cancelled, pendingApprovals, lock, db, lang, crashes>>

(* finally { processingRooms, cancelledRooms, abortControllers .delete }   *)
Finally(h) ==
    /\ pc[h] = "finally"
    /\ Goto(h, IF Approval(h) THEN "release" ELSE "done")
    /\ processing' = [processing EXCEPT ![Here(h)] = FALSE]
    /\ cancelled' = [cancelled EXCEPT ![Here(h)] = FALSE]
    /\ aborter' = [aborter EXCEPT ![Here(h)] = None]
    /\ UNCHANGED <<pendingApprovals, lock, db, lang, crashes>>

-----------------------------------------------------------------------------
(* retry_message after the rate limiter.                                   *)

GetRetryableUserMessage(h) ==
    /\ pc[h] = "checkRetryable"
    /\ Goto(h, IF msg[loc[h].target] = "FAILED" THEN "getState" ELSE "finally")
    /\ UNCHANGED <<mem, lock, db, lang, crashes>>

(* Variant: a thread that cannot be retried is not reported.               *)
RetryReplyWithoutErrors(h) ==
    LET t == loc[h].target IN
    /\ pc[h] = "getState" /\ interrupt[t] = None
    /\ \/ thread[t] = "next" /\ Goto(h, "stream")
       \/ thread[t] = "done" /\ Goto(h, "saveRetried")
    /\ UNCHANGED <<mem, lock, db, lang, crashes>>

(* retryReply: refuse an interrupted thread, continue an unfinished one,   *)
(* replay the answer of a finished one (or fail if it is empty).           *)
RetryReply(h) ==
    LET t == loc[h].target IN
    /\ pc[h] = "getState"
    /\ \/ interrupt[t] = None /\ thread[t] = "next" /\ Goto(h, "stream")
       \/ interrupt[t] = None /\ thread[t] = "done" /\ Goto(h, "saveRetried")
       \/ (interrupt[t] # None \/ thread[t] # "next") /\ Goto(h, "finally")
    /\ UNCHANGED <<mem, lock, db, lang, crashes>>

(* Variant: the message of a card stays FAILED.                            *)
CompleteNothing(h) ==
    /\ pc[h] = "completeIfFailed"
    /\ Goto(h, "finally")
    /\ UNCHANGED <<mem, lock, db, lang, crashes>>

CompleteUserMessageIfFailed(h) ==
    /\ pc[h] = "completeIfFailed"
    /\ Goto(h, "finally")
    /\ IF msg[loc[h].target] = "FAILED"
       THEN StatusIs(loc[h].target, "COMPLETED") ELSE UNCHANGED db
    /\ UNCHANGED <<mem, lock, lang, crashes>>

(* Variant: the update is not conditional.                                 *)
SaveRetriedUnconditionally(h) ==
    /\ pc[h] = "saveRetried"
    /\ Goto(h, "finally")
    /\ msg' = [msg EXCEPT ![loc[h].target] = "COMPLETED"]
    /\ answers' = answers \cup {Answer(h, "retry")}
    /\ UNCHANGED <<mem, lock, store, lang, crashes>>

SaveRetriedAssistantMessage(h) ==
    /\ pc[h] = "saveRetried"
    /\ Goto(h, "finally")
    /\ SettleRetry(h) \/ (msg[loc[h].target] # "FAILED" /\ UNCHANGED db)
    /\ UNCHANGED <<mem, lock, lang, crashes>>

-----------------------------------------------------------------------------
(* processAgentApproval.                                                   *)

(* The button names a card; it must be the one in this instance's memory.  *)
RespondAgentApproval(h, i) ==
    /\ Arrives(h, "approve")
    /\ \E id \in Requests :
         IF /\ pendingApprovals[i] # None /\ pendingApprovals[i].id = id
            /\ ~processing[i]
         THEN Enter(h, "acquire", Frame(i, "button", None, pendingApprovals[i]))
         ELSE Goto(h, "done")
    /\ UNCHANGED <<mem, lock, db, lang, crashes>>

(* Variant: SET without NX.                                                *)
AcquireWithoutNX(h) ==
    /\ pc[h] = "acquire"
    /\ lock' = h
    /\ Goto(h, "resolve")
    /\ processing' = [processing EXCEPT ![Here(h)] = TRUE]
    /\ aborter' = [aborter EXCEPT ![Here(h)] = h]
    /\ UNCHANGED <<cancelled, pendingApprovals, db, lang, crashes>>

(* SET NX: taken, refused, or Redis does not answer.                       *)
Acquire(h) ==
    /\ pc[h] = "acquire" /\ lock = None
    /\ lock' = h
    /\ Goto(h, "resolve")
    /\ processing' = [processing EXCEPT ![Here(h)] = TRUE]
    /\ aborter' = [aborter EXCEPT ![Here(h)] = h]
    /\ UNCHANGED <<cancelled, pendingApprovals, db, lang, crashes>>

AcquireRefused(h) ==
    /\ pc[h] = "acquire" /\ (lock # None \/ Faults)
    /\ Goto(h, "done")
    /\ UNCHANGED <<mem, lock, db, lang, crashes>>

(* resolveApprovalDecision; an unclear text leaves everything as it was.   *)
ResolveDecision(h) ==
    /\ pc[h] = "resolve"
    /\ msg' = IF loc[h].kind = "chat" THEN [msg EXCEPT ![h] = "COMPLETED"] ELSE msg
    /\ \/ \E d \in Decisions : Enter(h, "resume", [loc[h] EXCEPT !.decision = d])
       \/ loc[h].kind = "chat" /\ Goto(h, "finally")
    /\ UNCHANGED <<mem, lock, store, answers, lang, crashes>>

(* resumeReply: the interrupted tool runs again from its start and finds   *)
(* the decision.  On approve it commits its mutation, or refuses (the row  *)
(* changed, or the operation is already applied).                          *)
ResumeCommits(h) ==
    LET t == RunThread(h) IN
    /\ pc[h] = "resume" /\ interrupt[t] # None /\ loc[h].decision = "approve"
    /\ Goto(h, "resumed")
    /\ executions' = executions \cup {[card |-> loc[h].card.id, req |-> interrupt[t]]}
    /\ UNCHANGED <<mem, lock, db, thread, interrupt, stopped, crashes>>

ResumeWithoutCommit(h) ==
    /\ pc[h] = "resume" /\ interrupt[RunThread(h)] # None
    /\ Goto(h, "resumed")
    /\ UNCHANGED <<mem, lock, db, lang, crashes>>

(* The checkpoint after the tool node; until then the interrupt is pending.*)
ToolCheckpoint(h) ==
    /\ pc[h] = "resumed"
    /\ Goto(h, "stream")
    /\ interrupt' = [interrupt EXCEPT ![RunThread(h)] = None]
    /\ UNCHANGED <<mem, lock, db, thread, executions, stopped, crashes>>

(* Nothing is interrupted any more: an unfinished thread goes on, a        *)
(* finished one streams nothing, which is an error.                        *)
ResumeFindsNothing(h) ==
    LET t == RunThread(h) IN
    /\ pc[h] = "resume" /\ interrupt[t] = None
    /\ Goto(h, IF thread[t] = "next" THEN "stream" ELSE OnError(h, FALSE))
    /\ UNCHANGED <<mem, lock, db, lang, crashes>>

DeleteStore(h) ==
    /\ pc[h] \in {"deleteStore", "deleteStoreCatch", "deleteStoreOnly"}
    /\ Goto(h, IF pc[h] = "deleteStoreOnly" THEN "finally" ELSE "deleteMemory")
    /\ StoreIs(None)
    /\ UNCHANGED <<mem, lock, lang, crashes>>

(* Variant: the card stays in memory.                                      *)
DeleteMemoryForgotten(h) ==
    /\ pc[h] = "deleteMemory"
    /\ Goto(h, "finally")
    /\ UNCHANGED <<mem, lock, db, lang, crashes>>

DeleteMemory(h) ==
    /\ pc[h] = "deleteMemory"
    /\ Goto(h, "finally")
    /\ pendingApprovals' = [pendingApprovals EXCEPT ![Here(h)] = None]
    /\ UNCHANGED <<processing, cancelled, aborter, lock, db, lang, crashes>>

(* Variant: the card is dropped whatever the checkpoint says.              *)
CheckInterruptDrops(h) ==
    /\ pc[h] = "checkInterrupt"
    /\ Goto(h, "deleteStoreOnly")
    /\ pendingApprovals' = [pendingApprovals EXCEPT ![Here(h)] = None]
    /\ UNCHANGED <<processing, cancelled, aborter, lock, db, lang, crashes>>

(* The catch clause asks the checkpoint whether an interrupt is pending:   *)
(* then the card that was answered is stored and shown again.              *)
CheckInterrupt(h) ==
    /\ pc[h] = "checkInterrupt"
    /\ IF interrupt[RunThread(h)] # None
       THEN Goto(h, "resave") /\ UNCHANGED pendingApprovals
       ELSE /\ Goto(h, "deleteStoreOnly")
            /\ pendingApprovals' = [pendingApprovals EXCEPT ![Here(h)] = None]
    /\ UNCHANGED <<processing, cancelled, aborter, lock, db, lang, crashes>>

ResaveCard(h) ==
    /\ pc[h] = "resave"
    /\ Goto(h, "finally")
    /\ store' = loc[h].card
    /\ pendingApprovals' = [pendingApprovals EXCEPT ![Here(h)] = loc[h].card]
    /\ UNCHANGED <<processing, cancelled, aborter, lock, msg, answers, lang, crashes>>

(* Compare-and-delete by token; a failure is logged and the key stays.     *)
(* An instance has one Redis connection, which answers in the order of the *)
(* requests: a SET sent before this delete is answered before it.          *)
ReleaseLock(h) ==
    /\ pc[h] = "release"
    /\ \A g \in Requests : pc[g] = "acquire" => Here(g) # Here(h)
    /\ Goto(h, "done")
    /\ \/ lock' = IF lock = h THEN None ELSE lock
       \/ Faults /\ UNCHANGED lock
    /\ UNCHANGED <<mem, db, lang, crashes>>

-----------------------------------------------------------------------------
(* stop_generation: everything happens after its only await.               *)
StopGeneration(h, i) ==
    /\ Arrives(h, "stop")
    /\ pc' = [pc EXCEPT ![h] = "done"]
    /\ loc' = [g \in Requests |-> IF processing[i] /\ g = aborter[i]
                                  THEN [loc[g] EXCEPT !.aborted = TRUE] ELSE loc[g]]
    /\ cancelled' = [cancelled EXCEPT ![i] = @ \/ processing[i]]
    /\ UNCHANGED <<processing, aborter, pendingApprovals, lock, db, lang, crashes>>

-----------------------------------------------------------------------------
(* join_room: restorePendingApproval.                                      *)

JoinRoom(h, i) ==
    /\ Arrives(h, "join")
    /\ Enter(h, IF pendingApprovals[i] = None THEN "joinFind" ELSE "joinCheck",
             Frame(i, "join", None, pendingApprovals[i]))
    /\ UNCHANGED <<mem, lock, db, lang, crashes>>

FindStoredApproval(h) ==
    /\ pc[h] = "joinFind"
    /\ \/ store = None /\ Goto(h, "done")
       \/ store # None /\ Enter(h, "joinCheck", [loc[h] EXCEPT !.card = store])
    /\ UNCHANGED <<mem, lock, db, lang, crashes>>

RestorePendingApproval(h) ==
    /\ pc[h] = "joinCheck"
    /\ LET pending == interrupt[loc[h].card.thread] # None IN
       /\ Goto(h, IF pending THEN "done" ELSE "joinDelete")
       /\ pendingApprovals' = [pendingApprovals EXCEPT
                                 ![Here(h)] = IF pending THEN loc[h].card ELSE None]
    /\ UNCHANGED <<processing, cancelled, aborter, lock, db, lang, crashes>>

DropStoredApproval(h) ==
    /\ pc[h] = "joinDelete"
    /\ Goto(h, "done")
    /\ StoreIs(None)
    /\ UNCHANGED <<mem, lock, lang, crashes>>

-----------------------------------------------------------------------------
(* A server process dies: its handlers and its maps are gone.              *)
Crash(i) ==
    /\ crashes < MaxCrashes
    /\ crashes' = crashes + 1
    /\ LET Dead(h) == Active(h) /\ Here(h) = i IN
       /\ pc' = [h \in Requests |-> IF Dead(h) THEN "done" ELSE pc[h]]
       /\ loc' = [h \in Requests |-> IF Dead(h) THEN NoLocals ELSE loc[h]]
    /\ processing' = [processing EXCEPT ![i] = FALSE]
    /\ cancelled' = [cancelled EXCEPT ![i] = FALSE]
    /\ aborter' = [aborter EXCEPT ![i] = None]
    /\ pendingApprovals' = [pendingApprovals EXCEPT ![i] = None]
    /\ UNCHANGED <<lock, db, lang>>

(* Variant: the lock is set without a TTL.                                 *)
LockNeverExpires == FALSE /\ UNCHANGED vars

(* The TTL of the lock runs out: always after its holder died, and under   *)
(* SlowRuns also while it still works.                                     *)
LockExpires ==
    /\ lock # None
    /\ SlowRuns \/ ~Active(lock)
    /\ lock' = None
    /\ UNCHANGED <<pc, loc, mem, db, lang, crashes>>

-----------------------------------------------------------------------------
ClientEvent(h) ==
    /\ \A g \in Requests : g < h => pc[g] # "idle"
    /\ \E i \in Instances :
           \/ SendMessage(h, i) \/ RetryMessage(h, i) \/ RespondAgentApproval(h, i)
           \/ StopGeneration(h, i) \/ JoinRoom(h, i)

(* A handler goes on as its calls return, or one of them throws.           *)
HandlerProceeds(h) ==
    \/ RateLimitRejects(h) \/ RateLimitAllowsSend(h) \/ RateLimitAllowsRetry(h)
    \/ SaveUserMessage(h) \/ PrepareContext(h)
    \/ GraphStarts(h) \/ GraphInterrupts(h) \/ GraphCompletes(h)
    \/ DeltaAfterStop(h)
    \/ SaveCard(h) \/ SaveCardMessage(h) \/ SaveAnswer(h)
    \/ CancelGeneration(h) \/ FailGeneration(h) \/ Finally(h)
    \/ GetRetryableUserMessage(h) \/ RetryReply(h)
    \/ CompleteUserMessageIfFailed(h) \/ SaveRetriedAssistantMessage(h)
    \/ Acquire(h) \/ AcquireRefused(h) \/ ResolveDecision(h)
    \/ ResumeCommits(h) \/ ResumeWithoutCommit(h) \/ ToolCheckpoint(h)
    \/ ResumeFindsNothing(h) \/ DeleteStore(h) \/ DeleteMemory(h)
    \/ CheckInterrupt(h) \/ ResaveCard(h) \/ ReleaseLock(h)
    \/ FindStoredApproval(h) \/ RestorePendingApproval(h) \/ DropStoredApproval(h)

HandlerStep(h) == HandlerProceeds(h) \/ DatabaseFails(h) \/ GraphFails(h)

Next ==
    \/ \E h \in Requests : ClientEvent(h) \/ HandlerStep(h)
    \/ \E i \in Instances : Crash(i)
    \/ LockExpires

Spec == Init /\ [][Next]_vars

(* An await returns or throws, a model call ends (the providers' client    *)
(* libraries have a timeout), and Redis expires keys.                      *)
Fairness == WF_vars(LockExpires) /\ \A h \in Requests : WF_vars(HandlerProceeds(h))
FairSpec == Spec /\ Fairness

-----------------------------------------------------------------------------
(* Properties.                                                             *)

(* Between try and finally of a handler that talks to the agent.           *)
InRun(h) == Active(h) /\ pc[h] \notin {"rateLimit", "acquire", "release"} \cup JoinPcs

(* The agent graph runs for the handler.                                   *)
Generating(h) == pc[h] \in {"stream", "resume", "resumed"}

(* Between the acquisition of the approval lock and its release.           *)
InApproval(h) == Approval(h) /\ (InRun(h) \/ pc[h] = "release")

LocalState == [kind : {"none", "send", "chat", "retry", "button", "join"},
               at : Instances \cup {None}, target : Requests \cup {None},
               card : Card \cup {None}, decision : Decisions \cup {None},
               aborted : BOOLEAN]

(* What a handler standing at p has in its locals f.                       *)
FrameAt(p, f) ==
    LET approval == f.kind \in ApprovalKinds IN
    /\ f.kind = "none" <=> p \in {"idle", "done"}
    /\ p \notin {"idle", "done"} => f.at \in Instances
    /\ p \in {"acquire", "release"} \cup ApprovalPcs => approval
    /\ p = "rateLimit" => ~approval
    /\ p \in SendPcs \ {"rateLimit"} => f.kind = "send"
    /\ p \in RetryPcs => f.kind = "retry"
    /\ p = "saveAnswer" => f.kind # "retry"
    /\ f.kind = "join" <=> p \in JoinPcs
    /\ f.kind = "retry" => f.target \in Requests
    /\ approval \/ p = "joinCheck" => f.card \in Card
    /\ p = "resume" => f.decision \in Decisions

HandlersOK ==
    /\ pc \in [Requests -> Pcs]
    /\ loc \in [Requests -> LocalState]
    /\ \A h \in Requests : FrameAt(pc[h], loc[h])

DataOK ==
    /\ processing \in [Instances -> BOOLEAN]
    /\ cancelled \in [Instances -> BOOLEAN]
    /\ aborter \in [Instances -> Requests \cup {None}]
    /\ pendingApprovals \in [Instances -> Card \cup {None}]
    /\ lock \in Requests \cup {None}
    /\ store \in Card \cup {None}
    /\ msg \in [Requests -> {"none", "COMPLETED", "FAILED", "CANCELLED"}]
    /\ answers \subseteq [to : Requests, by : Requests,
                         via : {"send", "retry", "approval", "unacknowledged"}]
    /\ thread \in [Requests -> {"none", "next", "done"}]
    /\ interrupt \in [Requests -> Requests \cup {None}]
    /\ executions \subseteq [card : Requests, req : Requests]
    /\ stopped \subseteq Requests
    /\ crashes \in 0..MaxCrashes

(* Every variable has its type, and a handler the locals its code uses: a  *)
(* card to answer, a message to retry, a decision to resume with.          *)
TypeOK == HandlersOK /\ DataOK

(* README.md:204: at most one handler, over all instances, is answering an *)
(* approval of the room, whatever retries and stops do to the room's flags *)
(* (as long as no run outlives the lock).                                  *)
ResumeMutex ==
    \A g, h \in Requests : InApproval(g) /\ InApproval(h) => g = h

(* A room is marked as processing or stopped only while a handler runs in  *)
(* it, so that no flag left behind blocks or cancels the next message.     *)
FlagsOwned ==
    \A i \in Instances :
        /\ cancelled[i] => processing[i]
        /\ processing[i] => \E h \in Requests : InRun(h) /\ Here(h) = i

(* chat.service.ts:603: however many retries of a message run at once, and *)
(* whatever fails, its own run and they save one answer, and a message     *)
(* that has it is not offered for retry again.  (An answer whose           *)
(* acknowledgement was lost, and those of approvals, are not among them:   *)
(* an approval may answer a message that a failing insert left FAILED.)    *)
RetriesAnswerOnce ==
    \A a \in answers : a.via \in {"send", "retry"} =>
        /\ msg[a.to] # "FAILED"
        /\ \A b \in answers : b.to = a.to /\ b.via \in {"send", "retry"} => b = a

(* An answer settles its message, for a client that waits for its answers  *)
(* and stores that do not fail: whether the message's own run, a retry or  *)
(* the approval of its card saved it, it is the only one, and the message  *)
(* is neither offered for retry nor shown as stopped.                      *)
AnswerSettles ==
    \A a \in answers :
        /\ msg[a.to] = "COMPLETED"
        /\ \A b \in answers : b.to = a.to => b = a

(* README.md:191: an instance runs one agent graph at a time for a room.   *)
RoomExclusive ==
    \A g, h \in Requests :
        Generating(g) /\ Generating(h) /\ Here(g) = Here(h) => g = h

(* The request a tool executes is the one on the card the user approved,   *)
(* for a client that waits for its answers, while cards can be stored: a   *)
(* join of a second tab, or a failing insert, puts an old card back.       *)
ApprovedIsExecuted == \A e \in executions : e.card = e.req

Quiet == \A h \in Requests : ~Active(h)

(* README.md:90: when nothing runs, the user can still answer every        *)
(* interrupt that waits for him, from the stored card (a run that he       *)
(* stopped is given up together with its interrupt).                       *)
ApprovalsRecoverable ==
    Quiet => \A t \in Requests :
        interrupt[t] # None /\ t \notin stopped
            => store = [id |-> interrupt[t], thread |-> t]

(* When nothing runs, the card in memory is the stored one: a restart does *)
(* not change what the user can answer.                                    *)
MemoryIsBacked ==
    Quiet => \A i \in Instances : pendingApprovals[i] \in {None, store}

(* There are finitely many client events, and every one of them is         *)
(* answered in the end; no crash or failure leaves the approval lock.      *)
RequestsEnd == <>[]Quiet
LockFreed   == []<>(lock = None)
=============================================================================
