------------------------- MODULE ChatGateway_proofs -------------------------
(* Theorems about ChatGateway for any number of instances and requests.    *)
EXTENDS ChatGateway, TLAPS

USE DEF Pcs, SendPcs, RetryPcs, GraphPcs, ApprovalPcs, JoinPcs, mem, db, lang,
        StatusIs, StoreIs, AnswerIs, OwnCard

(***************************************************************************)
(* Types.  A step writes the pc and the frame of one handler; EnterTypes   *)
(* and GotoTypes say when that keeps HandlersOK, so that each action only  *)
(* has to show that its frame suits the pc it goes to.                     *)
(***************************************************************************)
LEMMA NoLocalsType == NoLocals \in LocalState /\ FrameAt("done", NoLocals)
BY DEF NoLocals, LocalState, FrameAt, ApprovalKinds

LEMMA EnterTypes ==
    ASSUME HandlersOK, NEW h \in Requests, NEW p \in Pcs, NEW f \in LocalState,
           FrameAt(p, f), Enter(h, p, f)
    PROVE  HandlersOK'
<1>1. pc' \in [Requests -> Pcs] /\ loc' \in [Requests -> LocalState]
  BY DEF HandlersOK, Enter
<1>2. ASSUME NEW g \in Requests PROVE FrameAt(pc'[g], loc'[g])
  <2>1. CASE g = h
    BY <2>1 DEF HandlersOK, Enter
  <2>2. CASE g # h
    BY <2>2 DEF HandlersOK, Enter
  <2> QED BY <2>1, <2>2
<1> QED BY <1>1, <1>2 DEF HandlersOK

LEMMA GotoTypes ==
    ASSUME HandlersOK, NEW h \in Requests, NEW p \in Pcs,
           p = "done" \/ FrameAt(p, loc[h]), Goto(h, p)
    PROVE  HandlersOK'
<1>1. CASE p = "done"
  BY <1>1, EnterTypes, NoLocalsType DEF Goto
<1>2. CASE p # "done"
  <2>1. loc[h] \in LocalState
    BY DEF HandlersOK
  <2> QED BY <1>2, <2>1, EnterTypes DEF Goto
<1> QED BY <1>1, <1>2

LEMMA FrameType ==
    ASSUME NEW i \in Instances, NEW kind \in {"send", "chat", "retry", "button", "join"},
           NEW target \in Requests \cup {None}, NEW card \in Card \cup {None}
    PROVE  Frame(i, kind, target, card) \in LocalState
BY DEF Frame, LocalState

LEMMA FrameFields ==
    ASSUME HandlersOK, NEW h \in Requests
    PROVE  /\ loc[h] \in LocalState
           /\ FrameAt(pc[h], loc[h])
           /\ pc[h] \in Pcs
           /\ \A d \in Decisions : [loc[h] EXCEPT !.decision = d] \in LocalState
           /\ \A c \in Card : [loc[h] EXCEPT !.card = c] \in LocalState
           /\ [loc[h] EXCEPT !.aborted = TRUE] \in LocalState
BY DEF HandlersOK, LocalState

(* What a decision and a card do to a frame.                               *)
LEMMA DecisionFrame ==
    ASSUME NEW f \in LocalState, FrameAt("resolve", f), NEW d \in Decisions
    PROVE  FrameAt("resume", [f EXCEPT !.decision = d])
<1> DEFINE e == [f EXCEPT !.decision = d]
<1>1. e.kind = f.kind /\ e.at = f.at /\ e.target = f.target /\ e.card = f.card /\ e.decision = d
  BY DEF LocalState
<1> HIDE DEF e
<1>2. FrameAt("resume", e)
  BY <1>1 DEF FrameAt, ApprovalKinds
<1> QED BY <1>2 DEF e

LEMMA CardFrame ==
    ASSUME NEW f \in LocalState, FrameAt("joinFind", f), NEW c \in Card
    PROVE  FrameAt("joinCheck", [f EXCEPT !.card = c])
<1> DEFINE e == [f EXCEPT !.card = c]
<1>1. e.kind = f.kind /\ e.at = f.at /\ e.target = f.target /\ e.card = c
  BY DEF LocalState
<1> HIDE DEF e
<1>2. FrameAt("joinCheck", e)
  BY <1>1 DEF FrameAt, ApprovalKinds
<1> QED BY <1>2 DEF e

(* The thread a handler runs, and the message whose status it may change.  *)
LEMMA RunThreadType ==
    ASSUME HandlersOK, NEW h \in Requests, Active(h), loc[h].kind # "join"
    PROVE  RunThread(h) \in Requests /\ StatusMessage(h) \in Requests
<1>1. FrameAt(pc[h], loc[h]) /\ loc[h] \in LocalState
  BY FrameFields
<1> QED BY <1>1 DEF FrameAt, LocalState, RunThread, StatusMessage, Active, Card, ApprovalKinds

AnswerType == [to : Requests, by : Requests,
               via : {"send", "retry", "approval", "unacknowledged"}]

LEMMA AnswerTypes ==
    ASSUME HandlersOK, NEW h \in Requests, Active(h), loc[h].kind # "join",
           NEW how \in {"send", "retry", "approval", "unacknowledged"}
    PROVE  Answer(h, how) \in AnswerType
BY RunThreadType DEF Answer, AnswerType

(* The transaction of a retried answer keeps the types.                    *)
LEMMA RetryData ==
    ASSUME TypeOK, NEW h \in Requests, pc[h] = "saveRetried", SettleRetry(h)
    PROVE  /\ msg' \in [Requests -> {"none", "COMPLETED", "FAILED", "CANCELLED"}]
           /\ answers' \subseteq [to : Requests, by : Requests,
                                   via : {"send", "retry", "approval", "unacknowledged"}]
           /\ UNCHANGED store
<1>1. Active(h) /\ loc[h].kind = "retry" /\ loc[h].target \in Requests
  BY FrameFields DEF TypeOK, FrameAt, Active
<1>2. Answer(h, "retry") \in AnswerType
  BY <1>1, AnswerTypes DEF TypeOK
<1> QED BY <1>1, <1>2 DEF SettleRetry, TypeOK, DataOK, AnswerType

(* Wherever an await throws, the frame suits the catch clause.             *)
LEMMA OnErrorType ==
    ASSUME HandlersOK, NEW h \in Requests, NEW b, Active(h)
    PROVE  /\ OnError(h, b) \in Pcs
           /\ OnError(h, b) = "done" \/ FrameAt(OnError(h, b), loc[h])
<1>1. FrameAt(pc[h], loc[h]) /\ loc[h] \in LocalState
  BY FrameFields
<1> QED BY <1>1 DEF FrameAt, LocalState, OnError, InCatch, Active, ApprovalKinds

LEMMA ErrorTypes ==
    ASSUME HandlersOK, NEW h \in Requests, NEW b, Active(h), Goto(h, OnError(h, b))
    PROVE  HandlersOK'
BY GotoTypes, OnErrorType

LEMMA StepHandlers == ASSUME TypeOK, [Next]_vars PROVE HandlersOK'
<1> USE GatewayAssumption DEF TypeOK
<1>1. ASSUME NEW h \in Requests, ClientEvent(h) PROVE HandlersOK'
  <2>0. PICK i \in Instances : \/ SendMessage(h, i) \/ RetryMessage(h, i)
                               \/ RespondAgentApproval(h, i)
                               \/ StopGeneration(h, i) \/ JoinRoom(h, i)
    BY <1>1 DEF ClientEvent
  <2>1. CASE SendMessage(h, i)
    BY <2>1, EnterTypes, GotoTypes, FrameType DEF SendMessage, DataOK, Frame, FrameAt, ApprovalKinds
  <2>2. CASE RetryMessage(h, i)
    BY <2>2, EnterTypes, GotoTypes DEF RetryMessage, Here, HandlersOK, FrameAt, LocalState, Card, Decisions, ApprovalKinds, Approval, Arrives, Frame
  <2>3. CASE RespondAgentApproval(h, i)
    BY <2>3, EnterTypes, GotoTypes, FrameType DEF RespondAgentApproval, DataOK, Frame, FrameAt, ApprovalKinds
  <2>4. CASE StopGeneration(h, i)
    BY <2>4, FrameFields DEF StopGeneration, Arrives, HandlersOK, FrameAt, LocalState
  <2>5. CASE JoinRoom(h, i)
    BY <2>5, EnterTypes, GotoTypes, FrameType DEF JoinRoom, DataOK, Frame, FrameAt, ApprovalKinds
  <2> QED BY <2>0, <2>1, <2>2, <2>3, <2>4, <2>5
<1>2. ASSUME NEW h \in Requests, HandlerStep(h) PROVE HandlersOK'
  <2>1. CASE RateLimitRejects(h)
    BY <2>1, GotoTypes DEF RateLimitRejects, Here, HandlersOK, FrameAt, LocalState, Card, Decisions, ApprovalKinds, Approval, Arrives, Frame
  <2>2. CASE RateLimitAllowsSend(h)
    BY <2>2, GotoTypes DEF RateLimitAllowsSend, Here, HandlersOK, FrameAt, LocalState, Card, Decisions, ApprovalKinds, Approval, Arrives, Frame
  <2>3. CASE RateLimitAllowsRetry(h)
    BY <2>3, GotoTypes DEF RateLimitAllowsRetry, Here, HandlersOK, FrameAt, LocalState, Card, Decisions, ApprovalKinds, Approval, Arrives, Frame
  <2>4. CASE SaveUserMessage(h)
    BY <2>4, GotoTypes DEF SaveUserMessage, Here, HandlersOK, FrameAt, LocalState, Card, Decisions, ApprovalKinds, Approval, Arrives, Frame
  <2>5. CASE PrepareContext(h)
    BY <2>5, GotoTypes DEF PrepareContext, Here, HandlersOK, FrameAt, LocalState, Card, Decisions, ApprovalKinds, Approval, Arrives, Frame
  <2>6. CASE DatabaseFails(h)
    <3>1. Active(h) /\ Goto(h, OnError(h, FALSE))
      BY <2>6 DEF DatabaseFails, Active
    <3> QED BY <3>1, ErrorTypes
  <2>7. CASE GraphStarts(h)
    BY <2>7 DEF GraphStarts, Arrives, RunThread, HandlersOK, FrameAt, LocalState, Card, Decisions, ApprovalKinds
  <2>8. CASE GraphInterrupts(h)
    BY <2>8, GotoTypes DEF GraphInterrupts, RunThread, StopSeen, Here, HandlersOK, FrameAt, LocalState, Card, Decisions, ApprovalKinds, Approval, Arrives, Frame
  <2>9. CASE GraphCompletes(h)
    <3>1. Active(h) /\ FrameAt(pc[h], loc[h]) /\ pc[h] = "stream"
      BY <2>9, FrameFields DEF GraphCompletes, Active
    <3>2. CASE Goto(h, "cancelTry") /\ StopSeen(h)
      <4>1. FrameAt("cancelTry", loc[h])
        BY <3>1, <3>2 DEF FrameAt, StopSeen, ApprovalKinds
      <4> QED BY <3>2, <4>1, GotoTypes
    <3>3. CASE Goto(h, OnError(h, FALSE))
      BY <3>1, <3>3, ErrorTypes
    <3>4. CASE Goto(h, "saveRetried") /\ loc[h].kind = "retry"
      <4>1. FrameAt("saveRetried", loc[h])
        BY <3>1, <3>4 DEF FrameAt, ApprovalKinds
      <4> QED BY <3>4, <4>1, GotoTypes
    <3>5. CASE Goto(h, "saveAnswer") /\ loc[h].kind # "retry"
      <4>1. FrameAt("saveAnswer", loc[h])
        BY <3>1, <3>5 DEF FrameAt, ApprovalKinds
      <4> QED BY <3>5, <4>1, GotoTypes
    <3> QED BY <2>9, <3>2, <3>3, <3>4, <3>5 DEF GraphCompletes
  <2>10. CASE DeltaAfterStop(h)
    BY <2>10, GotoTypes DEF DeltaAfterStop, StopSeen, Here, HandlersOK, FrameAt, LocalState, Card, Decisions, ApprovalKinds, Approval, Arrives, Frame
  <2>11. CASE GraphFails(h)
    <3>1. Active(h) /\ Goto(h, OnError(h, loc[h].aborted))
      BY <2>11 DEF GraphFails, Active
    <3> QED BY <3>1, ErrorTypes
  <2>12. CASE SaveCard(h)
    BY <2>12, GotoTypes DEF SaveCard, RunThread, Card, HandlersOK, FrameAt, LocalState, Card, Decisions, ApprovalKinds, Approval, Arrives, Frame
  <2>13. CASE SaveCardMessage(h)
    BY <2>13, GotoTypes DEF SaveCardMessage, RunThread, Card, Here, HandlersOK, FrameAt, LocalState, Card, Decisions, ApprovalKinds, Approval, Arrives, Frame
  <2>14. CASE SaveAnswer(h)
    BY <2>14, GotoTypes DEF SaveAnswer, Here, HandlersOK, FrameAt, LocalState, Card, Decisions, ApprovalKinds, Approval, Arrives, Frame
  <2>15. CASE CancelGeneration(h)
    BY <2>15, GotoTypes DEF CancelGeneration, RunThread, StatusMessage, HandlersOK, FrameAt, LocalState, Card, Decisions, ApprovalKinds, Approval, Arrives, Frame
  <2>16. CASE FailGeneration(h)
    BY <2>16, GotoTypes DEF FailGeneration, Here, HandlersOK, FrameAt, LocalState, Card, Decisions, ApprovalKinds, Approval, Arrives, Frame
  <2>17. CASE Finally(h)
    BY <2>17, GotoTypes DEF Finally, Here, HandlersOK, FrameAt, LocalState, Card, Decisions, ApprovalKinds, Approval, Arrives, Frame
  <2>18. CASE GetRetryableUserMessage(h)
    BY <2>18, GotoTypes DEF GetRetryableUserMessage, Here, HandlersOK, FrameAt, LocalState, Card, Decisions, ApprovalKinds, Approval, Arrives, Frame
  <2>19. CASE RetryReply(h)
    BY <2>19, GotoTypes DEF RetryReply, Here, HandlersOK, FrameAt, LocalState, Card, Decisions, ApprovalKinds, Approval, Arrives, Frame
  <2>20. CASE CompleteUserMessageIfFailed(h)
    BY <2>20, GotoTypes DEF CompleteUserMessageIfFailed, Here, HandlersOK, FrameAt, LocalState, Card, Decisions, ApprovalKinds, Approval, Arrives, Frame
  <2>21. CASE SaveRetriedAssistantMessage(h)
    BY <2>21, GotoTypes DEF SaveRetriedAssistantMessage, Here, HandlersOK, FrameAt, LocalState, Card, Decisions, ApprovalKinds, Approval, Arrives, Frame
  <2>22. CASE Acquire(h)
    BY <2>22, GotoTypes DEF Acquire, Here, HandlersOK, FrameAt, LocalState, Card, Decisions, ApprovalKinds, Approval, Arrives, Frame
  <2>23. CASE AcquireRefused(h)
    BY <2>23, GotoTypes DEF AcquireRefused, Here, HandlersOK, FrameAt, LocalState, Card, Decisions, ApprovalKinds, Approval, Arrives, Frame
  <2>24. CASE ResolveDecision(h)
    <3>1. ASSUME NEW d \in Decisions, Enter(h, "resume", [loc[h] EXCEPT !.decision = d])
          PROVE  HandlersOK'
      <4>1. FrameAt("resume", [loc[h] EXCEPT !.decision = d])
        BY <2>24, FrameFields, DecisionFrame DEF ResolveDecision
      <4> QED BY <3>1, <4>1, EnterTypes, FrameFields
    <3>2. CASE loc[h].kind = "chat" /\ Goto(h, "finally")
      BY <2>24, <3>2, GotoTypes, FrameFields DEF ResolveDecision, FrameAt, ApprovalKinds
    <3> QED BY <2>24, <3>1, <3>2 DEF ResolveDecision
  <2>25. CASE ResumeCommits(h)
    BY <2>25, GotoTypes DEF ResumeCommits, RunThread, Card, HandlersOK, FrameAt, LocalState, Card, Decisions, ApprovalKinds, Approval, Arrives, Frame
  <2>26. CASE ResumeWithoutCommit(h)
    BY <2>26, GotoTypes DEF ResumeWithoutCommit, Here, HandlersOK, FrameAt, LocalState, Card, Decisions, ApprovalKinds, Approval, Arrives, Frame
  <2>27. CASE ToolCheckpoint(h)
    BY <2>27, GotoTypes DEF ToolCheckpoint, RunThread, HandlersOK, FrameAt, LocalState, Card, Decisions, ApprovalKinds, Approval, Arrives, Frame
  <2>28. CASE ResumeFindsNothing(h)
    BY <2>28, GotoTypes DEF ResumeFindsNothing, OnError, InCatch, RunThread, Here, HandlersOK, FrameAt, LocalState, Card, Decisions, ApprovalKinds, Approval, Arrives, Frame
  <2>29. CASE DeleteStore(h)
    BY <2>29, GotoTypes DEF DeleteStore, Here, HandlersOK, FrameAt, LocalState, Card, Decisions, ApprovalKinds, Approval, Arrives, Frame
  <2>30. CASE DeleteMemory(h)
    BY <2>30, GotoTypes DEF DeleteMemory, Here, HandlersOK, FrameAt, LocalState, Card, Decisions, ApprovalKinds, Approval, Arrives, Frame
  <2>31. CASE CheckInterrupt(h)
    BY <2>31, GotoTypes DEF CheckInterrupt, RunThread, Here, HandlersOK, FrameAt, LocalState, Card, Decisions, ApprovalKinds, Approval, Arrives, Frame
  <2>32. CASE ResaveCard(h)
    BY <2>32, GotoTypes DEF ResaveCard, Here, HandlersOK, FrameAt, LocalState, Card, Decisions, ApprovalKinds, Approval, Arrives, Frame
  <2>33. CASE ReleaseLock(h)
    BY <2>33, GotoTypes DEF ReleaseLock, Here, HandlersOK, FrameAt, LocalState, Card, Decisions, ApprovalKinds, Approval, Arrives, Frame
  <2>34. CASE FindStoredApproval(h)
    <3>1. CASE store # None /\ Enter(h, "joinCheck", [loc[h] EXCEPT !.card = store])
      <4>1. store \in Card
        BY <3>1 DEF DataOK
      <4>2. FrameAt("joinCheck", [loc[h] EXCEPT !.card = store])
        BY <2>34, <4>1, FrameFields, CardFrame DEF FindStoredApproval
      <4> QED BY <3>1, <4>1, <4>2, EnterTypes, FrameFields
    <3>2. CASE Goto(h, "done")
      BY <3>2, GotoTypes
    <3> QED BY <2>34, <3>1, <3>2 DEF FindStoredApproval
  <2>35. CASE RestorePendingApproval(h)
    BY <2>35, GotoTypes DEF RestorePendingApproval, Here, HandlersOK, FrameAt, LocalState, Card, Decisions, ApprovalKinds, Approval, Arrives, Frame
  <2>36. CASE DropStoredApproval(h)
    BY <2>36, GotoTypes DEF DropStoredApproval, Here, HandlersOK, FrameAt, LocalState, Card, Decisions, ApprovalKinds, Approval, Arrives, Frame
  <2> QED BY <1>2, <2>1, <2>2, <2>3, <2>4, <2>5, <2>6, <2>7, <2>8, <2>9, <2>10, <2>11, <2>12, <2>13, <2>14, <2>15, <2>16, <2>17, <2>18, <2>19, <2>20, <2>21, <2>22, <2>23, <2>24, <2>25, <2>26, <2>27, <2>28, <2>29, <2>30, <2>31, <2>32, <2>33, <2>34, <2>35, <2>36 DEF HandlerStep, HandlerProceeds
<1>3. ASSUME NEW i \in Instances, Crash(i) PROVE HandlersOK'
  BY <1>3 DEF Crash, NoLocals, HandlersOK, FrameAt, LocalState, Active, Here, ApprovalKinds
<1>4. CASE LockExpires
  BY <1>4 DEF LockExpires, HandlersOK, FrameAt, LocalState, Active, Here, ApprovalKinds
<1>5. CASE UNCHANGED vars
  BY <1>5 DEF vars, HandlersOK, FrameAt, LocalState, Active, Here, ApprovalKinds
<1> QED BY <1>1, <1>2, <1>3, <1>4, <1>5 DEF Next

LEMMA StepData == ASSUME TypeOK, [Next]_vars PROVE DataOK'
<1> USE GatewayAssumption DEF TypeOK
<1>1. ASSUME NEW h \in Requests, ClientEvent(h) PROVE DataOK'
  <2>0. PICK i \in Instances : \/ SendMessage(h, i) \/ RetryMessage(h, i)
                               \/ RespondAgentApproval(h, i)
                               \/ StopGeneration(h, i) \/ JoinRoom(h, i)
    BY <1>1 DEF ClientEvent
  <2>1. CASE SendMessage(h, i)
    BY <2>1 DEF SendMessage, Here, Arrives, Enter, Goto, Frame, NoLocals, HandlersOK, FrameAt, LocalState, Approval, ApprovalKinds, DataOK, Card
  <2>2. CASE RetryMessage(h, i)
    BY <2>2 DEF RetryMessage, Here, Arrives, Enter, Goto, Frame, NoLocals, HandlersOK, FrameAt, LocalState, Approval, ApprovalKinds, DataOK, Card
  <2>3. CASE RespondAgentApproval(h, i)
    BY <2>3 DEF RespondAgentApproval, Here, Arrives, Enter, Goto, Frame, NoLocals, HandlersOK, FrameAt, LocalState, Approval, ApprovalKinds, DataOK, Card
  <2>4. CASE StopGeneration(h, i)
    BY <2>4 DEF StopGeneration, Here, Arrives, Enter, Goto, Frame, NoLocals, HandlersOK, FrameAt, LocalState, Approval, ApprovalKinds, DataOK, Card
  <2>5. CASE JoinRoom(h, i)
    BY <2>5 DEF JoinRoom, Here, Arrives, Enter, Goto, Frame, NoLocals, HandlersOK, FrameAt, LocalState, Approval, ApprovalKinds, DataOK, Card
  <2> QED BY <2>0, <2>1, <2>2, <2>3, <2>4, <2>5
<1>2. ASSUME NEW h \in Requests, HandlerStep(h) PROVE DataOK'
  <2>1. CASE RateLimitRejects(h)
    BY <2>1 DEF RateLimitRejects, Here, Arrives, Enter, Goto, Frame, NoLocals, HandlersOK, FrameAt, LocalState, Approval, ApprovalKinds, DataOK, Card
  <2>2. CASE RateLimitAllowsSend(h)
    BY <2>2 DEF RateLimitAllowsSend, Here, Arrives, Enter, Goto, Frame, NoLocals, HandlersOK, FrameAt, LocalState, Approval, ApprovalKinds, DataOK, Card
  <2>3. CASE RateLimitAllowsRetry(h)
    BY <2>3 DEF RateLimitAllowsRetry, Here, Arrives, Enter, Goto, Frame, NoLocals, HandlersOK, FrameAt, LocalState, Approval, ApprovalKinds, DataOK, Card
  <2>4. CASE SaveUserMessage(h)
    BY <2>4 DEF SaveUserMessage, Here, Arrives, Enter, Goto, Frame, NoLocals, HandlersOK, FrameAt, LocalState, Approval, ApprovalKinds, DataOK, Card
  <2>5. CASE PrepareContext(h)
    BY <2>5 DEF PrepareContext, Here, Arrives, Enter, Goto, Frame, NoLocals, HandlersOK, FrameAt, LocalState, Approval, ApprovalKinds, DataOK, Card
  <2>6. CASE DatabaseFails(h)
    <3>0. Active(h) /\ FrameAt(pc[h], loc[h]) /\ loc[h] \in LocalState
      BY <2>6, FrameFields DEF DatabaseFails, Active
    <3>1. UNCHANGED <<mem, lock, lang, crashes>>
      BY <2>6 DEF DatabaseFails
    <3>2. CASE UNCHANGED db
      BY <3>1, <3>2 DEF DataOK
    <3>3. CASE \E t \in Requests, v \in {"COMPLETED", "CANCELLED", "FAILED"} : StatusIs(t, v)
      BY <3>1, <3>3 DEF DataOK
    <3>4. CASE \E c \in Card \cup {None} : StoreIs(c)
      BY <3>1, <3>4 DEF DataOK
    <3>5. CASE pc[h] = "saveRetried" /\ SettleRetry(h)
      BY <3>1, <3>5, RetryData DEF DataOK
    <3>6. CASE pc[h] = "saveAnswer" /\ AnswerIs(h, "unacknowledged")
      <4>1. Answer(h, "unacknowledged") \in AnswerType
        BY <3>0, <3>6, AnswerTypes DEF FrameAt
      <4> QED BY <3>1, <3>6, <4>1 DEF DataOK, AnswerType
    <3>7. loc[h].kind # "join" => StatusMessage(h) \in Requests /\ OwnCard(h) \in Card
      BY <3>0, RunThreadType DEF Card
    <3>8. pc[h] = "completeIfFailed" => loc[h].target \in Requests
      BY <3>0 DEF FrameAt
    <3>9. pc[h] = "resave" => loc[h].card \in Card
      BY <3>0 DEF FrameAt
    <3>10. pc[h] \notin JoinPcs => loc[h].kind # "join"
      BY <3>0 DEF FrameAt
    <3> HIDE DEF StatusIs, StoreIs, AnswerIs, OwnCard
    <3> QED BY <2>6, <3>2, <3>3, <3>4, <3>5, <3>6, <3>7, <3>8, <3>9, <3>10 DEF DatabaseFails
  <2>7. CASE GraphStarts(h)
    BY <2>7 DEF GraphStarts, RunThread, Arrives, Enter, Goto, Frame, NoLocals, HandlersOK, FrameAt, LocalState, Approval, ApprovalKinds, DataOK, Card
  <2>8. CASE GraphInterrupts(h)
    BY <2>8 DEF GraphInterrupts, RunThread, StopSeen, Here, Arrives, Enter, Goto, Frame, NoLocals, HandlersOK, FrameAt, LocalState, Approval, ApprovalKinds, DataOK, Card
  <2>9. CASE GraphCompletes(h)
    BY <2>9 DEF GraphCompletes, OnError, InCatch, RunThread, StopSeen, Here, Arrives, Enter, Goto, Frame, NoLocals, HandlersOK, FrameAt, LocalState, Approval, ApprovalKinds, DataOK, Card
  <2>10. CASE DeltaAfterStop(h)
    BY <2>10 DEF DeltaAfterStop, StopSeen, Here, Arrives, Enter, Goto, Frame, NoLocals, HandlersOK, FrameAt, LocalState, Approval, ApprovalKinds, DataOK, Card
  <2>11. CASE GraphFails(h)
    BY <2>11 DEF GraphFails, OnError, InCatch, Here, Arrives, Enter, Goto, Frame, NoLocals, HandlersOK, FrameAt, LocalState, Approval, ApprovalKinds, DataOK, Card
  <2>12. CASE SaveCard(h)
    BY <2>12, RunThreadType, FrameFields DEF SaveCard, Active, FrameAt, DataOK, Card, Here, ApprovalKinds
  <2>13. CASE SaveCardMessage(h)
    BY <2>13, RunThreadType, FrameFields DEF SaveCardMessage, Active, FrameAt, DataOK, Card, Here, ApprovalKinds
  <2>14. CASE SaveAnswer(h)
    <3>1. Active(h) /\ loc[h].kind # "join"
      BY <2>14, FrameFields DEF SaveAnswer, Active, FrameAt
    <3>2. Answer(h, "approval") \in AnswerType /\ Answer(h, "send") \in AnswerType
      BY <3>1, AnswerTypes
    <3> QED BY <2>14, <3>2 DEF SaveAnswer, DataOK, AnswerType
  <2>15. CASE CancelGeneration(h)
    <3>1. Active(h) /\ loc[h].kind # "join"
      BY <2>15, FrameFields DEF CancelGeneration, Active, FrameAt
    <3>2. RunThread(h) \in Requests /\ StatusMessage(h) \in Requests
      BY <3>1, RunThreadType
    <3> QED BY <2>15, <3>2 DEF CancelGeneration, DataOK
  <2>16. CASE FailGeneration(h)
    BY <2>16 DEF FailGeneration, Here, Arrives, Enter, Goto, Frame, NoLocals, HandlersOK, FrameAt, LocalState, Approval, ApprovalKinds, DataOK, Card
  <2>17. CASE Finally(h)
    BY <2>17 DEF Finally, Here, Arrives, Enter, Goto, Frame, NoLocals, HandlersOK, FrameAt, LocalState, Approval, ApprovalKinds, DataOK, Card
  <2>18. CASE GetRetryableUserMessage(h)
    BY <2>18 DEF GetRetryableUserMessage, Here, Arrives, Enter, Goto, Frame, NoLocals, HandlersOK, FrameAt, LocalState, Approval, ApprovalKinds, DataOK, Card
  <2>19. CASE RetryReply(h)
    BY <2>19 DEF RetryReply, Here, Arrives, Enter, Goto, Frame, NoLocals, HandlersOK, FrameAt, LocalState, Approval, ApprovalKinds, DataOK, Card
  <2>20. CASE CompleteUserMessageIfFailed(h)
    BY <2>20 DEF CompleteUserMessageIfFailed, Here, Arrives, Enter, Goto, Frame, NoLocals, HandlersOK, FrameAt, LocalState, Approval, ApprovalKinds, DataOK, Card
  <2>21. CASE SaveRetriedAssistantMessage(h)
    BY <2>21, RetryData DEF SaveRetriedAssistantMessage, DataOK
  <2>22. CASE Acquire(h)
    BY <2>22 DEF Acquire, Here, Arrives, Enter, Goto, Frame, NoLocals, HandlersOK, FrameAt, LocalState, Approval, ApprovalKinds, DataOK, Card
  <2>23. CASE AcquireRefused(h)
    BY <2>23 DEF AcquireRefused, Here, Arrives, Enter, Goto, Frame, NoLocals, HandlersOK, FrameAt, LocalState, Approval, ApprovalKinds, DataOK, Card
  <2>24. CASE ResolveDecision(h)
    BY <2>24 DEF ResolveDecision, Here, Arrives, Enter, Goto, Frame, NoLocals, HandlersOK, FrameAt, LocalState, Approval, ApprovalKinds, DataOK, Card
  <2>25. CASE ResumeCommits(h)
    BY <2>25 DEF ResumeCommits, RunThread, Card, Arrives, Enter, Goto, Frame, NoLocals, HandlersOK, FrameAt, LocalState, Approval, ApprovalKinds, DataOK, Card
  <2>26. CASE ResumeWithoutCommit(h)
    BY <2>26 DEF ResumeWithoutCommit, Here, Arrives, Enter, Goto, Frame, NoLocals, HandlersOK, FrameAt, LocalState, Approval, ApprovalKinds, DataOK, Card
  <2>27. CASE ToolCheckpoint(h)
    BY <2>27 DEF ToolCheckpoint, RunThread, Arrives, Enter, Goto, Frame, NoLocals, HandlersOK, FrameAt, LocalState, Approval, ApprovalKinds, DataOK, Card
  <2>28. CASE ResumeFindsNothing(h)
    BY <2>28 DEF ResumeFindsNothing, OnError, InCatch, RunThread, Here, Arrives, Enter, Goto, Frame, NoLocals, HandlersOK, FrameAt, LocalState, Approval, ApprovalKinds, DataOK, Card
  <2>29. CASE DeleteStore(h)
    BY <2>29 DEF DeleteStore, Here, Arrives, Enter, Goto, Frame, NoLocals, HandlersOK, FrameAt, LocalState, Approval, ApprovalKinds, DataOK, Card
  <2>30. CASE DeleteMemory(h)
    BY <2>30 DEF DeleteMemory, Here, Arrives, Enter, Goto, Frame, NoLocals, HandlersOK, FrameAt, LocalState, Approval, ApprovalKinds, DataOK, Card
  <2>31. CASE CheckInterrupt(h)
    BY <2>31 DEF CheckInterrupt, RunThread, Here, Arrives, Enter, Goto, Frame, NoLocals, HandlersOK, FrameAt, LocalState, Approval, ApprovalKinds, DataOK, Card
  <2>32. CASE ResaveCard(h)
    BY <2>32 DEF ResaveCard, Here, Arrives, Enter, Goto, Frame, NoLocals, HandlersOK, FrameAt, LocalState, Approval, ApprovalKinds, DataOK, Card
  <2>33. CASE ReleaseLock(h)
    BY <2>33 DEF ReleaseLock, Here, Arrives, Enter, Goto, Frame, NoLocals, HandlersOK, FrameAt, LocalState, Approval, ApprovalKinds, DataOK, Card
  <2>34. CASE FindStoredApproval(h)
    BY <2>34 DEF FindStoredApproval, Here, Arrives, Enter, Goto, Frame, NoLocals, HandlersOK, FrameAt, LocalState, Approval, ApprovalKinds, DataOK, Card
  <2>35. CASE RestorePendingApproval(h)
    BY <2>35 DEF RestorePendingApproval, Here, Arrives, Enter, Goto, Frame, NoLocals, HandlersOK, FrameAt, LocalState, Approval, ApprovalKinds, DataOK, Card
  <2>36. CASE DropStoredApproval(h)
    BY <2>36 DEF DropStoredApproval, Here, Arrives, Enter, Goto, Frame, NoLocals, HandlersOK, FrameAt, LocalState, Approval, ApprovalKinds, DataOK, Card
  <2> QED BY <1>2, <2>1, <2>2, <2>3, <2>4, <2>5, <2>6, <2>7, <2>8, <2>9, <2>10, <2>11, <2>12, <2>13, <2>14, <2>15, <2>16, <2>17, <2>18, <2>19, <2>20, <2>21, <2>22, <2>23, <2>24, <2>25, <2>26, <2>27, <2>28, <2>29, <2>30, <2>31, <2>32, <2>33, <2>34, <2>35, <2>36 DEF HandlerStep, HandlerProceeds
<1>3. ASSUME NEW i \in Instances, Crash(i) PROVE DataOK'
  BY <1>3 DEF Crash, NoLocals, DataOK
<1>4. CASE LockExpires
  BY <1>4 DEF LockExpires, DataOK
<1>5. CASE UNCHANGED vars
  BY <1>5 DEF vars, DataOK
<1> QED BY <1>1, <1>2, <1>3, <1>4, <1>5 DEF Next

LEMMA InitType == Init => TypeOK
BY GatewayAssumption DEF Init, TypeOK, HandlersOK, DataOK, FrameAt, LocalState, NoLocals, ApprovalKinds

(* Every reachable state has its type (run gateway_faults).                *)
THEOREM TypeCorrect == Spec => []TypeOK
<1>1. TypeOK /\ [Next]_vars => TypeOK'
  BY StepHandlers, StepData DEF TypeOK
<1> QED BY InitType, <1>1, PTL DEF Spec

(***************************************************************************)
(* The approval lock.  A handler that is answering an approval holds it:   *)
(* this is inductive, and two handlers cannot both hold it.                *)
(***************************************************************************)
LockHeld == \A h \in Requests : InApproval(h) => lock = h

LEMMA EnterKeepsLock ==
    ASSUME HandlersOK, LockHeld, NEW h \in Requests, NEW p \in Pcs, NEW f \in LocalState,
           Enter(h, p, f), lock' = lock,
           f.kind \in ApprovalKinds /\ p \notin {"idle", "done", "acquire"} => InApproval(h)
    PROVE  LockHeld'
<1> SUFFICES ASSUME NEW g \in Requests, InApproval(g)' PROVE lock' = g
  BY DEF LockHeld
<1>1. CASE g = h
  BY <1>1 DEF HandlersOK, LockHeld, Enter, InApproval, InRun, Approval, Active
<1>2. CASE g # h
  BY <1>2 DEF HandlersOK, LockHeld, Enter, InApproval, InRun, Approval, Active
<1> QED BY <1>1, <1>2

LEMMA GotoKeepsLock ==
    ASSUME HandlersOK, LockHeld, NEW h \in Requests, NEW p \in Pcs,
           Goto(h, p), lock' = lock, p = "done" \/ pc[h] # "acquire"
    PROVE  LockHeld'
<1>1. loc[h] \in LocalState /\ FrameAt(pc[h], loc[h]) /\ pc[h] \in Pcs
  BY FrameFields
<1>2. CASE p = "done"
  BY <1>2, NoLocalsType, EnterKeepsLock DEF Goto, NoLocals, ApprovalKinds
<1>3. CASE p # "done"
  <2>1. loc[h].kind \in ApprovalKinds => InApproval(h)
    BY <1>1, <1>3 DEF FrameAt, InApproval, InRun, Approval, Active, ApprovalKinds
  <2> QED BY <1>1, <1>3, <2>1, EnterKeepsLock DEF Goto
<1> QED BY <1>2, <1>3

LEMMA StepLock ==
    ASSUME ~SlowRuns, TypeOK, LockHeld, [Next]_vars
    PROVE  LockHeld'
<1> USE GatewayAssumption DEF TypeOK
<1>1. ASSUME NEW h \in Requests, ClientEvent(h) PROVE LockHeld'
  <2>0. PICK i \in Instances : \/ SendMessage(h, i) \/ RetryMessage(h, i)
                               \/ RespondAgentApproval(h, i)
                               \/ StopGeneration(h, i) \/ JoinRoom(h, i)
    BY <1>1 DEF ClientEvent
  <2>1. CASE SendMessage(h, i)
    BY <2>1, EnterKeepsLock, GotoKeepsLock, FrameType DEF SendMessage, DataOK, Frame, ApprovalKinds
  <2>2. CASE RetryMessage(h, i)
    BY <2>2, EnterKeepsLock, GotoKeepsLock, FrameType DEF RetryMessage, DataOK, Frame, ApprovalKinds
  <2>3. CASE RespondAgentApproval(h, i)
    BY <2>3, EnterKeepsLock, GotoKeepsLock, FrameType DEF RespondAgentApproval, DataOK, Frame, ApprovalKinds
  <2>4. CASE StopGeneration(h, i)
    <3>1. \A g \in Requests : loc'[g].kind = loc[g].kind
      BY <2>4 DEF StopGeneration, HandlersOK, LocalState
    <3> QED BY <2>4, <3>1 DEF StopGeneration, LockHeld, InApproval, InRun, Approval, Active, HandlersOK
  <2>5. CASE JoinRoom(h, i)
    BY <2>5, EnterKeepsLock, GotoKeepsLock, FrameType DEF JoinRoom, DataOK, Frame, ApprovalKinds
  <2> QED BY <2>0, <2>1, <2>2, <2>3, <2>4, <2>5
<1>2. ASSUME NEW h \in Requests, HandlerStep(h) PROVE LockHeld'
  <2>1. CASE RateLimitRejects(h)
    BY <2>1, GotoKeepsLock DEF RateLimitRejects
  <2>2. CASE RateLimitAllowsSend(h)
    BY <2>2, GotoKeepsLock DEF RateLimitAllowsSend
  <2>3. CASE RateLimitAllowsRetry(h)
    BY <2>3, GotoKeepsLock DEF RateLimitAllowsRetry
  <2>4. CASE SaveUserMessage(h)
    BY <2>4, GotoKeepsLock DEF SaveUserMessage
  <2>5. CASE PrepareContext(h)
    BY <2>5, GotoKeepsLock DEF PrepareContext
  <2>6. CASE DatabaseFails(h)
    BY <2>6, GotoKeepsLock, OnErrorType DEF DatabaseFails, Active
  <2>7. CASE GraphStarts(h)
    BY <2>7 DEF GraphStarts, LockHeld, InApproval, InRun, Approval, Active
  <2>8. CASE GraphInterrupts(h)
    BY <2>8, GotoKeepsLock DEF GraphInterrupts
  <2>9. CASE GraphCompletes(h)
    BY <2>9, GotoKeepsLock, OnErrorType DEF GraphCompletes, Active
  <2>10. CASE DeltaAfterStop(h)
    BY <2>10, GotoKeepsLock DEF DeltaAfterStop
  <2>11. CASE GraphFails(h)
    BY <2>11, GotoKeepsLock, OnErrorType DEF GraphFails, Active
  <2>12. CASE SaveCard(h)
    BY <2>12, GotoKeepsLock DEF SaveCard
  <2>13. CASE SaveCardMessage(h)
    BY <2>13, GotoKeepsLock DEF SaveCardMessage
  <2>14. CASE SaveAnswer(h)
    BY <2>14, GotoKeepsLock DEF SaveAnswer
  <2>15. CASE CancelGeneration(h)
    BY <2>15, GotoKeepsLock DEF CancelGeneration
  <2>16. CASE FailGeneration(h)
    BY <2>16, GotoKeepsLock DEF FailGeneration
  <2>17. CASE Finally(h)
    BY <2>17, GotoKeepsLock DEF Finally
  <2>18. CASE GetRetryableUserMessage(h)
    BY <2>18, GotoKeepsLock DEF GetRetryableUserMessage
  <2>19. CASE RetryReply(h)
    BY <2>19, GotoKeepsLock DEF RetryReply
  <2>20. CASE CompleteUserMessageIfFailed(h)
    BY <2>20, GotoKeepsLock DEF CompleteUserMessageIfFailed
  <2>21. CASE SaveRetriedAssistantMessage(h)
    BY <2>21, GotoKeepsLock DEF SaveRetriedAssistantMessage
  <2>22. CASE Acquire(h)
    <3>1. \A g \in Requests : ~InApproval(g)
      BY <2>22, GatewayAssumption DEF Acquire, LockHeld
    <3> QED BY <2>22, <3>1 DEF Acquire, LockHeld, Goto, Enter, InApproval, InRun, Approval,
                              Active, HandlersOK
  <2>23. CASE AcquireRefused(h)
    BY <2>23, GotoKeepsLock DEF AcquireRefused
  <2>24. CASE ResolveDecision(h)
    <3>0. InApproval(h)
      BY <2>24, FrameFields DEF ResolveDecision, FrameAt, InApproval, InRun, Approval, Active
    <3>1. ASSUME NEW d \in Decisions, Enter(h, "resume", [loc[h] EXCEPT !.decision = d])
          PROVE  LockHeld'
      BY <2>24, <3>0, <3>1, FrameFields, EnterKeepsLock DEF ResolveDecision
    <3>2. CASE Goto(h, "finally")
      BY <2>24, <3>2, GotoKeepsLock DEF ResolveDecision
    <3> QED BY <2>24, <3>1, <3>2 DEF ResolveDecision
  <2>25. CASE ResumeCommits(h)
    BY <2>25, GotoKeepsLock DEF ResumeCommits
  <2>26. CASE ResumeWithoutCommit(h)
    BY <2>26, GotoKeepsLock DEF ResumeWithoutCommit
  <2>27. CASE ToolCheckpoint(h)
    BY <2>27, GotoKeepsLock DEF ToolCheckpoint
  <2>28. CASE ResumeFindsNothing(h)
    BY <2>28, GotoKeepsLock, OnErrorType DEF ResumeFindsNothing, Active
  <2>29. CASE DeleteStore(h)
    BY <2>29, GotoKeepsLock DEF DeleteStore
  <2>30. CASE DeleteMemory(h)
    BY <2>30, GotoKeepsLock DEF DeleteMemory
  <2>31. CASE CheckInterrupt(h)
    BY <2>31, GotoKeepsLock DEF CheckInterrupt
  <2>32. CASE ResaveCard(h)
    BY <2>32, GotoKeepsLock DEF ResaveCard
  <2>33. CASE ReleaseLock(h)
    <3>1. pc[h] = "release" /\ loc[h].kind \in ApprovalKinds
      BY <2>33, FrameFields DEF ReleaseLock, FrameAt
    <3>2. lock = h
      BY <3>1 DEF LockHeld, InApproval, Approval
    <3>3. \A g \in Requests : InApproval(g) => g = h
      BY <3>2 DEF LockHeld
    <3>4. \A g \in Requests : ~InApproval(g)'
      BY <2>33, <3>3 DEF ReleaseLock, Goto, Enter, InApproval, InRun, Approval, Active, HandlersOK
    <3> QED BY <3>4 DEF LockHeld
  <2>34. CASE FindStoredApproval(h)
    <3>1. CASE store # None /\ Enter(h, "joinCheck", [loc[h] EXCEPT !.card = store])
      <4>1. store \in Card
        BY <3>1 DEF DataOK
      <4>2. loc[h].kind = "join"
        BY <2>34, FrameFields DEF FindStoredApproval, FrameAt
      <4>3. [loc[h] EXCEPT !.card = store].kind \notin ApprovalKinds
        BY <4>2, FrameFields DEF LocalState, ApprovalKinds
      <4> QED BY <2>34, <3>1, <4>1, <4>3, FrameFields, EnterKeepsLock DEF FindStoredApproval
    <3>2. CASE Goto(h, "done")
      BY <2>34, <3>2, GotoKeepsLock DEF FindStoredApproval
    <3> QED BY <2>34, <3>1, <3>2 DEF FindStoredApproval
  <2>35. CASE RestorePendingApproval(h)
    BY <2>35, GotoKeepsLock DEF RestorePendingApproval
  <2>36. CASE DropStoredApproval(h)
    BY <2>36, GotoKeepsLock DEF DropStoredApproval
  <2> QED BY <1>2, <2>1, <2>2, <2>3, <2>4, <2>5, <2>6, <2>7, <2>8, <2>9, <2>10, <2>11, <2>12, <2>13, <2>14, <2>15, <2>16, <2>17, <2>18, <2>19, <2>20, <2>21, <2>22, <2>23, <2>24, <2>25, <2>26, <2>27, <2>28, <2>29, <2>30, <2>31, <2>32, <2>33, <2>34, <2>35, <2>36 DEF HandlerStep, HandlerProceeds
<1>3. ASSUME NEW i \in Instances, Crash(i) PROVE LockHeld'
  BY <1>3 DEF Crash, NoLocals, LockHeld, InApproval, InRun, Approval, Active, HandlersOK, ApprovalKinds
<1>4. CASE LockExpires
  BY <1>4 DEF LockExpires, LockHeld, InApproval, InRun, Approval, Active, HandlersOK, ApprovalKinds
<1>5. CASE UNCHANGED vars
  BY <1>5 DEF vars, LockHeld, InApproval, InRun, Approval, Active, HandlersOK, ApprovalKinds
<1> QED BY <1>1, <1>2, <1>3, <1>4, <1>5 DEF Next

(* At most one handler answers an approval at a time, over all instances,  *)
(* if no run outlives its lock (run gateway_faults).                       *)
THEOREM ResumeMutexHolds == ASSUME ~SlowRuns PROVE Spec => []ResumeMutex
<1>1. Init => LockHeld
  BY DEF Init, LockHeld, InApproval, InRun, Active, Approval, NoLocals, ApprovalKinds
<1>2. TypeOK /\ LockHeld /\ [Next]_vars => LockHeld'
  BY StepLock
<1>3. LockHeld => ResumeMutex
  BY DEF LockHeld, ResumeMutex
<1> QED BY <1>1, <1>2, <1>3, TypeCorrect, PTL DEF Spec

(***************************************************************************)
(* The flags of a room.  A handler leaves its run through Finally, which   *)
(* clears them, or dies with its instance.                                 *)
(***************************************************************************)
RunPc(p) == p \notin {"idle", "done", "rateLimit", "acquire", "release"} \cup JoinPcs

LEMMA EnterKeepsFlags ==
    ASSUME HandlersOK, FlagsOwned, NEW h \in Requests, NEW p \in Pcs, NEW f \in LocalState,
           Enter(h, p, f), InRun(h) => RunPc(p) /\ f.at = Here(h),
           UNCHANGED <<processing, cancelled>>
    PROVE  FlagsOwned'
<1> SUFFICES ASSUME NEW i \in Instances
             PROVE  /\ cancelled'[i] => processing'[i]
                    /\ processing'[i] => \E g \in Requests : InRun(g)' /\ Here(g)' = i
  BY DEF FlagsOwned
<1>1. CASE ~processing[i]
  BY <1>1 DEF FlagsOwned
<1>2. ASSUME NEW g \in Requests, InRun(g), Here(g) = i PROVE InRun(g)' /\ Here(g)' = i
  <2>1. CASE g = h
    BY <1>2, <2>1 DEF HandlersOK, Enter, InRun, Active, Here, RunPc
  <2>2. CASE g # h
    BY <1>2, <2>2 DEF HandlersOK, Enter, InRun, Active, Here
  <2> QED BY <2>1, <2>2
<1> QED BY <1>1, <1>2 DEF FlagsOwned

LEMMA GotoKeepsFlags ==
    ASSUME HandlersOK, FlagsOwned, NEW h \in Requests, NEW p \in Pcs,
           Goto(h, p), InRun(h) => RunPc(p), UNCHANGED <<processing, cancelled>>
    PROVE  FlagsOwned'
<1>1. CASE p = "done"
  BY <1>1, NoLocalsType, EnterKeepsFlags DEF Goto, RunPc
<1>2. CASE p # "done"
  BY <1>2, FrameFields, EnterKeepsFlags DEF Goto, Here
<1> QED BY <1>1, <1>2

(* The step with which a handler marks the room and enters its run.        *)
LEMMA MarkKeepsFlags ==
    ASSUME HandlersOK, FlagsOwned, NEW h \in Requests, NEW p \in Pcs, RunPc(p),
           Goto(h, p), Here(h) \in Instances, processing \in [Instances -> BOOLEAN],
           processing' = [processing EXCEPT ![Here(h)] = TRUE], cancelled' = cancelled
    PROVE  FlagsOwned'
<1> SUFFICES ASSUME NEW i \in Instances
             PROVE  /\ cancelled'[i] => processing'[i]
                    /\ processing'[i] => \E g \in Requests : InRun(g)' /\ Here(g)' = i
  BY DEF FlagsOwned
<1>1. InRun(h)' /\ Here(h)' = Here(h)
  BY DEF HandlersOK, Goto, Enter, InRun, Active, Here, RunPc
<1>2. CASE i = Here(h)
  BY <1>1, <1>2
<1>3. CASE i # Here(h)
  <2>1. processing'[i] = processing[i]
    BY <1>3
  <2>2. ASSUME NEW g \in Requests, InRun(g), g # h PROVE InRun(g)' /\ Here(g)' = Here(g)
    BY <2>2 DEF HandlersOK, Goto, Enter, InRun, Active, Here
  <2> QED BY <1>1, <1>3, <2>1, <2>2 DEF FlagsOwned
<1> QED BY <1>2, <1>3

LEMMA StepFlags ==
    ASSUME TypeOK, FlagsOwned, [Next]_vars
    PROVE  FlagsOwned'
<1> USE GatewayAssumption DEF TypeOK
<1>1. ASSUME NEW h \in Requests, ClientEvent(h) PROVE FlagsOwned'
  <2>0. PICK i \in Instances : \/ SendMessage(h, i) \/ RetryMessage(h, i)
                               \/ RespondAgentApproval(h, i)
                               \/ StopGeneration(h, i) \/ JoinRoom(h, i)
    BY <1>1 DEF ClientEvent
  <2>1. CASE SendMessage(h, i)
    BY <2>1, EnterKeepsFlags, GotoKeepsFlags, FrameType DEF SendMessage, Arrives, DataOK, InRun, Active
  <2>2. CASE RetryMessage(h, i)
    BY <2>2, EnterKeepsFlags, GotoKeepsFlags, FrameType DEF RetryMessage, Arrives, DataOK, InRun, Active
  <2>3. CASE RespondAgentApproval(h, i)
    BY <2>3, EnterKeepsFlags, GotoKeepsFlags, FrameType DEF RespondAgentApproval, Arrives, DataOK, InRun, Active
  <2>4. CASE StopGeneration(h, i)
    <3>1. \A g \in Requests : loc'[g].at = loc[g].at
      BY <2>4 DEF StopGeneration, HandlersOK, LocalState
    <3>2. \A g \in Requests : InRun(g) => InRun(g)' /\ Here(g)' = Here(g)
      BY <2>4, <3>1 DEF StopGeneration, Arrives, InRun, Active, Here, HandlersOK
    <3>3. \A j \in Instances : cancelled'[j] => cancelled[j] \/ processing[j]
      BY <2>4 DEF StopGeneration, DataOK
    <3> QED BY <2>4, <3>2, <3>3 DEF StopGeneration, FlagsOwned
  <2>5. CASE JoinRoom(h, i)
    BY <2>5, EnterKeepsFlags, GotoKeepsFlags, FrameType DEF JoinRoom, Arrives, DataOK, InRun, Active
  <2> QED BY <2>0, <2>1, <2>2, <2>3, <2>4, <2>5
<1>2. ASSUME NEW h \in Requests, HandlerStep(h) PROVE FlagsOwned'
  <2>1. CASE RateLimitRejects(h)
    BY <2>1, GotoKeepsFlags DEF RateLimitRejects, RunPc, InRun
  <2>2. CASE RateLimitAllowsSend(h)
    <3>1. Here(h) \in Instances
      BY <2>2, FrameFields DEF RateLimitAllowsSend, FrameAt, Here
    <3> QED BY <2>2, <3>1, GotoKeepsFlags, MarkKeepsFlags DEF RateLimitAllowsSend, RunPc, InRun, DataOK
  <2>3. CASE RateLimitAllowsRetry(h)
    <3>1. Here(h) \in Instances
      BY <2>3, FrameFields DEF RateLimitAllowsRetry, FrameAt, Here
    <3> QED BY <2>3, <3>1, MarkKeepsFlags DEF RateLimitAllowsRetry, RunPc, DataOK
  <2>4. CASE SaveUserMessage(h)
    BY <2>4, GotoKeepsFlags DEF SaveUserMessage, RunPc
  <2>5. CASE PrepareContext(h)
    BY <2>5, GotoKeepsFlags DEF PrepareContext, RunPc
  <2>6. CASE DatabaseFails(h)
    <3>1. InRun(h) => RunPc(OnError(h, FALSE)) /\ RunPc(OnError(h, loc[h].aborted))
      BY FrameFields DEF FrameAt, OnError, RunPc, InRun, Active
    <3> QED BY <2>6, <3>1, GotoKeepsFlags, OnErrorType DEF DatabaseFails, Active, RunPc
  <2>7. CASE GraphStarts(h)
    BY <2>7 DEF GraphStarts, FlagsOwned, InRun, Active, Here
  <2>8. CASE GraphInterrupts(h)
    BY <2>8, GotoKeepsFlags DEF GraphInterrupts, RunPc
  <2>9. CASE GraphCompletes(h)
    <3>1. InRun(h) => RunPc(OnError(h, FALSE)) /\ RunPc(OnError(h, loc[h].aborted))
      BY FrameFields DEF FrameAt, OnError, RunPc, InRun, Active
    <3> QED BY <2>9, <3>1, GotoKeepsFlags, OnErrorType DEF GraphCompletes, Active, RunPc
  <2>10. CASE DeltaAfterStop(h)
    BY <2>10, GotoKeepsFlags DEF DeltaAfterStop, RunPc
  <2>11. CASE GraphFails(h)
    <3>1. InRun(h) => RunPc(OnError(h, FALSE)) /\ RunPc(OnError(h, loc[h].aborted))
      BY FrameFields DEF FrameAt, OnError, RunPc, InRun, Active
    <3> QED BY <2>11, <3>1, GotoKeepsFlags, OnErrorType DEF GraphFails, Active, RunPc
  <2>12. CASE SaveCard(h)
    BY <2>12, GotoKeepsFlags DEF SaveCard, RunPc
  <2>13. CASE SaveCardMessage(h)
    BY <2>13, GotoKeepsFlags DEF SaveCardMessage, RunPc
  <2>14. CASE SaveAnswer(h)
    BY <2>14, GotoKeepsFlags DEF SaveAnswer, RunPc
  <2>15. CASE CancelGeneration(h)
    BY <2>15, GotoKeepsFlags DEF CancelGeneration, RunPc
  <2>16. CASE FailGeneration(h)
    BY <2>16, GotoKeepsFlags DEF FailGeneration, RunPc
  <2>17. CASE Finally(h)
    <3> SUFFICES ASSUME NEW i \in Instances
                 PROVE  /\ cancelled'[i] => processing'[i]
                        /\ processing'[i] => \E g \in Requests : InRun(g)' /\ Here(g)' = i
      BY DEF FlagsOwned
    <3>1. Here(h) \in Instances
      BY <2>17, FrameFields DEF Finally, FrameAt, Here
    <3>2. CASE i = Here(h)
      BY <2>17, <3>1, <3>2 DEF Finally, DataOK
    <3>3. CASE i # Here(h)
      <4>1. processing'[i] = processing[i] /\ cancelled'[i] = cancelled[i]
        BY <2>17, <3>3 DEF Finally, DataOK
      <4>2. ASSUME NEW g \in Requests, InRun(g), Here(g) = i PROVE InRun(g)' /\ Here(g)' = i
        BY <2>17, <3>3, <4>2 DEF Finally, HandlersOK, Goto, Enter, InRun, Active, Here
      <4> QED BY <4>1, <4>2 DEF FlagsOwned
    <3> QED BY <3>2, <3>3
  <2>18. CASE GetRetryableUserMessage(h)
    BY <2>18, GotoKeepsFlags DEF GetRetryableUserMessage, RunPc
  <2>19. CASE RetryReply(h)
    BY <2>19, GotoKeepsFlags DEF RetryReply, RunPc
  <2>20. CASE CompleteUserMessageIfFailed(h)
    BY <2>20, GotoKeepsFlags DEF CompleteUserMessageIfFailed, RunPc
  <2>21. CASE SaveRetriedAssistantMessage(h)
    BY <2>21, GotoKeepsFlags DEF SaveRetriedAssistantMessage, RunPc
  <2>22. CASE Acquire(h)
    <3>1. Here(h) \in Instances
      BY <2>22, FrameFields DEF Acquire, FrameAt, Here
    <3> QED BY <2>22, <3>1, MarkKeepsFlags DEF Acquire, RunPc, DataOK
  <2>23. CASE AcquireRefused(h)
    BY <2>23, GotoKeepsFlags DEF AcquireRefused, RunPc, InRun
  <2>24. CASE ResolveDecision(h)
    <3>1. ASSUME NEW d \in Decisions, Enter(h, "resume", [loc[h] EXCEPT !.decision = d])
          PROVE  FlagsOwned'
      <4>1. [loc[h] EXCEPT !.decision = d].at = Here(h)
        BY FrameFields DEF LocalState, Here
      <4> QED BY <2>24, <3>1, <4>1, FrameFields, EnterKeepsFlags DEF ResolveDecision, RunPc
    <3>2. CASE Goto(h, "finally")
      BY <2>24, <3>2, GotoKeepsFlags DEF ResolveDecision, RunPc
    <3> QED BY <2>24, <3>1, <3>2 DEF ResolveDecision
  <2>25. CASE ResumeCommits(h)
    BY <2>25, GotoKeepsFlags DEF ResumeCommits, RunPc
  <2>26. CASE ResumeWithoutCommit(h)
    BY <2>26, GotoKeepsFlags DEF ResumeWithoutCommit, RunPc
  <2>27. CASE ToolCheckpoint(h)
    BY <2>27, GotoKeepsFlags DEF ToolCheckpoint, RunPc
  <2>28. CASE ResumeFindsNothing(h)
    <3>1. InRun(h) => RunPc(OnError(h, FALSE)) /\ RunPc(OnError(h, loc[h].aborted))
      BY FrameFields DEF FrameAt, OnError, RunPc, InRun, Active
    <3> QED BY <2>28, <3>1, GotoKeepsFlags, OnErrorType DEF ResumeFindsNothing, Active, RunPc
  <2>29. CASE DeleteStore(h)
    BY <2>29, GotoKeepsFlags DEF DeleteStore, RunPc
  <2>30. CASE DeleteMemory(h)
    BY <2>30, GotoKeepsFlags DEF DeleteMemory, RunPc
  <2>31. CASE CheckInterrupt(h)
    BY <2>31, GotoKeepsFlags DEF CheckInterrupt, RunPc
  <2>32. CASE ResaveCard(h)
    BY <2>32, GotoKeepsFlags DEF ResaveCard, RunPc
  <2>33. CASE ReleaseLock(h)
    BY <2>33, GotoKeepsFlags DEF ReleaseLock, RunPc, InRun
  <2>34. CASE FindStoredApproval(h)
    <3>0. ~InRun(h)
      BY <2>34 DEF FindStoredApproval, InRun
    <3>1. CASE store # None /\ Enter(h, "joinCheck", [loc[h] EXCEPT !.card = store])
      <4>1. store \in Card
        BY <3>1 DEF DataOK
      <4> QED BY <2>34, <3>0, <3>1, <4>1, FrameFields, EnterKeepsFlags DEF FindStoredApproval
    <3>2. CASE Goto(h, "done")
      BY <2>34, <3>0, <3>2, GotoKeepsFlags DEF FindStoredApproval
    <3> QED BY <2>34, <3>1, <3>2 DEF FindStoredApproval
  <2>35. CASE RestorePendingApproval(h)
    BY <2>35, GotoKeepsFlags DEF RestorePendingApproval, RunPc, InRun
  <2>36. CASE DropStoredApproval(h)
    BY <2>36, GotoKeepsFlags DEF DropStoredApproval, RunPc, InRun
  <2> QED BY <1>2, <2>1, <2>2, <2>3, <2>4, <2>5, <2>6, <2>7, <2>8, <2>9, <2>10, <2>11, <2>12, <2>13, <2>14, <2>15, <2>16, <2>17, <2>18, <2>19, <2>20, <2>21, <2>22, <2>23, <2>24, <2>25, <2>26, <2>27, <2>28, <2>29, <2>30, <2>31, <2>32, <2>33, <2>34, <2>35, <2>36 DEF HandlerStep, HandlerProceeds
<1>3. ASSUME NEW i \in Instances, Crash(i) PROVE FlagsOwned'
  <2>1. \A j \in Instances \ {i} : processing'[j] = processing[j] /\ cancelled'[j] = cancelled[j]
    BY <1>3 DEF Crash, DataOK
  <2>2. processing'[i] = FALSE /\ cancelled'[i] = FALSE
    BY <1>3 DEF Crash, DataOK
  <2>3. \A g \in Requests : InRun(g) /\ Here(g) # i => InRun(g)' /\ Here(g)' = Here(g)
    BY <1>3 DEF Crash, InRun, Active, Here
  <2>4. ASSUME NEW j \in Instances, processing'[j]
        PROVE  \E g \in Requests : InRun(g)' /\ Here(g)' = j
    BY <2>1, <2>2, <2>3, <2>4 DEF FlagsOwned
  <2> QED BY <2>1, <2>2, <2>4 DEF FlagsOwned
<1>4. CASE LockExpires
  BY <1>4 DEF LockExpires, FlagsOwned, InRun, Active, Here, HandlersOK
<1>5. CASE UNCHANGED vars
  BY <1>5 DEF vars, FlagsOwned, InRun, Active, Here, HandlersOK
<1> QED BY <1>1, <1>2, <1>3, <1>4, <1>5 DEF Next

(* A room stays marked as processing or stopped only while a handler runs  *)
(* in it, whatever fails and crashes (run gateway_faults).                 *)
THEOREM FlagsOwnedHolds == Spec => []FlagsOwned
<1>1. Init => FlagsOwned
  BY DEF Init, FlagsOwned
<1>2. TypeOK /\ FlagsOwned /\ [Next]_vars => FlagsOwned'
  BY StepFlags
<1> QED BY <1>1, <1>2, TypeCorrect, PTL DEF Spec

(***************************************************************************)
(* The answers of a message.  Until the handler that received a message    *)
(* ends its run, the message is not FAILED and no retry answers it; after  *)
(* that a retry answers it in the transaction that ends its being FAILED.  *)
(***************************************************************************)
Answering(m) == pc[m] = "idle" \/ (loc[m].kind = "send" /\ pc[m] # "finally")

(* The answers that the message's own run and its retries saved.           *)
RunAnswers(m) == {a \in answers : a.to = m /\ a.via \in {"send", "retry"}}

AnswerInv ==
    \A m \in Requests :
        /\ \A a, b \in RunAnswers(m) : a = b
        /\ msg[m] = "FAILED" => RunAnswers(m) = {}
        /\ Answering(m) => RunAnswers(m) = {} /\ msg[m] # "FAILED"
        /\ pc[m] = "failGen" => loc[m].kind = "send"

LEMMA SameRunAnswers ==
    ASSUME UNCHANGED answers
    PROVE  \A m : RunAnswers(m)' = RunAnswers(m)
BY DEF RunAnswers

(* One more answer changes what its own message has.                       *)
LEMMA OneMoreAnswer ==
    ASSUME NEW a, answers' = answers \cup {a}
    PROVE  /\ \A m : a.to # m \/ a.via \notin {"send", "retry"} => RunAnswers(m)' = RunAnswers(m)
           /\ \A m : RunAnswers(m) = {} => \A b, c \in RunAnswers(m)' : b = c
BY DEF RunAnswers

(* A handler goes on: a message answered before is not waiting now, and no *)
(* message becomes FAILED, none but an answered one gets an answer.        *)
LEMMA EnterKeepsAnswers ==
    ASSUME HandlersOK, AnswerInv, NEW h \in Requests, NEW p \in Pcs \ {"idle"}, NEW f,
           Enter(h, p, f), \A m \in Requests : RunAnswers(m)' = RunAnswers(m),
           \A m \in Requests : msg'[m] = msg[m] \/ msg'[m] # "FAILED",
           f.kind = "send" /\ p # "finally" => Answering(h),
           p = "failGen" => f.kind = "send"
    PROVE  AnswerInv'
<1>1. pc'[h] = p /\ loc'[h] = f
      /\ \A g \in Requests : g # h => pc'[g] = pc[g] /\ loc'[g] = loc[g]
  BY DEF HandlersOK, Enter
<1>2. \A m \in Requests : Answering(m)' => Answering(m)
  BY <1>1 DEF Answering
<1> QED BY <1>1, <1>2 DEF AnswerInv

LEMMA GotoKeepsAnswers ==
    ASSUME HandlersOK, AnswerInv, NEW h \in Requests, NEW p \in Pcs \ {"idle"},
           Goto(h, p), \A m \in Requests : RunAnswers(m)' = RunAnswers(m),
           \A m \in Requests : msg'[m] = msg[m] \/ msg'[m] # "FAILED",
           pc[h] # "finally", p = "failGen" => loc[h].kind = "send"
    PROVE  AnswerInv'
<1>1. CASE p = "done"
  BY <1>1, NoLocalsType, EnterKeepsAnswers DEF Goto, NoLocals
<1>2. CASE p # "done"
  BY <1>2, EnterKeepsAnswers DEF Goto, Answering
<1> QED BY <1>1, <1>2

(* The handler of a message ends its run, and the message is FAILED.       *)
LEMMA FailKeepsAnswers ==
    ASSUME TypeOK, AnswerInv, NEW h \in Requests, pc[h] = "failGen", Goto(h, "finally"),
           StatusIs(h, "FAILED")
    PROVE  AnswerInv'
<1>1. /\ pc'[h] = "finally" /\ msg'[h] = "FAILED" /\ RunAnswers(h) = {}
      /\ \A g \in Requests : g # h =>
            pc'[g] = pc[g] /\ loc'[g] = loc[g] /\ msg'[g] = msg[g]
  BY DEF TypeOK, Goto, Enter, HandlersOK, DataOK, AnswerInv, Answering
<1>2. \A m \in Requests : RunAnswers(m)' = RunAnswers(m)
  BY SameRunAnswers
<1> QED BY <1>1, <1>2 DEF AnswerInv, Answering

(* A retry settles its message.                                            *)
LEMMA RetryKeepsAnswers ==
    ASSUME TypeOK, AnswerInv, NEW h \in Requests, pc[h] = "saveRetried", Goto(h, "finally"),
           SettleRetry(h)
    PROVE  AnswerInv'
<1> USE DEF TypeOK
<1> DEFINE m == loc[h].target
           a == Answer(h, "retry")
<1>1. loc[h].kind = "retry" /\ m \in Requests
  BY FrameFields DEF FrameAt
<1>2. a.to = m
  BY <1>1 DEF Answer, RunThread
<1>3. /\ msg[m] = "FAILED" /\ msg'[m] = "COMPLETED" /\ answers' = answers \cup {a}
      /\ \A g \in Requests : g # m => msg'[g] = msg[g]
  BY <1>1 DEF SettleRetry, DataOK
<1>4. /\ pc'[h] = "finally" /\ loc'[h] = loc[h]
      /\ \A g \in Requests : g # h => pc'[g] = pc[g] /\ loc'[g] = loc[g]
  BY DEF Goto, Enter, HandlersOK
<1> HIDE DEF a, m
<1>5. RunAnswers(m) = {} /\ ~Answering(m)
  BY <1>1, <1>3 DEF AnswerInv
<1>6. /\ \A g \in Requests : g # m => RunAnswers(g)' = RunAnswers(g)
      /\ \A b, c \in {d \in answers' : d.to = m /\ d.via \in {"send", "retry"}} : b = c
  BY <1>2, <1>3, <1>5 DEF RunAnswers
<1>7. \A g \in Requests : Answering(g)' => Answering(g) /\ g # m
  BY <1>4, <1>5 DEF Answering
<1>8. ASSUME NEW g \in Requests
      PROVE  /\ \A b, c \in RunAnswers(g)' : b = c
             /\ msg'[g] = "FAILED" => RunAnswers(g)' = {}
             /\ Answering(g)' => RunAnswers(g)' = {} /\ msg'[g] # "FAILED"
  <2>1. CASE g = m
    BY <1>3, <1>6, <1>7, <2>1 DEF RunAnswers
  <2>2. CASE g # m
    BY <1>3, <1>6, <1>7, <2>2 DEF AnswerInv
  <2> QED BY <2>1, <2>2
<1>9. \A g \in Requests : pc'[g] = "failGen" => loc'[g].kind = "send"
  BY <1>4 DEF AnswerInv
<1> QED BY <1>8, <1>9 DEF AnswerInv

LEMMA ErrorPcs ==
    ASSUME HandlersOK, NEW h \in Requests, NEW b, Active(h)
    PROVE  /\ OnError(h, b) \in Pcs \ {"idle"}
           /\ OnError(h, b) = "failGen" => loc[h].kind = "send"
BY DEF OnError

LEMMA EventAnswers ==
    ASSUME TypeOK, AnswerInv, NEW h \in Requests, ClientEvent(h)
    PROVE  AnswerInv'
<1> USE GatewayAssumption, SameRunAnswers DEF TypeOK
<1>1. PICK i \in Instances : \/ SendMessage(h, i) \/ RetryMessage(h, i)
                             \/ RespondAgentApproval(h, i)
                             \/ StopGeneration(h, i) \/ JoinRoom(h, i)
  BY DEF ClientEvent
<1>2. CASE StopGeneration(h, i)
  <2>1. /\ pc'[h] = "done" /\ UNCHANGED <<msg, answers>>
        /\ \A g \in Requests : g # h => pc'[g] = pc[g]
        /\ \A g \in Requests : loc'[g].kind = loc[g].kind
    BY <1>2 DEF StopGeneration, HandlersOK, LocalState
  <2>2. loc[h].kind = "none"
    BY <1>2, FrameFields DEF StopGeneration, Arrives, FrameAt
  <2>3. \A m \in Requests : Answering(m)' => Answering(m)
    BY <2>1, <2>2 DEF Answering
  <2> QED BY <2>1, <2>3 DEF AnswerInv
<1>3. CASE ~StopGeneration(h, i)
  <2>1. pc[h] = "idle" /\ UNCHANGED <<msg, answers>>
    BY <1>1, <1>3 DEF SendMessage, RetryMessage, RespondAgentApproval, JoinRoom, Arrives
  <2>2. Answering(h)
    BY <2>1 DEF Answering
  <2>3. ASSUME NEW p \in {"rateLimit", "acquire", "joinFind", "joinCheck"}, NEW f, Enter(h, p, f)
        PROVE  AnswerInv'
    BY <2>1, <2>2, <2>3, EnterKeepsAnswers
  <2>4. CASE Goto(h, "done")
    BY <2>1, <2>4, GotoKeepsAnswers
  <2>5. CASE JoinRoom(h, i)
    BY <2>3, <2>5 DEF JoinRoom
  <2> QED BY <1>1, <1>3, <2>3, <2>4, <2>5 DEF SendMessage, RetryMessage, RespondAgentApproval
<1> QED BY <1>2, <1>3

(* The steps that leave messages and answers alone.                        *)
LEMMA QuietAnswers ==
    ASSUME TypeOK, AnswerInv, NEW h \in Requests, UNCHANGED <<msg, answers>>,
           HandlerStep(h)
    PROVE  AnswerInv'
<1> USE SameRunAnswers DEF TypeOK
<1>1. CASE Finally(h)
  <2>1. Approval(h) => loc[h].kind # "send"
    BY DEF Approval, ApprovalKinds
  <2>2. PICK p \in {"release", "done"} : Goto(h, p) /\ (p = "release" => loc[h].kind # "send")
    BY <1>1, <2>1 DEF Finally
  <2>3. CASE p = "done"
    BY <2>2, <2>3, EnterKeepsAnswers DEF Goto, NoLocals
  <2>4. CASE p = "release"
    BY <2>2, <2>4, EnterKeepsAnswers DEF Goto
  <2> QED BY <2>2, <2>3, <2>4
<1>2. CASE GraphStarts(h)
  BY <1>2 DEF GraphStarts, AnswerInv, Answering
<1>3. CASE ResolveDecision(h)
  <2>1. ASSUME NEW d \in Decisions, Enter(h, "resume", [loc[h] EXCEPT !.decision = d])
        PROVE  AnswerInv'
    <3>1. loc[h] \in LocalState /\ FrameAt("resolve", loc[h])
      BY <1>3 DEF ResolveDecision, HandlersOK
    <3>2. loc[h].kind # "send"
      BY <3>1 DEF FrameAt, ApprovalKinds, ApprovalPcs
    <3>3. [loc[h] EXCEPT !.decision = d].kind # "send"
      BY <3>1, <3>2 DEF LocalState
    <3> QED BY <2>1, <3>3, EnterKeepsAnswers
  <2>2. CASE Goto(h, "finally")
    BY <1>3, <2>2, GotoKeepsAnswers DEF ResolveDecision
  <2> QED BY <1>3, <2>1, <2>2 DEF ResolveDecision
<1>4. CASE FindStoredApproval(h)
  <2>1. CASE Goto(h, "done")
    BY <1>4, <2>1, GotoKeepsAnswers DEF FindStoredApproval
  <2>2. CASE Enter(h, "joinCheck", [loc[h] EXCEPT !.card = store])
    <3>1. loc[h] \in LocalState /\ FrameAt("joinFind", loc[h])
      BY <1>4 DEF FindStoredApproval, HandlersOK
    <3>2. loc[h].kind = "join"
      BY <3>1 DEF FrameAt, JoinPcs
    <3>3. [loc[h] EXCEPT !.card = store].kind # "send"
      BY <3>1, <3>2 DEF LocalState
    <3> QED BY <2>2, <3>3, EnterKeepsAnswers
  <2> QED BY <1>4, <2>1, <2>2 DEF FindStoredApproval
<1>5. CASE DatabaseFails(h) \/ GraphFails(h) \/ GraphCompletes(h) \/ ResumeFindsNothing(h)
  <2>1. Active(h) /\ pc[h] # "finally"
    BY <1>5 DEF DatabaseFails, GraphFails, GraphCompletes, ResumeFindsNothing, Active
  <2>2. ASSUME NEW e, Goto(h, OnError(h, e)) PROVE AnswerInv'
    <3>1. /\ OnError(h, e) \in Pcs \ {"idle"}
          /\ OnError(h, e) = "failGen" => loc[h].kind = "send"
      BY <2>1, ErrorPcs
    <3> QED BY <2>1, <2>2, <3>1, GotoKeepsAnswers
  <2>3. ASSUME NEW p \in {"cancelTry", "saveRetried", "saveAnswer", "stream"}, Goto(h, p)
        PROVE  AnswerInv'
    BY <2>1, <2>3, GotoKeepsAnswers
  <2>4. CASE DatabaseFails(h)
    BY <2>2, <2>4 DEF DatabaseFails
  <2>5. CASE GraphFails(h)
    BY <2>2, <2>5 DEF GraphFails
  <2>6. CASE GraphCompletes(h)
    BY <2>2, <2>3, <2>6 DEF GraphCompletes
  <2>7. CASE ResumeFindsNothing(h)
    BY <2>2, <2>3, <2>7 DEF ResumeFindsNothing
  <2> QED BY <1>5, <2>4, <2>5, <2>6, <2>7
<1>6. ASSUME NEW p \in Pcs \ {"idle", "failGen"}, Goto(h, p), pc[h] # "finally"
      PROVE  AnswerInv'
  BY <1>6, GotoKeepsAnswers
<1>7. CASE \/ RateLimitRejects(h) \/ RateLimitAllowsSend(h) \/ RateLimitAllowsRetry(h)
           \/ SaveUserMessage(h) \/ PrepareContext(h)
  BY <1>6, <1>7 DEF RateLimitRejects, RateLimitAllowsSend, RateLimitAllowsRetry,
     SaveUserMessage, PrepareContext
<1>8. CASE \/ GraphInterrupts(h) \/ DeltaAfterStop(h) \/ SaveCard(h) \/ SaveCardMessage(h)
           \/ SaveAnswer(h) \/ CancelGeneration(h)
  BY <1>6, <1>8 DEF GraphInterrupts, DeltaAfterStop, SaveCard, SaveCardMessage, SaveAnswer,
     CancelGeneration
<1>9. CASE \/ FailGeneration(h) \/ GetRetryableUserMessage(h) \/ RetryReply(h)
           \/ CompleteUserMessageIfFailed(h) \/ SaveRetriedAssistantMessage(h)
  BY <1>6, <1>9 DEF FailGeneration, GetRetryableUserMessage, RetryReply,
     CompleteUserMessageIfFailed, SaveRetriedAssistantMessage
<1>10. CASE \/ Acquire(h) \/ AcquireRefused(h) \/ ResumeCommits(h) \/ ResumeWithoutCommit(h)
            \/ ToolCheckpoint(h)
  BY <1>6, <1>10 DEF Acquire, AcquireRefused, ResumeCommits, ResumeWithoutCommit, ToolCheckpoint
<1>11. CASE \/ DeleteStore(h) \/ DeleteMemory(h) \/ CheckInterrupt(h) \/ ResaveCard(h)
  BY <1>6, <1>11 DEF DeleteStore, DeleteMemory, CheckInterrupt, ResaveCard
<1>12. CASE ReleaseLock(h) \/ RestorePendingApproval(h) \/ DropStoredApproval(h)
  BY <1>6, <1>12 DEF ReleaseLock, RestorePendingApproval, DropStoredApproval
<1> QED BY <1>1, <1>2, <1>3, <1>4, <1>5, <1>7, <1>8, <1>9, <1>10, <1>11, <1>12
    DEF HandlerStep, HandlerProceeds

(* The steps that write a status or an answer.                             *)
Touches(h) ==
    \/ SaveUserMessage(h) \/ DatabaseFails(h) \/ SaveAnswer(h) \/ CancelGeneration(h)
    \/ FailGeneration(h) \/ CompleteUserMessageIfFailed(h)
    \/ SaveRetriedAssistantMessage(h) \/ ResolveDecision(h)

LEMMA OthersAreQuiet ==
    ASSUME NEW h, HandlerStep(h), ~Touches(h)
    PROVE  UNCHANGED <<msg, answers>>
<1>1. CASE \/ RateLimitRejects(h) \/ RateLimitAllowsSend(h) \/ RateLimitAllowsRetry(h)
           \/ PrepareContext(h) \/ GraphStarts(h) \/ GraphInterrupts(h) \/ GraphCompletes(h)
  BY <1>1 DEF RateLimitRejects, RateLimitAllowsSend, RateLimitAllowsRetry, PrepareContext,
     GraphStarts, GraphInterrupts, GraphCompletes, db
<1>2. CASE \/ DeltaAfterStop(h) \/ GraphFails(h) \/ SaveCard(h) \/ SaveCardMessage(h)
           \/ Finally(h) \/ GetRetryableUserMessage(h) \/ RetryReply(h)
  BY <1>2 DEF DeltaAfterStop, GraphFails, SaveCard, SaveCardMessage, Finally,
     GetRetryableUserMessage, RetryReply, db
<1>3. CASE \/ Acquire(h) \/ AcquireRefused(h) \/ ResumeCommits(h) \/ ResumeWithoutCommit(h)
           \/ ToolCheckpoint(h) \/ ResumeFindsNothing(h)
  BY <1>3 DEF Acquire, AcquireRefused, ResumeCommits, ResumeWithoutCommit, ToolCheckpoint,
     ResumeFindsNothing, db
<1>4. CASE \/ DeleteStore(h) \/ DeleteMemory(h) \/ CheckInterrupt(h) \/ ResaveCard(h)
           \/ ReleaseLock(h) \/ FindStoredApproval(h) \/ RestorePendingApproval(h)
           \/ DropStoredApproval(h)
  BY <1>4 DEF DeleteStore, DeleteMemory, CheckInterrupt, ResaveCard, ReleaseLock,
     FindStoredApproval, RestorePendingApproval, DropStoredApproval, db
<1> QED BY <1>1, <1>2, <1>3, <1>4 DEF HandlerStep, HandlerProceeds, Touches

LEMMA StepAnswers == ASSUME TypeOK, AnswerInv, [Next]_vars PROVE AnswerInv'
<1> USE GatewayAssumption DEF TypeOK
<1>1. ASSUME NEW h \in Requests, ClientEvent(h) PROVE AnswerInv'
  BY <1>1, EventAnswers
<1>2. ASSUME NEW h \in Requests, HandlerStep(h) PROVE AnswerInv'
  <2>0. ASSUME NEW p \in Pcs \ {"idle"}, Goto(h, p), pc[h] # "finally", UNCHANGED answers,
               p = "failGen" => loc[h].kind = "send",
               \A m \in Requests : msg'[m] = msg[m] \/ msg'[m] # "FAILED"
        PROVE  AnswerInv'
    BY <2>0, SameRunAnswers, GotoKeepsAnswers
  <2>1. CASE SaveUserMessage(h)
    BY <2>0, <2>1 DEF SaveUserMessage, DataOK
  <2>2. CASE DatabaseFails(h)
    <3>1. Active(h) /\ Goto(h, OnError(h, FALSE)) /\ pc[h] # "finally"
      BY <2>2 DEF DatabaseFails, Active
    <3>2. OnError(h, FALSE) \in Pcs \ {"idle"} /\ (OnError(h, FALSE) = "failGen" => loc[h].kind = "send")
      BY <3>1, ErrorPcs
    <3>3. CASE UNCHANGED <<msg, answers>>
      BY <1>2, <3>3, QuietAnswers
    <3>4. CASE pc[h] = "failGen" /\ StatusIs(h, "FAILED")
      <4>1. OnError(h, FALSE) = "finally"
        BY <3>4, FrameFields DEF OnError, InCatch, FrameAt
      <4> QED BY <3>1, <3>4, <4>1, FailKeepsAnswers
    <3>5. CASE \E m, t : t # "FAILED" /\ StatusIs(m, t)
      <4>1. UNCHANGED answers /\ \A m \in Requests : msg'[m] = msg[m] \/ msg'[m] # "FAILED"
        BY <3>5 DEF DataOK
      <4> HIDE DEF TypeOK
      <4> QED BY <2>0, <3>1, <3>2, <4>1
    <3>6. CASE pc[h] = "saveRetried" /\ SettleRetry(h)
      <4>1. OnError(h, FALSE) = "finally"
        BY <3>6, FrameFields DEF OnError, InCatch, FrameAt
      <4> QED BY <3>1, <3>6, <4>1, RetryKeepsAnswers
    <3>7. CASE AnswerIs(h, "unacknowledged")
      <4>1. Answer(h, "unacknowledged").via = "unacknowledged"
        BY DEF Answer
      <4>2. \A m \in Requests : RunAnswers(m)' = RunAnswers(m)
        BY <3>7, <4>1, OneMoreAnswer
      <4> HIDE DEF TypeOK
      <4> QED BY <3>1, <3>2, <3>7, <4>2, GotoKeepsAnswers DEF TypeOK
    <3>8. CASE \E c : StoreIs(c)
      BY <3>3, <3>8
    <3> QED BY <2>2, <3>3, <3>4, <3>5, <3>6, <3>7, <3>8 DEF DatabaseFails
  <2>3. CASE SaveAnswer(h)
    <3>0. pc[h] = "saveAnswer" /\ UNCHANGED msg
      BY <2>3 DEF SaveAnswer
    <3>1. CASE loc[h].kind = "send"
      <4> DEFINE a == Answer(h, "send")
      <4>1. Goto(h, "finally") /\ answers' = answers \cup {a} /\ a.to = h
        BY <2>3, <3>1 DEF SaveAnswer, Approval, ApprovalKinds, Answer, RunThread
      <4> HIDE DEF a
      <4>2. RunAnswers(h) = {} /\ msg[h] # "FAILED"
        BY <3>0, <3>1 DEF AnswerInv, Answering
      <4>3. /\ pc'[h] = "finally"
            /\ \A g \in Requests : g # h => pc'[g] = pc[g] /\ loc'[g] = loc[g]
        BY <4>1 DEF Goto, Enter, HandlersOK
      <4>4. /\ \A g \in Requests : g # h => RunAnswers(g)' = RunAnswers(g)
            /\ \A b, c \in {d \in answers' : d.to = h /\ d.via \in {"send", "retry"}} : b = c
        BY <4>1, <4>2 DEF RunAnswers
      <4>5. \A g \in Requests : Answering(g)' => Answering(g) /\ g # h
        BY <3>0, <4>3 DEF Answering
      <4>6. ASSUME NEW g \in Requests
            PROVE  /\ \A b, c \in RunAnswers(g)' : b = c
                   /\ msg'[g] = "FAILED" => RunAnswers(g)' = {}
                   /\ Answering(g)' => RunAnswers(g)' = {} /\ msg'[g] # "FAILED"
        <5>1. CASE g = h
          BY <3>0, <4>2, <4>4, <4>5, <5>1 DEF RunAnswers
        <5>2. CASE g # h
          BY <3>0, <4>4, <4>5, <5>2 DEF AnswerInv
        <5> QED BY <5>1, <5>2
      <4>7. \A g \in Requests : pc'[g] = "failGen" => loc'[g].kind = "send"
        BY <4>3 DEF AnswerInv
      <4> QED BY <4>6, <4>7 DEF AnswerInv
    <3>2. CASE loc[h].kind # "send" /\ Approval(h)
      <4>1. answers' = answers \cup {Answer(h, "approval")} /\ Goto(h, "deleteStore")
        BY <2>3, <3>2 DEF SaveAnswer
      <4>2. Answer(h, "approval").via = "approval"
        BY DEF Answer
      <4>3. \A m \in Requests : RunAnswers(m)' = RunAnswers(m)
        BY <4>1, <4>2, OneMoreAnswer
      <4> QED BY <3>0, <4>1, <4>3, GotoKeepsAnswers
    <3>3. CASE loc[h].kind # "send" /\ ~Approval(h)
      BY <3>0, <3>3, FrameFields DEF FrameAt, LocalState, Approval, ApprovalKinds
    <3> QED BY <3>1, <3>2, <3>3
  <2>4. CASE CancelGeneration(h)
    BY <2>0, <2>4 DEF CancelGeneration, DataOK
  <2>5. CASE FailGeneration(h)
    BY <2>5, FailKeepsAnswers DEF FailGeneration
  <2>6. CASE CompleteUserMessageIfFailed(h)
    BY <2>0, <2>6 DEF CompleteUserMessageIfFailed, DataOK
  <2>7. CASE SaveRetriedAssistantMessage(h) /\ SettleRetry(h)
    BY <2>7, RetryKeepsAnswers DEF SaveRetriedAssistantMessage
  <2>8. CASE ResolveDecision(h) /\ loc[h].kind = "chat"
    <3>1. UNCHANGED answers /\ \A g \in Requests : msg'[g] = msg[g] \/ msg'[g] # "FAILED"
      BY <2>8 DEF ResolveDecision, DataOK
    <3>2. CASE Goto(h, "finally")
      BY <2>0, <2>8, <3>1, <3>2 DEF ResolveDecision
    <3>3. ASSUME NEW d \in Decisions, Enter(h, "resume", [loc[h] EXCEPT !.decision = d])
          PROVE  AnswerInv'
      <4>1. [loc[h] EXCEPT !.decision = d].kind # "send"
        BY <2>8, FrameFields DEF LocalState
      <4> QED BY <3>1, <3>3, <4>1, SameRunAnswers, EnterKeepsAnswers
    <3> QED BY <2>8, <3>2, <3>3 DEF ResolveDecision
  <2>9. CASE UNCHANGED <<msg, answers>>
    BY <1>2, <2>9, QuietAnswers
  <2>10. ASSUME Touches(h) PROVE AnswerInv'
    <3>1. CASE SaveRetriedAssistantMessage(h) /\ ~SettleRetry(h)
      BY <2>9, <3>1 DEF SaveRetriedAssistantMessage
    <3>2. CASE ResolveDecision(h) /\ loc[h].kind # "chat"
      BY <2>9, <3>2 DEF ResolveDecision
    <3> QED BY <2>1, <2>2, <2>3, <2>4, <2>5, <2>6, <2>7, <2>8, <2>10, <3>1, <3>2 DEF Touches
  <2> QED BY <1>2, <2>9, <2>10, OthersAreQuiet
<1>3. ASSUME NEW i \in Instances, Crash(i) PROVE AnswerInv'
  <2>1. \A g \in Requests : \/ pc'[g] = pc[g] /\ loc'[g] = loc[g]
                            \/ pc'[g] = "done" /\ loc'[g].kind = "none"
    BY <1>3 DEF Crash, NoLocals
  <2>2. \A g \in Requests : Answering(g)' => Answering(g)
    BY <2>1 DEF Answering
  <2> QED BY <1>3, <2>1, <2>2, SameRunAnswers DEF Crash, AnswerInv
<1>4. CASE LockExpires \/ UNCHANGED vars
  BY <1>4, SameRunAnswers DEF LockExpires, vars, AnswerInv, Answering
<1> QED BY <1>1, <1>2, <1>3, <1>4 DEF Next

LEMMA AnswersHold == Spec => []AnswerInv
<1>1. Init => AnswerInv
  BY DEF Init, AnswerInv, Answering, RunAnswers
<1>2. TypeOK /\ AnswerInv /\ [Next]_vars => AnswerInv'
  BY StepAnswers
<1> QED BY <1>1, <1>2, TypeCorrect, PTL DEF Spec

(* However many retries of a message run at once, on any number of         *)
(* instances, and whatever fails or crashes: its own run and they save one *)
(* answer, and the message that has it is not FAILED (run gateway_faults). *)
THEOREM RetriesAnswerOnceHolds == Spec => []RetriesAnswerOnce
<1>1. TypeOK /\ AnswerInv => RetriesAnswerOnce
  <2> SUFFICES ASSUME TypeOK, AnswerInv, NEW a \in answers, a.via \in {"send", "retry"}
               PROVE  /\ msg[a.to] # "FAILED"
                      /\ \A b \in answers : b.to = a.to /\ b.via \in {"send", "retry"} => b = a
    BY DEF RetriesAnswerOnce
  <2>1. a.to \in Requests /\ a \in RunAnswers(a.to)
    BY DEF TypeOK, DataOK, RunAnswers
  <2> QED BY <2>1 DEF AnswerInv, RunAnswers
<1> QED BY <1>1, AnswersHold, TypeCorrect, PTL

(***************************************************************************)
(* The cards.  One client that waits for its answers, on one instance that *)
(* neither fails nor crashes: then at most one handler is active, and what *)
(* the store, the memory and the checkpoints hold follows from where it    *)
(* stands.  Between two handlers the cards are Settled: there is no card   *)
(* and no interrupt waits for the user, or there is one card, in the store *)
(* and in the memory, and it names the only interrupt that waits.          *)
(***************************************************************************)
OneTab == /\ Sequential /\ ~Faults /\ MaxCrashes = 0
          /\ \A i, j \in Instances : i = j

cards == <<store, pendingApprovals, interrupt, stopped>>

Owed(t)     == interrupt[t] # None /\ t \notin stopped
NothingOwed == \A t \in Requests : ~Owed(t)
OwedOnly(u) == \A t \in Requests : Owed(t) => t = u

NoCard   == store = None /\ \A i \in Instances : pendingApprovals[i] = None
Shown(c) == /\ store = c /\ \A i \in Instances : pendingApprovals[i] = c
            /\ interrupt[c.thread] = c.id /\ OwedOnly(c.thread)
Settled  == \/ NoCard /\ NothingOwed
            \/ store \in Card /\ Shown(store)

(* A run that stores a card has left the interrupt the card names.         *)
NewCard(h) ==
    LET t == RunThread(h) IN
    /\ pc[h] \in {"saveCard", "saveCardMessage"} => interrupt[t] = h /\ OwedOnly(t)
    /\ pc[h] = "saveCardMessage" => store = [id |-> h, thread |-> t]

(* send_message and retry_message begin without a card.                    *)
RunCards(h) ==
    /\ pc[h] \in {"completeIfFailed", "finally"} => Settled
    /\ pc[h] \in {"cancelTry", "cancelCatch"} => NoCard /\ OwedOnly(RunThread(h))
    /\ pc[h] \notin {"completeIfFailed", "finally", "cancelTry", "cancelCatch",
                     "saveCard", "saveCardMessage"} => NoCard /\ NothingOwed

(* An answer begins with the card that is shown; each way out of its run   *)
(* writes the store and the memory, from what the checkpoint then holds.   *)
ApprovalCards(h) ==
    LET c == loc[h].card IN
    /\ pc[h] # "failGen"
    /\ pc[h] \in {"finally", "release"} => Settled
    /\ pc[h] \in {"acquire", "resolve", "resume", "resumed"} => Shown(c)
    /\ pc[h] \in {"stream", "saveAnswer"} => interrupt[c.thread] = None
    /\ pc[h] \in {"checkInterrupt", "resave"} => interrupt[c.thread] \in {None, c.id}
    /\ pc[h] = "resave" => interrupt[c.thread] # None
    /\ pc[h] \in {"stream", "saveAnswer", "cancelTry", "cancelCatch", "checkInterrupt",
                  "resave"} => OwedOnly(c.thread)
    /\ pc[h] \in {"deleteStore", "deleteStoreCatch", "deleteStoreOnly", "deleteMemory"}
          => NothingOwed
    /\ pc[h] = "deleteStoreOnly" => \A i \in Instances : pendingApprovals[i] = None
    /\ pc[h] = "deleteMemory" => store = None

JoinCards(h) == /\ Settled /\ pc[h] # "joinDelete"
                /\ pc[h] = "joinCheck" => store = loc[h].card

CardsOf(h) == /\ loc[h].kind \in {"send", "retry"} => RunCards(h)
              /\ Approval(h) => ApprovalCards(h)
              /\ loc[h].kind = "join" => JoinCards(h)
              /\ NewCard(h)

CardInv == /\ \A g, h \in Requests : Active(g) /\ Active(h) => g = h
           /\ Quiet => Settled
           /\ \A h \in Requests : Active(h) => CardsOf(h)

LEMMA CardsStill ==
    ASSUME UNCHANGED cards
    PROVE  /\ Settled' <=> Settled
           /\ NoCard' <=> NoCard
           /\ NothingOwed' <=> NothingOwed
           /\ \A u : OwedOnly(u)' <=> OwedOnly(u)
           /\ \A c : Shown(c)' <=> Shown(c)
BY DEF cards, Settled, NoCard, NothingOwed, OwedOnly, Owed, Shown

(* It is enough to look at the handler that takes the step.                *)
LEMMA HandlerMoves ==
    ASSUME HandlersOK, NEW h \in Requests, NEW p, NEW f, Enter(h, p, f),
           \A g \in Requests : g # h => ~Active(g),
           p \in {"idle", "done"} => Settled',
           p \notin {"idle", "done"} => CardsOf(h)'
    PROVE  CardInv'
<1>1. pc'[h] = p /\ \A g \in Requests : g # h => pc'[g] = pc[g]
  BY DEF Enter, HandlersOK
<1>2. \A g \in Requests : Active(g)' => g = h
  BY <1>1 DEF Active
<1>3. Active(h)' <=> p \notin {"idle", "done"}
  BY <1>1 DEF Active
<1>4. Quiet' => Settled'
  BY <1>3 DEF Quiet
<1> QED BY <1>2, <1>3, <1>4 DEF CardInv

LEMMA GotoMoves ==
    ASSUME HandlersOK, NEW h \in Requests, NEW p, Goto(h, p),
           \A g \in Requests : g # h => ~Active(g),
           p \in {"idle", "done"} => Settled',
           pc'[h] = p /\ loc'[h] = loc[h] /\ p \notin {"idle", "done"} => CardsOf(h)'
    PROVE  CardInv'
<1>1. CASE p = "done"
  BY <1>1, HandlerMoves DEF Goto
<1>2. CASE p # "done"
  <2>1. pc'[h] = p /\ loc'[h] = loc[h]
    BY <1>2 DEF Goto, Enter, HandlersOK
  <2> QED BY <1>2, <2>1, HandlerMoves DEF Goto
<1> QED BY <1>1, <1>2

(* The cards of a handler depend on its place and its card alone.          *)
LEMMA SamePlace ==
    ASSUME NEW h, CardsOf(h), UNCHANGED <<cards, pc[h]>>,
           loc'[h].kind = loc[h].kind, loc'[h].card = loc[h].card,
           loc'[h].target = loc[h].target
    PROVE  CardsOf(h)'
<1>1. RunThread(h)' = RunThread(h) /\ (Approval(h)' <=> Approval(h))
  BY DEF RunThread, Approval
<1> USE CardsStill
<1>2. NewCard(h)'
  BY <1>1 DEF CardsOf, NewCard, cards
<1>3. RunCards(h) => RunCards(h)'
  BY <1>1 DEF RunCards
<1>4. ApprovalCards(h) => ApprovalCards(h)'
  BY DEF ApprovalCards, cards
<1>5. JoinCards(h) => JoinCards(h)'
  BY DEF JoinCards, cards
<1> QED BY <1>1, <1>2, <1>3, <1>4, <1>5 DEF CardsOf

LEMMA EventCards ==
    ASSUME OneTab, TypeOK, CardInv, NEW h \in Requests, ClientEvent(h)
    PROVE  CardInv'
<1> USE GatewayAssumption DEF TypeOK
<1>0. PICK i \in Instances : \/ SendMessage(h, i) \/ RetryMessage(h, i)
                             \/ RespondAgentApproval(h, i)
                             \/ StopGeneration(h, i) \/ JoinRoom(h, i)
  BY DEF ClientEvent
<1>1. CASE StopGeneration(h, i)
  <2>1. /\ pc[h] = "idle" /\ pc'[h] = "done" /\ UNCHANGED cards
        /\ \A g \in Requests : g # h => pc'[g] = pc[g]
    BY <1>1 DEF StopGeneration, Arrives, HandlersOK, cards
  <2>2. \A g \in Requests : /\ loc'[g].kind = loc[g].kind /\ loc'[g].card = loc[g].card
                            /\ loc'[g].target = loc[g].target
    BY <1>1 DEF StopGeneration, HandlersOK, LocalState
  <2>3. \A g \in Requests : /\ Active(g)' <=> Active(g)
                            /\ Active(g) => pc'[g] = pc[g]
    BY <2>1 DEF Active
  <2>4. Quiet' => Settled'
    BY <2>1, <2>3, CardsStill DEF CardInv, Quiet
  <2>5. ASSUME NEW g \in Requests, Active(g)' PROVE CardsOf(g)'
    BY <2>1, <2>2, <2>3, <2>5, SamePlace DEF CardInv
  <2> QED BY <2>3, <2>4, <2>5 DEF CardInv
<1>2. CASE ~StopGeneration(h, i)
  <2>1. pc[h] = "idle" /\ UNCHANGED cards /\ Quiet
    BY <1>0, <1>2 DEF OneTab, SendMessage, RetryMessage, RespondAgentApproval, JoinRoom,
       Arrives, cards, Quiet
  <2>2. Settled /\ Settled'
    BY <2>1, CardsStill DEF CardInv
  <2>3. \A g \in Requests : ~Active(g)
    BY <2>1 DEF Quiet
  <2>4. CASE Goto(h, "done")
    BY <2>2, <2>3, <2>4, GotoMoves
  <2>5. ASSUME NEW kind \in {"send", "retry"}, NEW m, pendingApprovals[i] = None,
               Enter(h, "rateLimit", Frame(i, kind, m, None))
        PROVE  CardInv'
    <3>1. NoCard /\ NothingOwed
      BY <2>2, <2>5 DEF Settled, Shown
    <3>2. NoCard' /\ NothingOwed'
      BY <2>1, <3>1, CardsStill
    <3>3. pc'[h] = "rateLimit" /\ loc'[h].kind = kind
      BY <2>5 DEF Enter, Frame, HandlersOK
    <3>4. CardsOf(h)'
      BY <3>2, <3>3 DEF CardsOf, RunCards, NewCard, Approval, ApprovalKinds
    <3> QED BY <2>3, <2>5, <3>4, HandlerMoves
  <2>6. ASSUME NEW kind \in ApprovalKinds, pendingApprovals[i] # None,
               Enter(h, "acquire", Frame(i, kind, None, pendingApprovals[i]))
        PROVE  CardInv'
    <3>1. Shown(pendingApprovals[i])
      BY <2>2, <2>6 DEF Settled, Shown, NoCard
    <3>2. Shown(pendingApprovals[i])'
      BY <2>1, <3>1, CardsStill DEF cards
    <3>3. pc'[h] = "acquire" /\ loc'[h].kind = kind /\ loc'[h].card = pendingApprovals[i]
      BY <2>6 DEF Enter, Frame, HandlersOK
    <3>4. CardsOf(h)'
      BY <2>1, <3>2, <3>3 DEF CardsOf, ApprovalCards, NewCard, Approval, ApprovalKinds, cards
    <3> QED BY <2>3, <2>6, <3>4, HandlerMoves
  <2>7. CASE JoinRoom(h, i)
    <3> DEFINE p == IF pendingApprovals[i] = None THEN "joinFind" ELSE "joinCheck"
    <3>1. /\ Enter(h, p, Frame(i, "join", None, pendingApprovals[i]))
          /\ pc'[h] = p /\ loc'[h].kind = "join" /\ loc'[h].card = pendingApprovals[i]
      BY <2>7 DEF JoinRoom, Enter, Frame, HandlersOK
    <3>2. p = "joinCheck" => store' = pendingApprovals[i]
      BY <2>1, <2>2 DEF Settled, Shown, NoCard, cards
    <3>3. CardsOf(h)'
      BY <2>2, <3>1, <3>2 DEF CardsOf, JoinCards, NewCard, Approval, ApprovalKinds
    <3> QED BY <2>3, <3>1, <3>3, HandlerMoves
  <2> QED BY <1>0, <1>2, <2>4, <2>5, <2>6, <2>7 DEF SendMessage, RetryMessage,
      RespondAgentApproval, ApprovalKinds
<1> QED BY <1>1, <1>2

(* A handler that takes a step is the only active one.                     *)
LEMMA Alone ==
    ASSUME TypeOK, CardInv, NEW h \in Requests, Active(h)
    PROVE  /\ CardsOf(h) /\ \A g \in Requests : g # h => ~Active(g)
           /\ FrameAt(pc[h], loc[h]) /\ loc[h] \in LocalState
BY FrameFields DEF CardInv, TypeOK

LEMMA StepsActive == ASSUME NEW h \in Requests, HandlerStep(h) PROVE Active(h)
<1>1. CASE \/ RateLimitRejects(h) \/ RateLimitAllowsSend(h) \/ RateLimitAllowsRetry(h)
           \/ SaveUserMessage(h) \/ PrepareContext(h) \/ GraphStarts(h)
           \/ GraphInterrupts(h) \/ GraphCompletes(h) \/ DeltaAfterStop(h)
  BY <1>1 DEF RateLimitRejects, RateLimitAllowsSend, RateLimitAllowsRetry, SaveUserMessage,
     PrepareContext, GraphStarts, GraphInterrupts, GraphCompletes, DeltaAfterStop, Active
<1>2. CASE \/ SaveCard(h) \/ SaveCardMessage(h) \/ SaveAnswer(h) \/ CancelGeneration(h)
           \/ FailGeneration(h) \/ Finally(h) \/ GetRetryableUserMessage(h)
           \/ RetryReply(h) \/ CompleteUserMessageIfFailed(h)
           \/ SaveRetriedAssistantMessage(h)
  BY <1>2 DEF SaveCard, SaveCardMessage, SaveAnswer, CancelGeneration, FailGeneration, Finally,
     GetRetryableUserMessage, RetryReply, CompleteUserMessageIfFailed,
     SaveRetriedAssistantMessage, Active
<1>3. CASE \/ Acquire(h) \/ AcquireRefused(h) \/ ResolveDecision(h) \/ ResumeCommits(h)
           \/ ResumeWithoutCommit(h) \/ ToolCheckpoint(h) \/ ResumeFindsNothing(h)
           \/ DeleteStore(h) \/ DeleteMemory(h)
  BY <1>3 DEF Acquire, AcquireRefused, ResolveDecision, ResumeCommits, ResumeWithoutCommit,
     ToolCheckpoint, ResumeFindsNothing, DeleteStore, DeleteMemory, Active
<1>4. CASE \/ CheckInterrupt(h) \/ ResaveCard(h) \/ ReleaseLock(h) \/ FindStoredApproval(h)
           \/ RestorePendingApproval(h) \/ DropStoredApproval(h)
           \/ DatabaseFails(h) \/ GraphFails(h)
  BY <1>4 DEF CheckInterrupt, ResaveCard, ReleaseLock, FindStoredApproval,
     RestorePendingApproval, DropStoredApproval, DatabaseFails, GraphFails, Active
<1> QED BY <1>1, <1>2, <1>3, <1>4 DEF HandlerStep, HandlerProceeds

(* A run without a card goes on, and leaves the cards alone.               *)
LEMMA RunMoves ==
    ASSUME OneTab, TypeOK, CardInv, NEW h \in Requests, NEW p, Goto(h, p), Active(h),
           UNCHANGED cards, loc[h].kind \in {"send", "retry"}, NoCard, NothingOwed,
           p \notin {"saveCard", "saveCardMessage"}
    PROVE  CardInv'
<1>1. NoCard' /\ NothingOwed' /\ Settled'
  BY CardsStill DEF Settled
<1>2. ASSUME pc'[h] = p, loc'[h] = loc[h] PROVE CardsOf(h)'
  BY <1>1, <1>2 DEF CardsOf, RunCards, NewCard, Approval, ApprovalKinds, OwedOnly, NothingOwed
<1> QED BY <1>1, <1>2, Alone, GotoMoves DEF TypeOK

(* An answer to the card that is shown goes on, and leaves it alone.       *)
LEMMA AnswerMoves ==
    ASSUME OneTab, TypeOK, CardInv, NEW h \in Requests, NEW p, NEW f, Enter(h, p, f),
           Active(h), UNCHANGED cards, Approval(h), Shown(loc[h].card),
           p # "done" => f.kind = loc[h].kind /\ f.card = loc[h].card,
           p \in {"resolve", "resume", "resumed", "cancelCatch", "checkInterrupt", "finally",
                 "done"}
    PROVE  CardInv'
<1>1. loc[h].card \in Card
  BY Alone DEF FrameAt, Approval
<1>2. Settled /\ Settled'
  BY <1>1, CardsStill DEF Settled, Shown
<1>3. CASE p = "done"
  BY <1>2, <1>3, Alone, HandlerMoves DEF TypeOK
<1>4. CASE p # "done"
  <2>1. pc'[h] = p /\ loc'[h] = f
    BY DEF Enter, TypeOK, HandlersOK
  <2>2. Shown(f.card) /\ Shown(f.card)'
    BY <1>4, <2>1, CardsStill
  <2>3. loc'[h].kind \in ApprovalKinds
    BY <1>4, <2>1 DEF Approval
  <2>4. CardsOf(h)'
    BY <1>2, <2>1, <2>2, <2>3 DEF CardsOf, ApprovalCards, NewCard, Approval, ApprovalKinds, Shown
  <2> QED BY <2>4, <1>4, Alone, HandlerMoves DEF TypeOK
<1> QED BY <1>3, <1>4

LEMMA SettledMoves ==
    ASSUME OneTab, TypeOK, CardInv, NEW h \in Requests, NEW p \in {"finally", "release", "done"},
           Goto(h, p), Active(h), UNCHANGED cards, Settled, p = "release" => Approval(h)
    PROVE  CardInv'
<1>1. Settled'
  BY CardsStill
<1>2. ASSUME pc'[h] = p, loc'[h] = loc[h], p # "done" PROVE CardsOf(h)'
  BY <1>1, <1>2 DEF CardsOf, RunCards, ApprovalCards, JoinCards, NewCard, Approval, ApprovalKinds
<1> QED BY <1>1, <1>2, Alone, GotoMoves DEF TypeOK

(* What a handler that answers an approval has in its locals.              *)
LEMMA AnswerFrame ==
    ASSUME TypeOK, NEW h \in Requests, Active(h), Approval(h)
    PROVE  /\ loc[h].card \in Card /\ RunThread(h) = loc[h].card.thread
           /\ loc[h].kind \notin {"none", "send", "retry", "join"}
BY FrameFields DEF TypeOK, FrameAt, Approval, ApprovalKinds, RunThread

(* The steps that write a card, an interrupt or a stop.                    *)
WritesCards(h) ==
    \/ GraphInterrupts(h) \/ GraphCompletes(h) \/ SaveCard(h) \/ SaveCardMessage(h)
    \/ CancelGeneration(h) \/ ToolCheckpoint(h) \/ DeleteStore(h) \/ DeleteMemory(h)
    \/ CheckInterrupt(h) \/ ResaveCard(h) \/ RestorePendingApproval(h)
    \/ DropStoredApproval(h)

LEMMA OthersKeepCards ==
    ASSUME OneTab, NEW h, HandlerStep(h), ~WritesCards(h)
    PROVE  UNCHANGED cards
<1>1. CASE \/ RateLimitRejects(h) \/ RateLimitAllowsSend(h) \/ RateLimitAllowsRetry(h)
           \/ SaveUserMessage(h) \/ PrepareContext(h) \/ GraphStarts(h)
           \/ DeltaAfterStop(h)
  BY <1>1 DEF RateLimitRejects, RateLimitAllowsSend, RateLimitAllowsRetry, SaveUserMessage,
     PrepareContext, GraphStarts, DeltaAfterStop, cards
<1>2. CASE \/ SaveAnswer(h) \/ FailGeneration(h) \/ Finally(h)
           \/ GetRetryableUserMessage(h) \/ RetryReply(h)
           \/ CompleteUserMessageIfFailed(h) \/ SaveRetriedAssistantMessage(h)
  BY <1>2 DEF SaveAnswer, FailGeneration, Finally, GetRetryableUserMessage, RetryReply,
     CompleteUserMessageIfFailed, SaveRetriedAssistantMessage, SettleRetry, cards
<1>3. CASE \/ Acquire(h) \/ AcquireRefused(h) \/ ResolveDecision(h) \/ ResumeCommits(h)
           \/ ResumeWithoutCommit(h) \/ ResumeFindsNothing(h)
  BY <1>3 DEF Acquire, AcquireRefused, ResolveDecision, ResumeCommits, ResumeWithoutCommit,
     ResumeFindsNothing, cards
<1>4. CASE ReleaseLock(h) \/ FindStoredApproval(h) \/ DatabaseFails(h) \/ GraphFails(h)
  BY <1>4 DEF ReleaseLock, FindStoredApproval, DatabaseFails, GraphFails, cards, OneTab
<1> QED BY <1>1, <1>2, <1>3, <1>4 DEF HandlerStep, HandlerProceeds, WritesCards

LEMMA QuietCards ==
    ASSUME OneTab, TypeOK, CardInv, NEW h \in Requests, HandlerStep(h), ~WritesCards(h)
    PROVE  CardInv'
<1> USE GatewayAssumption DEF TypeOK
<1>0. Active(h) /\ CardsOf(h) /\ FrameAt(pc[h], loc[h]) /\ UNCHANGED cards
  BY StepsActive, Alone, OthersKeepCards
<1>01. ASSUME ~Approval(h),
              pc[h] \in {"rateLimit", "saveUser", "prepare", "checkRetryable", "getState",
                         "saveRetried", "stream", "saveAnswer", "failGen"}
       PROVE  loc[h].kind \in {"send", "retry"} /\ NoCard /\ NothingOwed
  <2>1. loc[h].kind \in {"none", "send", "chat", "retry", "button", "join"}
    BY FrameFields DEF LocalState
  <2>2. loc[h].kind # "none" /\ loc[h].kind # "join" /\ loc[h].kind \notin ApprovalKinds
    BY <1>0, <1>01 DEF FrameAt, Approval
  <2>3. loc[h].kind \in {"send", "retry"}
    BY <2>1, <2>2 DEF ApprovalKinds
  <2> QED BY <1>0, <1>01, <2>3 DEF CardsOf, RunCards
<1>02. ASSUME pc[h] \in {"saveUser", "prepare"}
       PROVE  loc[h].kind \in {"send", "retry"} /\ NoCard /\ NothingOwed
  <2>1. loc[h].kind = "send"
    BY <1>0, <1>02 DEF FrameAt
  <2>2. ~Approval(h)
    BY <2>1 DEF Approval, ApprovalKinds
  <2> QED BY <1>01, <1>02, <2>2
<1>1. CASE RateLimitRejects(h)
  BY <1>0, <1>01, <1>1, RunMoves DEF RateLimitRejects, FrameAt, Approval, CardsOf, ApprovalCards
<1>2. CASE RateLimitAllowsSend(h)
  BY <1>0, <1>01, <1>2, RunMoves DEF RateLimitAllowsSend, FrameAt, Approval, CardsOf, ApprovalCards
<1>3. CASE RateLimitAllowsRetry(h)
  BY <1>0, <1>01, <1>3, RunMoves DEF RateLimitAllowsRetry, FrameAt, Approval, CardsOf, ApprovalCards
<1>4. CASE SaveUserMessage(h)
  BY <1>0, <1>02, <1>4, RunMoves DEF SaveUserMessage
<1>5. CASE PrepareContext(h)
  BY <1>0, <1>02, <1>5, RunMoves DEF PrepareContext
<1>6. CASE FailGeneration(h)
  BY <1>0, <1>01, <1>6, RunMoves DEF FailGeneration, FrameAt, Approval, CardsOf, ApprovalCards
<1>7. CASE GetRetryableUserMessage(h)
  BY <1>0, <1>01, <1>7, RunMoves DEF GetRetryableUserMessage, FrameAt, Approval, ApprovalKinds, CardsOf, ApprovalCards
<1>8. CASE RetryReply(h)
  BY <1>0, <1>01, <1>8, RunMoves DEF RetryReply, FrameAt, Approval, ApprovalKinds, CardsOf, ApprovalCards
<1>9. CASE SaveRetriedAssistantMessage(h)
  BY <1>0, <1>01, <1>9, RunMoves DEF SaveRetriedAssistantMessage, FrameAt, Approval, ApprovalKinds, CardsOf, ApprovalCards
<1>10. CASE GraphStarts(h)
  <2>1. \A g \in Requests : CardsOf(g) => CardsOf(g)'
    BY <1>0, <1>10, SamePlace DEF GraphStarts
  <2>2. \A g \in Requests : Active(g)' <=> Active(g)
    BY <1>10 DEF GraphStarts, Active
  <2> QED BY <1>0, <2>1, <2>2, CardsStill DEF CardInv, Quiet
<1>11. CASE DeltaAfterStop(h)
  <2>1. CASE ~Approval(h)
    BY <1>0, <1>01, <1>11, <2>1, RunMoves DEF DeltaAfterStop
  <2>2. CASE Approval(h)
    <3>1. OwedOnly(loc[h].card.thread) /\ \A u : OwedOnly(u) => OwedOnly(u)'
      BY <1>0, <1>11, <2>2, CardsStill DEF DeltaAfterStop, CardsOf, ApprovalCards
    <3>2. ASSUME pc'[h] = "cancelTry", loc'[h] = loc[h] PROVE CardsOf(h)'
      BY <1>0, <2>2, <3>1, <3>2, AnswerFrame DEF CardsOf, ApprovalCards, NewCard, Approval
    <3> QED BY <1>0, <1>11, <3>2, Alone, GotoMoves DEF DeltaAfterStop
  <2> QED BY <2>1, <2>2
<1>12. CASE GraphFails(h)
  <2> DEFINE p == OnError(h, loc[h].aborted)
  <2>1. CASE ~Approval(h)
    <3>1. loc[h].kind \in {"send", "retry"} /\ NoCard /\ NothingOwed
      BY <1>0, <1>01, <1>12, <2>1 DEF GraphFails, FrameAt, Approval
    <3>2. p \notin {"saveCard", "saveCardMessage"}
      BY DEF OnError
    <3> QED BY <1>0, <1>12, <3>1, <3>2, RunMoves DEF GraphFails
  <2>2. CASE Approval(h)
    <3>1. p \in {"cancelCatch", "checkInterrupt"}
      BY <1>0, <1>12, <2>2, AnswerFrame DEF GraphFails, OnError, InCatch
    <3>2. CASE pc[h] = "stream"
      <4> DEFINE c == loc[h].card
      <4>1. OwedOnly(c.thread) /\ interrupt[c.thread] = None
        BY <1>0, <2>2, <3>2 DEF CardsOf, ApprovalCards
      <4>2. \A u : OwedOnly(u) => OwedOnly(u)'
        BY <1>0, CardsStill
      <4>3. ASSUME pc'[h] = p, loc'[h] = loc[h] PROVE CardsOf(h)'
        <5> HIDE DEF p
        <5> QED BY <1>0, <2>2, <3>1, <4>1, <4>2, <4>3, AnswerFrame
                DEF CardsOf, ApprovalCards, NewCard, Approval, cards
      <4>4. Goto(h, p)
        BY <1>12 DEF GraphFails
      <4> HIDE DEF p
      <4> QED BY <1>0, <3>1, <4>3, <4>4, Alone, GotoMoves
    <3>3. CASE pc[h] # "stream"
      <4>1. Shown(loc[h].card) /\ Enter(h, p, loc[h])
        BY <1>0, <1>12, <2>2, <3>1, <3>3 DEF GraphFails, CardsOf, ApprovalCards, Goto
      <4> HIDE DEF p
      <4> QED BY <1>0, <2>2, <3>1, <4>1, AnswerMoves
    <3> QED BY <3>2, <3>3
  <2> QED BY <2>1, <2>2
<1>13. CASE SaveAnswer(h)
  <2>1. CASE ~Approval(h)
    BY <1>0, <1>01, <1>13, <2>1, RunMoves DEF SaveAnswer
  <2>2. CASE Approval(h)
    <3>1. NothingOwed /\ NothingOwed'
      BY <1>0, <1>13, <2>2, CardsStill DEF SaveAnswer, CardsOf, ApprovalCards, OwedOnly, NothingOwed, Owed
    <3>2. ASSUME pc'[h] = "deleteStore", loc'[h] = loc[h] PROVE CardsOf(h)'
      BY <1>0, <2>2, <3>1, <3>2, AnswerFrame DEF CardsOf, ApprovalCards, NewCard, Approval
    <3> QED BY <1>0, <1>13, <2>2, <3>2, Alone, GotoMoves DEF SaveAnswer
  <2> QED BY <2>1, <2>2
<1>14. CASE Finally(h) \/ CompleteUserMessageIfFailed(h) \/ ReleaseLock(h)
  <2>1. loc[h].kind \in {"none", "send", "chat", "retry", "button", "join"}
    BY FrameFields DEF LocalState
  <2>2. pc[h] \in {"finally", "completeIfFailed", "release"}
    BY <1>14 DEF Finally, CompleteUserMessageIfFailed, ReleaseLock
  <2>3. /\ loc[h].kind # "none" /\ loc[h].kind # "join"
        /\ pc[h] = "completeIfFailed" => ~Approval(h)
        /\ pc[h] = "release" => Approval(h)
    BY <1>0, <2>2 DEF FrameAt, Approval, ApprovalKinds
  <2>4. Settled
    BY <1>0, <2>1, <2>2, <2>3 DEF CardsOf, RunCards, ApprovalCards, Approval, ApprovalKinds
  <2>5. CASE Finally(h)
    BY <1>0, <2>4, <2>5, SettledMoves DEF Finally
  <2>6. CASE CompleteUserMessageIfFailed(h)
    BY <1>0, <2>4, <2>6, SettledMoves DEF CompleteUserMessageIfFailed
  <2>7. CASE ReleaseLock(h)
    BY <1>0, <2>4, <2>7, SettledMoves DEF ReleaseLock
  <2> QED BY <1>14, <2>5, <2>6, <2>7
<1>15. CASE \/ Acquire(h) \/ AcquireRefused(h) \/ ResolveDecision(h) \/ ResumeCommits(h)
            \/ ResumeWithoutCommit(h) \/ ResumeFindsNothing(h)
  <2>0. pc[h] \in {"acquire", "resolve", "resume"}
    BY <1>15 DEF Acquire, AcquireRefused, ResolveDecision, ResumeCommits, ResumeWithoutCommit,
       ResumeFindsNothing
  <2>1. Approval(h)
    BY <1>0, <2>0 DEF FrameAt, Approval
  <2>2. Shown(loc[h].card)
    BY <1>0, <2>0, <2>1 DEF CardsOf, ApprovalCards
  <2>3. ASSUME NEW p \in {"resolve", "resumed", "finally", "done"}, Goto(h, p) PROVE CardInv'
    BY <1>0, <2>1, <2>2, <2>3, AnswerMoves DEF Goto
  <2>4. CASE Acquire(h) \/ AcquireRefused(h) \/ ResumeCommits(h) \/ ResumeWithoutCommit(h)
    BY <2>3, <2>4 DEF Acquire, AcquireRefused, ResumeCommits, ResumeWithoutCommit
  <2>5. CASE ResolveDecision(h)
    <3>1. ASSUME NEW d \in Decisions, Enter(h, "resume", [loc[h] EXCEPT !.decision = d])
          PROVE  CardInv'
      <4>1. /\ [loc[h] EXCEPT !.decision = d].kind = loc[h].kind
            /\ [loc[h] EXCEPT !.decision = d].card = loc[h].card
        BY FrameFields DEF LocalState
      <4> QED BY <1>0, <2>1, <2>2, <3>1, <4>1, AnswerMoves
    <3> QED BY <2>3, <2>5, <3>1 DEF ResolveDecision
  <2>6. ~ResumeFindsNothing(h)
    BY <1>0, <2>1, <2>2, AnswerFrame DEF ResumeFindsNothing, Shown, Card
  <2> QED BY <1>15, <2>4, <2>5, <2>6
<1>16. CASE FindStoredApproval(h)
  <2>1. loc[h].kind = "join" /\ Settled /\ Settled'
    BY <1>0, <1>16, CardsStill DEF FindStoredApproval, FrameAt, CardsOf, JoinCards
  <2>2. CASE Goto(h, "done")
    BY <1>0, <2>1, <2>2, SettledMoves
  <2>3. CASE Enter(h, "joinCheck", [loc[h] EXCEPT !.card = store])
    <3>1. loc[h] \in LocalState
      BY FrameFields
    <3>2. pc'[h] = "joinCheck" /\ loc'[h].kind = "join" /\ loc'[h].card = store
      BY <2>1, <2>3, <3>1 DEF Enter, HandlersOK, LocalState
    <3>3. CardsOf(h)'
      BY <1>0, <2>1, <3>2 DEF CardsOf, JoinCards, NewCard, Approval, ApprovalKinds, cards
    <3> QED BY <1>0, <2>3, <3>3, Alone, HandlerMoves
  <2> QED BY <1>16, <2>2, <2>3 DEF FindStoredApproval
<1> QED BY <1>1, <1>2, <1>3, <1>4, <1>5, <1>6, <1>7, <1>8, <1>9, <1>10, <1>11, <1>12, <1>13,
            <1>14, <1>15, <1>16 DEF HandlerStep, HandlerProceeds, WritesCards, DatabaseFails, OneTab

(* A run writes the interrupt of its own thread.                           *)
LEMMA ThreadMoves ==
    ASSUME interrupt \in [Requests -> Requests \cup {None}], NEW t \in Requests, NEW v,
           OwedOnly(t), interrupt' = [interrupt EXCEPT ![t] = v], stopped' = stopped
    PROVE  /\ interrupt'[t] = v
           /\ \A u : u = t => OwedOnly(u)'
           /\ v = None => NothingOwed'
BY DEF OwedOnly, Owed, NothingOwed

LEMMA StreamCards ==
    ASSUME OneTab, TypeOK, CardInv, NEW h \in Requests,
           GraphInterrupts(h) \/ GraphCompletes(h) \/ ToolCheckpoint(h)
    PROVE  CardInv'
<1> USE GatewayAssumption DEF TypeOK
<1> DEFINE t == RunThread(h)
<1>1. /\ Active(h) /\ pc[h] \in {"stream", "resumed"}
      /\ UNCHANGED <<store, pendingApprovals, stopped>>
  BY DEF GraphInterrupts, GraphCompletes, ToolCheckpoint, Active
<1>2. /\ CardsOf(h) /\ FrameAt(pc[h], loc[h]) /\ loc[h] \in LocalState
      /\ \A g \in Requests : g # h => ~Active(g)
  BY <1>1, Alone
<1>3. Approval(h) \/ loc[h].kind \in {"send", "retry"}
  BY <1>1, <1>2 DEF FrameAt, LocalState, Approval, ApprovalKinds
<1>4. loc[h].kind \in {"send", "retry"} => pc[h] = "stream" /\ NoCard /\ NothingOwed /\ NoCard'
  BY <1>1, <1>2 DEF FrameAt, CardsOf, RunCards, ApprovalKinds, NoCard
<1>5. t \in Requests /\ OwedOnly(t)
  <2>1. t \in Requests
    BY <1>1, <1>2, RunThreadType DEF FrameAt
  <2>2. Approval(h) => OwedOnly(loc[h].card.thread)
    BY <1>1, <1>2 DEF CardsOf, ApprovalCards, Shown
  <2>3. NothingOwed => OwedOnly(t)
    BY DEF NothingOwed, OwedOnly
  <2> QED BY <1>1, <1>3, <1>4, <2>1, <2>2, <2>3, AnswerFrame
<1>6. interrupt \in [Requests -> Requests \cup {None}]
  BY DEF DataOK
<1>7. loc'[h] = loc[h] => RunThread(h)' = t /\ (Approval(h)' <=> Approval(h))
  BY DEF RunThread, Approval
<1> HIDE DEF t
<1>8. CASE GraphInterrupts(h)
  <2>1. /\ interrupt'[t] = h /\ \A u : u = t => OwedOnly(u)'
    BY <1>1, <1>5, <1>6, <1>8, ThreadMoves DEF GraphInterrupts, t
  <2>2. ASSUME NEW p \in {"saveCard", "cancelTry"}, pc'[h] = p, loc'[h] = loc[h]
        PROVE  CardsOf(h)'
    <3>1. NewCard(h)'
      BY <1>7, <2>1, <2>2 DEF NewCard
    <3>2. loc[h].kind \in {"send", "retry"} => RunCards(h)'
      BY <1>4, <1>7, <2>1, <2>2 DEF RunCards
    <3>3. Approval(h) => ApprovalCards(h)'
      BY <1>1, <2>1, <2>2, AnswerFrame DEF ApprovalCards, t
    <3> QED BY <1>1, <1>3, <1>7, <2>2, <3>1, <3>2, <3>3, AnswerFrame DEF CardsOf
  <2> QED BY <1>2, <1>8, <2>2, GotoMoves DEF GraphInterrupts
<1>9. CASE GraphCompletes(h)
  <2>1. /\ interrupt'[t] = None /\ NothingOwed' /\ \A u : u = t => OwedOnly(u)'
    BY <1>1, <1>5, <1>6, <1>9, ThreadMoves DEF GraphCompletes, t
  <2>2. ASSUME NEW p, pc'[h] = p, loc'[h] = loc[h], loc[h].kind \in {"send", "retry"},
               p \notin {"saveCard", "saveCardMessage"}
        PROVE  CardsOf(h)'
    BY <1>4, <1>7, <2>1, <2>2 DEF CardsOf, RunCards, NewCard, Settled, Approval, ApprovalKinds,
       OwedOnly, NothingOwed
  <2>3. ASSUME NEW p \in {"cancelTry", "cancelCatch", "checkInterrupt", "saveAnswer"},
               pc'[h] = p, loc'[h] = loc[h], Approval(h)
        PROVE  CardsOf(h)'
    <3>1. ApprovalCards(h)'
      BY <1>1, <2>1, <2>3, AnswerFrame DEF ApprovalCards, t
    <3> QED BY <1>1, <1>7, <2>3, <3>1, AnswerFrame DEF CardsOf, NewCard
  <2>4. \/ Goto(h, "cancelTry") \/ Goto(h, "saveAnswer") \/ Goto(h, OnError(h, FALSE))
        \/ Goto(h, "saveRetried") /\ loc[h].kind = "retry"
    BY <1>9 DEF GraphCompletes
  <2>5. OnError(h, FALSE) # "saveRetried"
    BY DEF OnError
  <2>6. ASSUME NEW p \in {"cancelTry", "saveRetried", "saveAnswer", OnError(h, FALSE)},
               Goto(h, p), p = "saveRetried" => loc[h].kind = "retry"
        PROVE  CardInv'
    <3>1. p \notin {"saveCard", "saveCardMessage", "idle", "done"}
      BY <1>1, <1>2, <1>3, <2>6, AnswerFrame DEF OnError, FrameAt
    <3>2. Approval(h) => OnError(h, FALSE) \in {"cancelCatch", "checkInterrupt"}
      BY <1>1, <1>9, AnswerFrame DEF OnError, InCatch, GraphCompletes
    <3>3. Approval(h) => p \in {"cancelTry", "cancelCatch", "checkInterrupt", "saveAnswer"}
      BY <1>1, <2>6, <3>2, AnswerFrame
    <3> QED BY <1>2, <1>3, <2>2, <2>3, <2>6, <3>1, <3>3, GotoMoves
  <2> QED BY <2>4, <2>5, <2>6
<1>10. CASE ToolCheckpoint(h)
  <2>1. /\ interrupt'[t] = None /\ \A u : u = t => OwedOnly(u)'
    BY <1>1, <1>5, <1>6, <1>10, ThreadMoves DEF ToolCheckpoint, t
  <2>2. Approval(h)
    BY <1>2, <1>10 DEF ToolCheckpoint, FrameAt, Approval
  <2>3. ASSUME pc'[h] = "stream", loc'[h] = loc[h] PROVE CardsOf(h)'
    <3>1. ApprovalCards(h)'
      BY <1>1, <2>1, <2>2, <2>3, AnswerFrame DEF ApprovalCards, t
    <3> QED BY <1>1, <1>7, <2>2, <2>3, <3>1, AnswerFrame DEF CardsOf, NewCard
  <2> QED BY <1>2, <1>10, <2>3, GotoMoves DEF ToolCheckpoint
<1> QED BY <1>8, <1>9, <1>10

(* One instance: a card put into or taken out of the memory of the handler *)
(* that runs is put into or taken out of all of it.                        *)
LEMMA MemoryMoves ==
    ASSUME OneTab, TypeOK, NEW h \in Requests, Here(h) \in Instances, NEW c,
           pendingApprovals' = [pendingApprovals EXCEPT ![Here(h)] = c]
    PROVE  \A i \in Instances : pendingApprovals'[i] = c
BY DEF OneTab, TypeOK, DataOK

LEMMA WrittenCards ==
    ASSUME OneTab, TypeOK, CardInv, NEW h \in Requests,
           \/ SaveCard(h) \/ SaveCardMessage(h) \/ CancelGeneration(h)
           \/ DeleteStore(h) \/ DeleteMemory(h) \/ CheckInterrupt(h) \/ ResaveCard(h)
    PROVE  CardInv'
<1> USE GatewayAssumption DEF TypeOK
<1> DEFINE t == RunThread(h)
<1>1. /\ Active(h) /\ interrupt' = interrupt
      /\ pc[h] \in {"saveCard", "saveCardMessage", "cancelTry", "cancelCatch", "deleteStore",
                    "deleteStoreCatch", "deleteStoreOnly", "deleteMemory", "checkInterrupt",
                    "resave"}
  BY DEF SaveCard, SaveCardMessage, CancelGeneration, DeleteStore, DeleteMemory,
     CheckInterrupt, ResaveCard, Active
<1>2. /\ CardsOf(h) /\ FrameAt(pc[h], loc[h]) /\ loc[h] \in LocalState
      /\ \A g \in Requests : g # h => ~Active(g)
  BY <1>1, Alone
<1>3. /\ Approval(h) \/ loc[h].kind \in {"send", "retry"}
      /\ t \in Requests /\ Here(h) \in Instances
  <2>1. loc[h].kind # "join" /\ loc[h].kind # "none" /\ Here(h) \in Instances
    BY <1>1, <1>2 DEF FrameAt, Here
  <2>2. t \in Requests
    BY <1>1, <2>1, RunThreadType
  <2> QED BY <1>2, <2>1, <2>2 DEF LocalState, Approval, ApprovalKinds
<1>4. loc'[h] = loc[h] => RunThread(h)' = t /\ (Approval(h)' <=> Approval(h))
  BY DEF RunThread, Approval
<1> HIDE DEF t
<1>5. CASE SaveCard(h)
  <2>1. /\ interrupt[t] = h /\ OwedOnly(t) /\ stopped' = stopped
        /\ store' = [id |-> h, thread |-> t]
    BY <1>2, <1>5 DEF SaveCard, CardsOf, NewCard, t
  <2>2. \A u : OwedOnly(u) => OwedOnly(u)'
    BY <1>1, <2>1 DEF OwedOnly, Owed
  <2>3. ASSUME pc'[h] = "saveCardMessage", loc'[h] = loc[h] PROVE CardsOf(h)'
    <3>1. NewCard(h)'
      BY <1>1, <1>4, <2>1, <2>2, <2>3 DEF NewCard
    <3>2. RunCards(h)' /\ ApprovalCards(h)'
      BY <2>3 DEF RunCards, ApprovalCards
    <3> QED BY <1>3, <2>3, <3>1, <3>2 DEF CardsOf, Approval, ApprovalKinds
  <2> QED BY <1>2, <1>5, <2>3, GotoMoves DEF SaveCard
<1>6. CASE SaveCardMessage(h)
  <2> DEFINE c == [id |-> h, thread |-> t]
  <2>1. /\ interrupt[t] = h /\ OwedOnly(t) /\ store = c
        /\ UNCHANGED <<store, stopped>>
    BY <1>2, <1>6 DEF SaveCardMessage, CardsOf, NewCard, t
  <2>2. \A i \in Instances : pendingApprovals'[i] = c
    BY <1>3, <1>6, MemoryMoves DEF SaveCardMessage, t
  <2>3. \A u : u = t => OwedOnly(u)'
    BY <1>1, <2>1 DEF OwedOnly, Owed
  <2>4. Settled'
    <3>1. c \in Card /\ c.id = h /\ c.thread = t
      BY <1>3 DEF Card
    <3>2. store' = c /\ interrupt'[t] = h
      BY <1>1, <2>1
    <3> HIDE DEF c
    <3>3. Shown(store)'
      BY <2>2, <2>3, <3>1, <3>2 DEF Shown
    <3> QED BY <3>1, <3>2, <3>3 DEF Settled
  <2>5. ASSUME NEW p \in {"completeIfFailed", "finally"}, pc'[h] = p, loc'[h] = loc[h]
        PROVE  CardsOf(h)'
    BY <1>3, <2>4, <2>5 DEF CardsOf, RunCards, ApprovalCards, NewCard, Approval, ApprovalKinds
  <2> QED BY <1>2, <1>6, <2>5, GotoMoves DEF SaveCardMessage
<1>7. CASE CancelGeneration(h)
  <2>1. OwedOnly(t)
    BY <1>1, <1>2, <1>3, <1>7, AnswerFrame DEF CancelGeneration, CardsOf, RunCards, ApprovalCards, t
  <2>2. NothingOwed'
    BY <1>1, <1>7, <2>1 DEF CancelGeneration, NothingOwed, OwedOnly, Owed, t
  <2>3. CASE ~Approval(h)
    <3>1. NoCard /\ NoCard'
      BY <1>2, <1>3, <1>7, <2>3 DEF CancelGeneration, CardsOf, RunCards, NoCard
    <3>2. ASSUME pc'[h] = "finally", loc'[h] = loc[h] PROVE CardsOf(h)'
      BY <1>3, <2>2, <2>3, <3>1, <3>2 DEF CardsOf, RunCards, NewCard, Approval, ApprovalKinds,
         Settled
    <3> QED BY <1>2, <1>7, <2>3, <3>2, GotoMoves DEF CancelGeneration
  <2>4. CASE Approval(h)
    <3>1. ASSUME NEW p \in {"deleteStore", "deleteStoreCatch"}, pc'[h] = p, loc'[h] = loc[h]
          PROVE  CardsOf(h)'
      BY <1>1, <2>2, <2>4, <3>1, AnswerFrame DEF CardsOf, ApprovalCards, NewCard, Approval
    <3> QED BY <1>2, <1>7, <2>4, <3>1, GotoMoves DEF CancelGeneration
  <2> QED BY <2>3, <2>4
<1>8. CASE DeleteStore(h)
  <2>1. Approval(h)
    BY <1>2, <1>8 DEF DeleteStore, FrameAt, Approval
  <2>2. /\ NothingOwed /\ UNCHANGED <<pendingApprovals, stopped>> /\ store' = None
        /\ pc[h] = "deleteStoreOnly" => \A i \in Instances : pendingApprovals[i] = None
    BY <1>2, <1>8, <2>1 DEF DeleteStore, CardsOf, ApprovalCards
  <2>3. NothingOwed'
    BY <1>1, <2>2 DEF NothingOwed, Owed
  <2>4. ASSUME pc[h] = "deleteStoreOnly", pc'[h] = "finally", loc'[h] = loc[h]
        PROVE  CardsOf(h)'
    BY <1>1, <2>1, <2>2, <2>3, <2>4, AnswerFrame DEF CardsOf, ApprovalCards, NewCard, Approval,
       Settled, NoCard
  <2>5. ASSUME pc'[h] = "deleteMemory", loc'[h] = loc[h] PROVE CardsOf(h)'
    BY <1>1, <2>1, <2>2, <2>3, <2>5, AnswerFrame DEF CardsOf, ApprovalCards, NewCard, Approval
  <2> QED BY <1>2, <1>8, <2>4, <2>5, GotoMoves DEF DeleteStore
<1>9. CASE DeleteMemory(h)
  <2>1. Approval(h)
    BY <1>2, <1>9 DEF DeleteMemory, FrameAt, Approval
  <2>2. NothingOwed /\ UNCHANGED <<store, stopped>> /\ store = None
    BY <1>2, <1>9, <2>1 DEF DeleteMemory, CardsOf, ApprovalCards
  <2>3. NoCard' /\ NothingOwed'
    BY <1>1, <1>3, <1>9, <2>2, MemoryMoves DEF DeleteMemory, NoCard, NothingOwed, Owed
  <2>4. ASSUME pc'[h] = "finally", loc'[h] = loc[h] PROVE CardsOf(h)'
    BY <1>1, <2>1, <2>3, <2>4, AnswerFrame DEF CardsOf, ApprovalCards, NewCard, Approval, Settled
  <2> QED BY <1>2, <1>9, <2>4, GotoMoves DEF DeleteMemory
<1>10. CASE CheckInterrupt(h)
  <2> DEFINE c == loc[h].card
  <2>1. Approval(h)
    BY <1>2, <1>10 DEF CheckInterrupt, FrameAt, Approval
  <2>2. c.thread = t /\ c \in Card
    BY <1>1, <2>1, AnswerFrame DEF t
  <2>3. interrupt[t] \in {None, c.id} /\ OwedOnly(t) /\ UNCHANGED <<store, stopped>>
    BY <1>2, <1>10, <2>1, <2>2 DEF CheckInterrupt, CardsOf, ApprovalCards
  <2>4. \A u : u = t => OwedOnly(u)'
    BY <1>1, <2>3 DEF OwedOnly, Owed
  <2>5. CASE interrupt[t] # None
    <3>1. ASSUME pc'[h] = "resave", loc'[h] = loc[h] PROVE CardsOf(h)'
      BY <1>1, <2>1, <2>2, <2>3, <2>4, <2>5, <3>1, AnswerFrame
         DEF CardsOf, ApprovalCards, NewCard, Approval
    <3> QED BY <1>2, <1>10, <2>5, <3>1, GotoMoves DEF CheckInterrupt, t
  <2>6. CASE interrupt[t] = None
    <3>1. NothingOwed'
      BY <1>1, <2>3, <2>6 DEF NothingOwed, OwedOnly, Owed
    <3>2. \A i \in Instances : pendingApprovals'[i] = None
      BY <1>3, <1>10, <2>6, MemoryMoves DEF CheckInterrupt, t
    <3>3. ASSUME pc'[h] = "deleteStoreOnly", loc'[h] = loc[h] PROVE CardsOf(h)'
      BY <1>1, <2>1, <3>1, <3>2, <3>3, AnswerFrame DEF CardsOf, ApprovalCards, NewCard, Approval
    <3> QED BY <1>2, <1>10, <2>6, <3>3, GotoMoves DEF CheckInterrupt, t
  <2> QED BY <2>5, <2>6
<1>11. CASE ResaveCard(h)
  <2> DEFINE c == loc[h].card
  <2>1. Approval(h)
    BY <1>2, <1>11 DEF ResaveCard, FrameAt, Approval
  <2>2. c \in Card /\ interrupt[c.thread] = c.id /\ OwedOnly(c.thread)
    BY <1>1, <1>2, <1>11, <2>1, AnswerFrame DEF ResaveCard, CardsOf, ApprovalCards
  <2>3. store' = c /\ stopped' = stopped /\ \A i \in Instances : pendingApprovals'[i] = c
    BY <1>3, <1>11, MemoryMoves DEF ResaveCard
  <2> HIDE DEF c
  <2>4. \A u : u = c.thread => OwedOnly(u)'
    BY <1>1, <2>2, <2>3 DEF OwedOnly, Owed
  <2>5. Settled'
    BY <1>1, <2>2, <2>3, <2>4 DEF Settled, Shown
  <2>6. ASSUME pc'[h] = "finally", loc'[h] = loc[h] PROVE CardsOf(h)'
    BY <1>1, <2>1, <2>5, <2>6, AnswerFrame DEF CardsOf, ApprovalCards, NewCard, Approval
  <2> QED BY <1>2, <1>11, <2>6, GotoMoves DEF ResaveCard
<1> QED BY <1>5, <1>6, <1>7, <1>8, <1>9, <1>10, <1>11

(* A join finds the card that is shown, and its interrupt pending.         *)
LEMMA JoinedCards ==
    ASSUME OneTab, TypeOK, CardInv, NEW h \in Requests,
           RestorePendingApproval(h) \/ DropStoredApproval(h)
    PROVE  CardInv'
<1> USE GatewayAssumption DEF TypeOK
<1>1. Active(h) /\ pc[h] \in {"joinCheck", "joinDelete"}
  BY DEF RestorePendingApproval, DropStoredApproval, Active
<1>2. /\ CardsOf(h) /\ FrameAt(pc[h], loc[h])
      /\ \A g \in Requests : g # h => ~Active(g)
  BY <1>1, Alone
<1>3. /\ loc[h].kind = "join" /\ Here(h) \in Instances /\ Settled
      /\ pc[h] = "joinCheck" /\ loc[h].card \in Card /\ store = loc[h].card
  BY <1>1, <1>2 DEF FrameAt, Here, CardsOf, JoinCards
<1>4. Shown(store) /\ interrupt[store.thread] # None
  BY <1>3 DEF Settled, Shown, NoCard, Card
<1>5. /\ Goto(h, "done") /\ UNCHANGED <<store, interrupt, stopped>>
      /\ pendingApprovals' = [pendingApprovals EXCEPT ![Here(h)] = store]
  BY <1>3, <1>4 DEF RestorePendingApproval, DropStoredApproval
<1>6. \A i \in Instances : pendingApprovals'[i] = pendingApprovals[i]
  BY <1>3, <1>4, <1>5, MemoryMoves DEF Shown
<1>7. Settled'
  BY <1>3, <1>4, <1>5, <1>6 DEF Settled, Shown, OwedOnly, Owed
<1> QED BY <1>2, <1>5, <1>7, GotoMoves

LEMMA StepCards ==
    ASSUME OneTab, TypeOK, CardInv, [Next]_vars
    PROVE  CardInv'
<1>1. ASSUME NEW h \in Requests, ClientEvent(h) PROVE CardInv'
  BY <1>1, EventCards
<1>2. ASSUME NEW h \in Requests, HandlerStep(h) PROVE CardInv'
  BY <1>2, QuietCards, StreamCards, WrittenCards, JoinedCards DEF WritesCards
<1>3. ASSUME NEW i \in Instances PROVE ~Crash(i)
  BY DEF Crash, OneTab, TypeOK, DataOK
<1>4. CASE LockExpires \/ UNCHANGED vars
  <2>1. UNCHANGED <<pc, loc, cards>>
    BY <1>4 DEF LockExpires, vars, cards
  <2>2. \A g \in Requests : /\ Active(g)' <=> Active(g)
                            /\ CardsOf(g) => CardsOf(g)'
    BY <2>1, SamePlace DEF Active
  <2> QED BY <2>1, <2>2, CardsStill DEF CardInv, Quiet
<1> QED BY <1>1, <1>2, <1>3, <1>4 DEF Next

LEMMA CardsHold == ASSUME OneTab PROVE Spec => []CardInv
<1>1. Init => CardInv
  BY GatewayAssumption DEF Init, CardInv, Active, Settled, NoCard, NothingOwed, Owed
<1>2. TypeOK /\ CardInv /\ [Next]_vars => CardInv'
  BY StepCards
<1> QED BY <1>1, <1>2, TypeCorrect, PTL DEF Spec

(* One client that waits for its answers, on one instance that neither     *)
(* fails nor crashes, can answer every interrupt that waits for him        *)
(* whenever nothing runs, however often he stops runs (run                 *)
(* gateway_one_tab).                                                       *)
THEOREM ApprovalsRecoverableHolds ==
    ASSUME OneTab PROVE Spec => []ApprovalsRecoverable
<1>1. CardInv => ApprovalsRecoverable
  <2> SUFFICES ASSUME CardInv, Quiet, NEW t \in Requests, Owed(t)
               PROVE  store = [id |-> interrupt[t], thread |-> t]
    BY DEF ApprovalsRecoverable, Owed
  <2>1. store \in Card /\ Shown(store)
    BY DEF CardInv, Settled, NothingOwed
  <2>2. store.thread = t /\ store.id = interrupt[t]
    BY <2>1 DEF Shown, OwedOnly
  <2> QED BY <2>1, <2>2 DEF Card
<1> QED BY <1>1, CardsHold, PTL

(* Under the same conditions the card in memory is the stored one whenever *)
(* nothing runs: a restart would not change what he can answer.            *)
THEOREM MemoryIsBackedHolds == ASSUME OneTab PROVE Spec => []MemoryIsBacked
<1>1. CardInv => MemoryIsBacked
  BY DEF CardInv, MemoryIsBacked, Settled, NoCard, Shown
<1> QED BY <1>1, CardsHold, PTL

(***************************************************************************)
(* The answers of that client.  A message that its own run may still       *)
(* answer has no answer; neither has the message of a card that can be     *)
(* approved, and it is COMPLETED (Good).                                   *)
(***************************************************************************)
Unanswered(t) == \A a \in answers : a.to # t
Good(t)       == Unanswered(t) /\ msg[t] = "COMPLETED"
StoreGood     == store # None => Good(store.thread)

(* What holds of its messages while handler h stands at p with locals f.   *)
SettleAt(h, p, f) ==
    /\ f.kind = "send" =>
         /\ p # "finally" => Unanswered(h)
         /\ p \notin {"rateLimit", "saveUser", "finally"} => msg[h] = "COMPLETED"
    /\ f.kind = "retry" =>
         /\ p \notin {"rateLimit", "checkRetryable", "finally"} => msg[f.target] = "FAILED"
         /\ p = "completeIfFailed" => store # None /\ store.thread = f.target
    /\ /\ f.kind \in ApprovalKinds
       /\ p \notin {"deleteStore", "deleteStoreCatch", "deleteStoreOnly", "deleteMemory",
                    "finally", "release"}
       => Good(f.card.thread)
    /\ f.kind = "chat" => f.card.thread # h /\ Unanswered(h)
    /\ p \in {"finally", "release"} \cup JoinPcs => StoreGood

SettleOf(h) == SettleAt(h, pc[h], loc[h])

SettleInv ==
    /\ AnswerSettles
    /\ Quiet => StoreGood
    /\ \A h \in Requests : pc[h] = "idle" => msg[h] = "none" /\ Unanswered(h)
    /\ \A h \in Requests : Active(h) => SettleOf(h)

LEMMA SettleStill ==
    ASSUME UNCHANGED db
    PROVE  /\ AnswerSettles' <=> AnswerSettles
           /\ StoreGood' <=> StoreGood
           /\ \A t : (Unanswered(t)' <=> Unanswered(t)) /\ (Good(t)' <=> Good(t))
BY DEF AnswerSettles, StoreGood, Unanswered, Good

LEMMA SettleMoves ==
    ASSUME TypeOK, SettleInv, NEW h \in Requests, NEW p, NEW f, Enter(h, p, f), p # "idle",
           \A g \in Requests : g # h => ~Active(g),
           AnswerSettles',
           \A g \in Requests : g # h /\ pc[g] = "idle"
                                => msg'[g] = "none" /\ \A a \in answers' : a.to # g,
           p = "done" => StoreGood',
           pc'[h] = p /\ loc'[h] = f /\ p # "done" => SettleOf(h)'
    PROVE  SettleInv'
<1>1. /\ pc'[h] = p /\ loc'[h] = f
      /\ \A g \in Requests : g # h => pc'[g] = pc[g] /\ loc'[g] = loc[g]
  BY DEF Enter, TypeOK, HandlersOK
<1>2. \A g \in Requests : Active(g)' => g = h /\ p # "done"
  BY <1>1 DEF Active
<1>3. Quiet' => StoreGood'
  BY <1>1 DEF Quiet, Active
<1>4. ASSUME NEW g \in Requests, pc'[g] = "idle" PROVE msg'[g] = "none" /\ Unanswered(g)'
  BY <1>1, <1>4 DEF Unanswered
<1>5. ASSUME NEW g \in Requests, Active(g)' PROVE SettleOf(g)'
  BY <1>1, <1>2, <1>5
<1> QED BY <1>3, <1>4, <1>5 DEF SettleInv

(* A handler that goes on without writing a status, an answer or the row.  *)
LEMMA SettleEnter ==
    ASSUME TypeOK, SettleInv, NEW h \in Requests, NEW p, NEW f, Enter(h, p, f), p # "idle",
           \A g \in Requests : g # h => ~Active(g), UNCHANGED db,
           p = "done" => StoreGood, p # "done" => SettleAt(h, p, f)
    PROVE  SettleInv'
<1>1. AnswerSettles' /\ (p = "done" => StoreGood')
  BY SettleStill DEF SettleInv
<1>2. \A g \in Requests : pc[g] = "idle" => msg'[g] = "none" /\ \A a \in answers' : a.to # g
  BY DEF SettleInv, Unanswered
<1>3. ASSUME pc'[h] = p, loc'[h] = f, p # "done" PROVE SettleOf(h)'
  BY <1>3, SettleStill DEF SettleOf, SettleAt
<1> QED BY <1>1, <1>2, <1>3, SettleMoves

LEMMA SettleGoto ==
    ASSUME TypeOK, CardInv, SettleInv, NEW h \in Requests, NEW p, Goto(h, p), p # "idle",
           Active(h), UNCHANGED db, p = "done" => StoreGood,
           p # "done" => SettleAt(h, p, loc[h])
    PROVE  SettleInv'
BY Alone, SettleEnter DEF Goto

LEMMA EventSettles ==
    ASSUME OneTab, TypeOK, CardInv, SettleInv, NEW h \in Requests, ClientEvent(h)
    PROVE  SettleInv'
<1> USE GatewayAssumption DEF TypeOK
<1>0. PICK i \in Instances : \/ SendMessage(h, i) \/ RetryMessage(h, i)
                             \/ RespondAgentApproval(h, i)
                             \/ StopGeneration(h, i) \/ JoinRoom(h, i)
  BY DEF ClientEvent
<1>1. CASE StopGeneration(h, i)
  <2>1. /\ pc[h] = "idle" /\ pc'[h] = "done" /\ UNCHANGED db
        /\ \A g \in Requests : g # h => pc'[g] = pc[g]
    BY <1>1 DEF StopGeneration, Arrives, HandlersOK
  <2>2. \A g \in Requests : /\ loc'[g].kind = loc[g].kind /\ loc'[g].card = loc[g].card
                            /\ loc'[g].target = loc[g].target
    BY <1>1 DEF StopGeneration, HandlersOK, LocalState
  <2>3. \A g \in Requests : /\ Active(g)' <=> Active(g)
                            /\ Active(g) => pc'[g] = pc[g]
                            /\ pc'[g] = "idle" => pc[g] = "idle"
    BY <2>1 DEF Active
  <2>4. Quiet' => StoreGood'
    BY <2>1, <2>3, SettleStill DEF SettleInv, Quiet
  <2>5. ASSUME NEW g \in Requests, Active(g)' PROVE SettleOf(g)'
    <3>1. SettleOf(g) /\ pc'[g] = pc[g]
      BY <2>3, <2>5 DEF SettleInv
    <3> QED BY <2>1, <2>2, <3>1, SettleStill DEF SettleOf, SettleAt
  <2>6. \A g \in Requests : pc'[g] = "idle" => msg'[g] = "none" /\ Unanswered(g)'
    BY <2>1, <2>3, SettleStill DEF SettleInv
  <2>7. AnswerSettles'
    BY <2>1, SettleStill DEF SettleInv
  <2> QED BY <2>4, <2>5, <2>6, <2>7 DEF SettleInv
<1>2. CASE ~StopGeneration(h, i)
  <2>1. pc[h] = "idle" /\ UNCHANGED db /\ Quiet
    BY <1>0, <1>2 DEF OneTab, SendMessage, RetryMessage, RespondAgentApproval, JoinRoom,
       Arrives, Quiet
  <2>2. /\ StoreGood /\ Settled /\ msg[h] = "none" /\ Unanswered(h)
        /\ \A g \in Requests : ~Active(g)
    BY <2>1 DEF SettleInv, CardInv, Quiet
  <2>3. ASSUME pendingApprovals[i] # None
        PROVE  Good(pendingApprovals[i].thread) /\ pendingApprovals[i].thread # h
    BY <2>2, <2>3 DEF Settled, NoCard, Shown, StoreGood, Good
  <2>4. CASE Goto(h, "done")
    BY <2>1, <2>2, <2>4, SettleEnter DEF Goto
  <2>5. ASSUME NEW kind \in {"send", "retry"}, NEW m,
               Enter(h, "rateLimit", Frame(i, kind, m, None))
        PROVE  SettleInv'
    <3>1. SettleAt(h, "rateLimit", Frame(i, kind, m, None))
      BY <2>2 DEF SettleAt, Frame, ApprovalKinds
    <3> QED BY <2>1, <2>2, <2>5, <3>1, SettleEnter
  <2>6. ASSUME NEW kind \in ApprovalKinds, pendingApprovals[i] # None,
               Enter(h, "acquire", Frame(i, kind, None, pendingApprovals[i]))
        PROVE  SettleInv'
    <3>1. SettleAt(h, "acquire", Frame(i, kind, None, pendingApprovals[i]))
      BY <2>2, <2>3, <2>6 DEF SettleAt, Frame, ApprovalKinds
    <3> QED BY <2>1, <2>2, <2>6, <3>1, SettleEnter
  <2>7. CASE JoinRoom(h, i)
    <3> DEFINE p == IF pendingApprovals[i] = None THEN "joinFind" ELSE "joinCheck"
    <3>1. Enter(h, p, Frame(i, "join", None, pendingApprovals[i]))
      BY <2>7 DEF JoinRoom
    <3>2. SettleAt(h, p, Frame(i, "join", None, pendingApprovals[i]))
      BY <2>2 DEF SettleAt, Frame, ApprovalKinds
    <3>3. p \notin {"idle", "done"}
      OBVIOUS
    <3> HIDE DEF p
    <3> QED BY <2>1, <2>2, <3>1, <3>2, <3>3, SettleEnter
  <2> QED BY <1>0, <1>2, <2>4, <2>5, <2>6, <2>7 DEF SendMessage, RetryMessage,
      RespondAgentApproval, ApprovalKinds
<1> QED BY <1>1, <1>2

(* What the invariants say of a handler that takes a step.                 *)
LEMMA StandingAt ==
    ASSUME OneTab, TypeOK, CardInv, SettleInv, NEW h \in Requests, Active(h)
    PROVE  /\ CardsOf(h) /\ SettleOf(h) /\ FrameAt(pc[h], loc[h])
           /\ \A g \in Requests : g # h => ~Active(g)
           /\ loc[h].kind \in {"send", "retry", "join"} \cup ApprovalKinds
BY Alone, FrameFields DEF TypeOK, SettleInv, LocalState, FrameAt, ApprovalKinds, Active

(* What the messages of handler h at p say of it at q, when nothing new is *)
(* asked of them there.                                                    *)
LEMMA SameSettleAt ==
    ASSUME NEW h, NEW p, NEW q, NEW f, SettleAt(h, p, f),
           p \notin {"finally", "rateLimit", "saveUser", "checkRetryable", "deleteStore",
                     "deleteStoreCatch", "deleteStoreOnly", "deleteMemory", "release"},
           q = "completeIfFailed" => f.kind = "retry" /\ store # None /\ store.thread = f.target,
           q \in {"finally", "release"} \cup JoinPcs => StoreGood
    PROVE  SettleAt(h, q, f)
BY DEF SettleAt

(* The steps of a handler that write none of these.                        *)
WritesDb(h) ==
    \/ SaveUserMessage(h) \/ SaveCard(h) \/ SaveAnswer(h) \/ CancelGeneration(h)
    \/ FailGeneration(h) \/ CompleteUserMessageIfFailed(h)
    \/ SaveRetriedAssistantMessage(h) \/ ResolveDecision(h) \/ DeleteStore(h)
    \/ ResaveCard(h) \/ DropStoredApproval(h)

LEMMA ReadersSettle ==
    ASSUME OneTab, TypeOK, CardInv, SettleInv, NEW h \in Requests, HandlerStep(h),
           ~WritesDb(h)
    PROVE  SettleInv'
<1>0. Active(h) /\ ~DatabaseFails(h)
  BY StepsActive DEF OneTab, DatabaseFails
<1> DEFINE f == loc[h]
<1>1. /\ CardsOf(h) /\ SettleAt(h, pc[h], f) /\ FrameAt(pc[h], f)
      /\ \A g \in Requests : g # h => ~Active(g)
      /\ f.kind \in {"send", "retry", "join"} \cup ApprovalKinds
  BY <1>0, StandingAt DEF SettleOf
<1>2. ASSUME f.kind \in {"send", "retry"},
             pc[h] \notin {"completeIfFailed", "finally", "cancelTry", "cancelCatch",
                           "saveCard", "saveCardMessage"}
      PROVE  StoreGood
  BY <1>1, <1>2 DEF CardsOf, RunCards, NoCard, StoreGood
<1>3. ASSUME NEW p \in Pcs \ {"idle", "done", "completeIfFailed", "finally", "release"},
             p \notin JoinPcs, Goto(h, p), UNCHANGED db,
             pc[h] \in {"prepare", "stream", "getState", "acquire", "resume", "resumed",
                        "checkInterrupt"}
      PROVE  SettleInv'
  <2>1. SettleAt(h, p, f)
    BY <1>1, <1>3, SameSettleAt
  <2> QED BY <1>0, <1>3, <2>1, SettleGoto
<1>4. CASE RateLimitRejects(h)
  BY <1>0, <1>1, <1>2, <1>4, SettleGoto DEF RateLimitRejects, FrameAt, ApprovalKinds
<1>5. CASE RateLimitAllowsSend(h)
  <2>1. SettleAt(h, "saveUser", f)
    BY <1>1, <1>5 DEF RateLimitAllowsSend, SettleAt, ApprovalKinds
  <2>2. StoreGood
    BY <1>2, <1>5 DEF RateLimitAllowsSend
  <2> QED BY <1>0, <1>5, <2>1, <2>2, SettleGoto DEF RateLimitAllowsSend
<1>6. CASE RateLimitAllowsRetry(h)
  <2>1. SettleAt(h, "checkRetryable", f)
    BY <1>6 DEF RateLimitAllowsRetry, SettleAt, ApprovalKinds
  <2> QED BY <1>0, <1>6, <2>1, SettleGoto DEF RateLimitAllowsRetry
<1>7. CASE PrepareContext(h) \/ DeltaAfterStop(h) \/ GraphInterrupts(h)
  BY <1>3, <1>7 DEF PrepareContext, DeltaAfterStop, GraphInterrupts
<1>8. CASE GraphStarts(h)
  <2>1. UNCHANGED <<pc, loc, db>>
    BY <1>8 DEF GraphStarts
  <2>2. \A g \in Requests : SettleOf(g)' <=> SettleOf(g)
    BY <2>1, SettleStill DEF SettleOf, SettleAt
  <2> QED BY <2>1, <2>2, SettleStill DEF SettleInv, Quiet, Active
<1>9. ASSUME NEW e \in BOOLEAN, pc[h] \in {"stream", "resume", "resumed"}, UNCHANGED db,
             Goto(h, OnError(h, e))
      PROVE  SettleInv'
  <2> DEFINE p == OnError(h, e)
  <2>1. p \in {"finally", "cancelCatch", "failGen", "checkInterrupt"}
    BY <1>1, <1>9 DEF OnError, FrameAt, InCatch, ApprovalKinds
  <2>2. p = "finally" => StoreGood
    BY <1>1, <1>2, <1>9 DEF OnError, InCatch
  <2>3. SettleAt(h, p, f)
    <3> HIDE DEF p
    <3> QED BY <1>1, <1>9, <2>1, <2>2, SameSettleAt
  <2>4. Goto(h, p)
    BY <1>9
  <2> HIDE DEF p
  <2> QED BY <1>0, <1>9, <2>1, <2>3, <2>4, SettleGoto
<1>10. CASE GraphCompletes(h) \/ GraphFails(h) \/ ResumeFindsNothing(h)
  <2>1. pc[h] \in {"stream", "resume", "resumed"} /\ UNCHANGED db
    BY <1>10 DEF GraphCompletes, GraphFails, ResumeFindsNothing
  <2>2. ASSUME NEW p \in {"cancelTry", "saveRetried", "saveAnswer", "stream"}, Goto(h, p)
        PROVE  SettleInv'
    BY <1>3, <2>1, <2>2
  <2>6. ASSUME NEW e \in BOOLEAN, Goto(h, OnError(h, e)) PROVE SettleInv'
    BY <1>9, <2>1, <2>6
  <2>3. CASE GraphCompletes(h)
    BY <2>2, <2>3, <2>6 DEF GraphCompletes
  <2>4. CASE GraphFails(h)
    BY <1>9, <2>1, <2>4, FrameFields DEF GraphFails, TypeOK, LocalState
  <2>5. CASE ResumeFindsNothing(h)
    BY <2>2, <2>5, <2>6 DEF ResumeFindsNothing
  <2> QED BY <1>10, <2>3, <2>4, <2>5
<1>11. CASE SaveCardMessage(h)
  <2>1. pc[h] = "saveCardMessage" /\ store = OwnCard(h) /\ UNCHANGED db
    BY <1>1, <1>11 DEF SaveCardMessage, CardsOf, NewCard
  <2>2. store # None /\ store.thread = RunThread(h)
    BY <1>0, <2>1, RunThreadType, <1>1, GatewayAssumption DEF Card, FrameAt, TypeOK
  <2>3. CASE f.kind = "retry"
    <3>1. SettleAt(h, "completeIfFailed", f)
      BY <1>1, <2>1, <2>2, <2>3, SameSettleAt DEF RunThread
    <3> QED BY <1>0, <1>11, <2>1, <2>3, <3>1, SettleGoto DEF SaveCardMessage
  <2>4. CASE f.kind # "retry"
    <3>1. StoreGood
      BY <1>1, <2>1, <2>2, <2>4 DEF SettleAt, StoreGood, Good, RunThread, FrameAt, ApprovalKinds
    <3>2. SettleAt(h, "finally", f)
      BY <1>1, <2>1, <3>1, SameSettleAt
    <3> QED BY <1>0, <1>11, <2>1, <2>4, <3>2, SettleGoto DEF SaveCardMessage
  <2> QED BY <2>3, <2>4
<1>12. CASE Finally(h) \/ ReleaseLock(h)
  <2>1. StoreGood /\ pc[h] \in {"finally", "release"} /\ UNCHANGED db
    BY <1>1, <1>12 DEF Finally, ReleaseLock, SettleAt
  <2>2. Approval(h) => SettleAt(h, "release", f)
    BY <1>1, <2>1 DEF SettleAt, Approval, ApprovalKinds
  <2>3. CASE Goto(h, "done")
    BY <1>0, <2>1, <2>3, SettleGoto
  <2>4. CASE Approval(h) /\ Goto(h, "release")
    BY <1>0, <2>1, <2>2, <2>4, SettleGoto
  <2> QED BY <1>12, <2>3, <2>4 DEF Finally, ReleaseLock
<1>13. CASE GetRetryableUserMessage(h)
  <2>1. f.kind = "retry" /\ StoreGood
    BY <1>1, <1>2, <1>13 DEF GetRetryableUserMessage, FrameAt
  <2>2. SettleAt(h, "finally", f) /\ (msg[f.target] = "FAILED" => SettleAt(h, "getState", f))
    BY <2>1 DEF SettleAt, ApprovalKinds
  <2> QED BY <1>0, <1>13, <2>2, SettleGoto DEF GetRetryableUserMessage
<1>14. CASE RetryReply(h)
  <2>1. f.kind = "retry" /\ StoreGood
    BY <1>1, <1>2, <1>14 DEF RetryReply, FrameAt
  <2>2. SettleAt(h, "finally", f)
    BY <2>1 DEF SettleAt, ApprovalKinds
  <2>3. CASE Goto(h, "finally")
    BY <1>0, <1>14, <2>2, <2>3, SettleGoto DEF RetryReply
  <2>4. ASSUME NEW p \in {"stream", "saveRetried"}, Goto(h, p) PROVE SettleInv'
    BY <1>3, <1>14, <2>4 DEF RetryReply
  <2> QED BY <1>14, <2>3, <2>4 DEF RetryReply
<1>15. CASE \/ Acquire(h) \/ ResumeCommits(h) \/ ResumeWithoutCommit(h) \/ ToolCheckpoint(h)
            \/ CheckInterrupt(h)
  BY <1>3, <1>15 DEF Acquire, ResumeCommits, ResumeWithoutCommit, ToolCheckpoint, CheckInterrupt
<1>16. CASE AcquireRefused(h)
  <2>1. f.kind \in ApprovalKinds /\ pc[h] = "acquire"
    BY <1>1, <1>16 DEF AcquireRefused, FrameAt
  <2>2. StoreGood
    BY <1>1, <2>1 DEF CardsOf, Approval, ApprovalCards, Shown, SettleAt, StoreGood
  <2> QED BY <1>0, <1>16, <2>2, SettleGoto DEF AcquireRefused
<1>17. CASE DeleteMemory(h)
  <2>1. f.kind \in ApprovalKinds /\ pc[h] = "deleteMemory"
    BY <1>1, <1>17 DEF DeleteMemory, FrameAt
  <2>2. StoreGood
    BY <1>1, <2>1 DEF CardsOf, Approval, ApprovalCards, StoreGood
  <2>3. SettleAt(h, "finally", f)
    BY <1>1, <2>1, <2>2 DEF SettleAt, ApprovalKinds
  <2> QED BY <1>0, <1>17, <2>3, SettleGoto DEF DeleteMemory
<1>18. CASE FindStoredApproval(h) \/ RestorePendingApproval(h)
  <2>1. pc[h] \in JoinPcs /\ f.kind = "join" /\ StoreGood
    BY <1>1, <1>18 DEF FindStoredApproval, RestorePendingApproval, FrameAt, SettleAt
  <2>2. CASE Goto(h, "done")
    BY <1>0, <1>18, <2>1, <2>2, SettleGoto DEF FindStoredApproval, RestorePendingApproval
  <2>3. CASE Goto(h, "joinDelete")
    <3>1. SettleAt(h, "joinDelete", f)
      BY <2>1 DEF SettleAt, ApprovalKinds
    <3> QED BY <1>0, <1>18, <2>3, <3>1, SettleGoto DEF FindStoredApproval, RestorePendingApproval
  <2>4. CASE FindStoredApproval(h) /\ Enter(h, "joinCheck", [f EXCEPT !.card = store])
    <3> DEFINE e == [f EXCEPT !.card = store]
    <3>1. e.kind = "join"
      BY <2>1, FrameFields DEF LocalState, TypeOK
    <3>2. Enter(h, "joinCheck", e)
      BY <2>4
    <3> HIDE DEF e
    <3>3. SettleAt(h, "joinCheck", e)
      BY <2>1, <3>1 DEF SettleAt, ApprovalKinds
    <3> QED BY <1>1, <2>4, <3>2, <3>3, SettleEnter DEF FindStoredApproval
  <2> QED BY <1>18, <2>2, <2>3, <2>4 DEF FindStoredApproval, RestorePendingApproval
<1> HIDE DEF f
<1> QED BY <1>0, <1>4, <1>5, <1>6, <1>7, <1>8, <1>10, <1>11, <1>12, <1>13, <1>14, <1>15, <1>16,
       <1>17, <1>18 DEF HandlerStep, HandlerProceeds, WritesDb

(* The steps that write a status, an answer or the row.                    *)
LEMMA WritersSettle ==
    ASSUME OneTab, TypeOK, AnswerInv, CardInv, SettleInv, NEW h \in Requests, HandlerStep(h),
           WritesDb(h)
    PROVE  SettleInv'
<1>0. Active(h)
  BY StepsActive
<1> DEFINE f == loc[h]
<1>1. /\ CardsOf(h) /\ SettleAt(h, pc[h], f) /\ FrameAt(pc[h], f)
      /\ \A g \in Requests : g # h => ~Active(g)
      /\ f.kind \in {"send", "retry", "join"} \cup ApprovalKinds
  BY <1>0, StandingAt DEF SettleOf
<1>2. \A t : msg[t] \in {"COMPLETED", "FAILED"} => \A g \in Requests : pc[g] = "idle" => g # t
  BY DEF SettleInv
<1>3. pc[h] # "idle"
  BY <1>0 DEF Active
<1>4. \A t : msg[t] = "FAILED" => Unanswered(t)
  BY DEF SettleInv, AnswerSettles, Unanswered
<1>5. ASSUME f.kind \in {"send", "retry"},
             pc[h] \in {"cancelTry", "cancelCatch", "failGen", "saveAnswer", "saveRetried"}
      PROVE  store = None
  BY <1>1, <1>5 DEF CardsOf, RunCards, NoCard
(* Only a status changes.                                                  *)
<1>6. ASSUME NEW t, NEW v, StatusIs(t, v), NEW p \in Pcs \ {"idle", "done"}, NEW e,
             Enter(h, p, e), v # "COMPLETED" => Unanswered(t),
             t = h \/ msg[t] \in {"COMPLETED", "FAILED"},
             pc'[h] = p /\ loc'[h] = e => SettleOf(h)'
      PROVE  SettleInv'
  <2>1. AnswerSettles'
    BY <1>6 DEF SettleInv, AnswerSettles, Unanswered, TypeOK, DataOK
  <2>2. \A g \in Requests : g # h /\ pc[g] = "idle"
                             => msg'[g] = "none" /\ \A a \in answers' : a.to # g
    BY <1>2, <1>6 DEF SettleInv, Unanswered
  <2> QED BY <1>1, <1>6, <2>1, <2>2, SettleMoves
(* Only the row changes.                                                   *)
<1>7. ASSUME NEW c, StoreIs(c), NEW p \in Pcs \ {"idle", "done"}, Enter(h, p, f),
             c # None /\ p = "finally" => Good(c.thread),
             p # "completeIfFailed" /\ p # "release" /\ p \notin JoinPcs,
             p # "finally" => SettleAt(h, p, f),
             p = "finally" => f.kind \in ApprovalKinds
      PROVE  SettleInv'
  <2>1. AnswerSettles'
    BY <1>7 DEF SettleInv, AnswerSettles
  <2>2. \A g \in Requests : pc[g] = "idle" => msg'[g] = "none" /\ \A a \in answers' : a.to # g
    BY <1>7 DEF SettleInv, Unanswered
  <2>3. ASSUME pc'[h] = p, loc'[h] = f PROVE SettleOf(h)'
    BY <1>1, <1>7, <2>3 DEF SettleOf, SettleAt, StoreGood, Good, Unanswered, ApprovalKinds
  <2> QED BY <1>1, <1>7, <2>1, <2>2, <2>3, SettleMoves
(* An answer is saved, for a message without one.                          *)
<1>8. ASSUME NEW t \in Requests, NEW a, a.to = t, answers' = answers \cup {a}, Unanswered(t),
             msg'[t] = "COMPLETED", \A g \in Requests : g # t => msg'[g] = msg[g],
             t = h \/ msg[t] \in {"COMPLETED", "FAILED"},
             NEW p \in Pcs \ {"idle", "done"}, Goto(h, p),
             pc'[h] = p /\ loc'[h] = f => SettleOf(h)'
      PROVE  SettleInv'
  <2>1. AnswerSettles'
    BY <1>8 DEF SettleInv, AnswerSettles, Unanswered, TypeOK, DataOK
  <2>2. \A g \in Requests : g # h /\ pc[g] = "idle"
                             => msg'[g] = "none" /\ \A b \in answers' : b.to # g
    BY <1>2, <1>8 DEF SettleInv, Unanswered
  <2>3. Enter(h, p, f)
    BY <1>8 DEF Goto
  <2> HIDE DEF f
  <2> QED BY <1>1, <1>8, <2>1, <2>2, <2>3, SettleMoves
<1>9. CASE SaveUserMessage(h)
  <2>1. f.kind = "send" /\ StatusIs(h, "COMPLETED") /\ Enter(h, "prepare", f)
    BY <1>1, <1>9 DEF SaveUserMessage, FrameAt, Goto
  <2>2. ASSUME pc'[h] = "prepare", loc'[h] = f PROVE SettleOf(h)'
    BY <1>1, <1>9, <2>1, <2>2 DEF SettleOf, SettleAt, Unanswered, ApprovalKinds, SaveUserMessage, TypeOK, DataOK
  <2> QED BY <1>6, <2>1, <2>2
<1>10. CASE SaveCard(h)
  <2>1. StoreIs(OwnCard(h)) /\ Enter(h, "saveCardMessage", f)
    BY <1>10 DEF SaveCard, Goto
  <2>2. SettleAt(h, "saveCardMessage", f)
    BY <1>1, <1>10, SameSettleAt DEF SaveCard
  <2> HIDE DEF f
  <2> QED BY <1>7, <2>1, <2>2
<1>11. CASE SaveAnswer(h)
  <2>1. pc[h] = "saveAnswer" /\ UNCHANGED <<msg, store>>
    BY <1>11 DEF SaveAnswer
  <2>2. CASE f.kind = "send"
    <3>1. /\ answers' = answers \cup {Answer(h, "send")} /\ Goto(h, "finally")
          /\ Answer(h, "send").to = h
      BY <1>11, <2>2 DEF SaveAnswer, Approval, ApprovalKinds, Answer, RunThread
    <3>2. Unanswered(h) /\ msg[h] = "COMPLETED" /\ store' = None
      BY <1>1, <1>5, <2>1, <2>2 DEF SettleAt
    <3>3. ASSUME pc'[h] = "finally", loc'[h] = f PROVE SettleOf(h)'
      BY <2>2, <3>2, <3>3 DEF SettleOf, SettleAt, StoreGood, ApprovalKinds
    <3> QED BY <1>8, <2>1, <3>1, <3>2, <3>3
  <2>3. CASE f.kind \in ApprovalKinds
    <3> DEFINE t == f.card.thread
    <3>1. /\ answers' = answers \cup {Answer(h, "approval")} /\ Goto(h, "deleteStore")
          /\ Answer(h, "approval").to = t /\ t \in Requests
      BY <1>0, <1>11, <2>3, AnswerFrame DEF SaveAnswer, Approval, Answer, Card
    <3>2. Good(t) /\ (f.kind = "chat" => t # h /\ Unanswered(h))
      BY <1>1, <2>1, <2>3 DEF SettleAt
    <3>3. ASSUME pc'[h] = "deleteStore", loc'[h] = f PROVE SettleOf(h)'
      BY <2>1, <2>3, <3>1, <3>2, <3>3 DEF SettleOf, SettleAt, Unanswered, ApprovalKinds
    <3> HIDE DEF t
    <3> QED BY <1>8, <2>1, <3>1, <3>2, <3>3 DEF Good
  <2> QED BY <1>1, <2>1, <2>2, <2>3 DEF FrameAt
<1>12. CASE CancelGeneration(h)
  <2>1. pc[h] \in {"cancelTry", "cancelCatch"} /\ StatusIs(StatusMessage(h), "CANCELLED")
    BY <1>12 DEF CancelGeneration
  <2> DEFINE t == StatusMessage(h)
  <2>2. CASE f.kind \in {"send", "retry"}
    <3>1. Enter(h, "finally", f) /\ store = None
      BY <1>5, <1>12, <2>1, <2>2 DEF CancelGeneration, Approval, ApprovalKinds, Goto
    <3>2. Unanswered(t) /\ (t = h \/ msg[t] \in {"COMPLETED", "FAILED"})
      BY <1>1, <1>4, <2>1, <2>2 DEF SettleAt, StatusMessage, RunThread
    <3>3. ASSUME pc'[h] = "finally", loc'[h] = f PROVE SettleOf(h)'
      BY <2>1, <2>2, <3>1, <3>3 DEF SettleOf, SettleAt, StoreGood, ApprovalKinds
    <3> HIDE DEF t, f
    <3> QED BY <1>6, <2>1, <3>1, <3>2, <3>3 DEF t
  <2>3. CASE f.kind \in ApprovalKinds
    <3> DEFINE p == IF pc[h] = "cancelTry" THEN "deleteStore" ELSE "deleteStoreCatch"
    <3>1. Enter(h, p, f)
      BY <1>12, <2>1, <2>3 DEF CancelGeneration, Approval, Goto
    <3>2. Unanswered(t) /\ (t = h \/ msg[t] \in {"COMPLETED", "FAILED"})
      BY <1>0, <1>1, <2>1, <2>3, AnswerFrame DEF SettleAt, StatusMessage, Good, Approval
    <3>3. ASSUME pc'[h] = p, loc'[h] = f PROVE SettleOf(h)'
      BY <1>1, <2>1, <2>3, <3>3 DEF SettleOf, SettleAt, Unanswered, ApprovalKinds
    <3>4. p \in Pcs \ {"idle", "done"}
      OBVIOUS
    <3> HIDE DEF t, f, p
    <3> QED BY <1>6, <2>1, <3>1, <3>2, <3>3, <3>4 DEF t
  <2> QED BY <1>1, <2>1, <2>2, <2>3 DEF FrameAt
<1>13. CASE FailGeneration(h)
  <2>1. f.kind = "send" /\ pc[h] = "failGen" /\ StatusIs(h, "FAILED") /\ Enter(h, "finally", f)
    BY <1>13 DEF FailGeneration, AnswerInv, Goto
  <2>2. Unanswered(h) /\ store = None
    BY <1>1, <1>5, <2>1 DEF SettleAt
  <2>3. ASSUME pc'[h] = "finally", loc'[h] = f PROVE SettleOf(h)'
    BY <2>1, <2>2, <2>3 DEF SettleOf, SettleAt, StoreGood, ApprovalKinds
  <2> QED BY <1>6, <2>1, <2>2, <2>3
<1>14. CASE CompleteUserMessageIfFailed(h)
  <2> DEFINE t == f.target
  <2>1. /\ f.kind = "retry" /\ t \in Requests /\ msg[t] = "FAILED"
        /\ store # None /\ store.thread = t
    BY <1>1, <1>14 DEF CompleteUserMessageIfFailed, FrameAt, SettleAt
  <2>2. StatusIs(t, "COMPLETED") /\ Enter(h, "finally", f)
    BY <1>14, <2>1 DEF CompleteUserMessageIfFailed, Goto
  <2>3. ASSUME pc'[h] = "finally", loc'[h] = f PROVE SettleOf(h)'
    BY <1>4, <2>1, <2>2, <2>3 DEF SettleOf, SettleAt, StoreGood, Good, Unanswered, ApprovalKinds, TypeOK, DataOK
  <2> HIDE DEF t, f
  <2> QED BY <1>6, <2>1, <2>2, <2>3
<1>15. CASE SaveRetriedAssistantMessage(h)
  <2> DEFINE t == f.target
  <2>1. /\ f.kind = "retry" /\ t \in Requests /\ msg[t] = "FAILED" /\ pc[h] = "saveRetried"
        /\ Goto(h, "finally") /\ store = None
    BY <1>1, <1>5, <1>15 DEF SaveRetriedAssistantMessage, FrameAt, SettleAt
  <2>2. SettleRetry(h) /\ Answer(h, "retry").to = t
    BY <1>15, <2>1 DEF SaveRetriedAssistantMessage, Answer, RunThread
  <2>3. /\ answers' = answers \cup {Answer(h, "retry")} /\ msg'[t] = "COMPLETED"
        /\ \A g \in Requests : g # t => msg'[g] = msg[g]
        /\ store' = None
    BY <2>1, <2>2 DEF SettleRetry, TypeOK, DataOK
  <2>4. ASSUME pc'[h] = "finally", loc'[h] = f PROVE SettleOf(h)'
    BY <2>1, <2>3, <2>4 DEF SettleOf, SettleAt, StoreGood, ApprovalKinds
  <2> HIDE DEF t, f
  <2> QED BY <1>4, <1>8, <2>1, <2>2, <2>3, <2>4
<1>16. CASE ResolveDecision(h)
  <2> DEFINE c == f.card
  <2>1. /\ pc[h] = "resolve" /\ f.kind \in ApprovalKinds /\ UNCHANGED <<store, answers>>
        /\ Good(c.thread) /\ (f.kind = "chat" => c.thread # h /\ Unanswered(h))
        /\ c.thread \in Requests /\ store = c
    BY <1>0, <1>1, <1>16, AnswerFrame DEF ResolveDecision, FrameAt, SettleAt, CardsOf, Approval,
       ApprovalCards, Shown, Card
  <2>2. msg' = IF f.kind = "chat" THEN [msg EXCEPT ![h] = "COMPLETED"] ELSE msg
    BY <1>16 DEF ResolveDecision
  <2>3. ASSUME NEW t, Good(t), f.kind = "chat" => t # h
        PROVE  msg'[t] = "COMPLETED" /\ \A a \in answers' : a.to # t
    BY <2>1, <2>2, <2>3 DEF Good, Unanswered, TypeOK, DataOK
  <2>4. ASSUME NEW p \in {"resume", "finally"}, NEW e, Enter(h, p, e),
               e.kind = f.kind, e.card = c
        PROVE  SettleInv'
    <3>1. AnswerSettles'
      BY <2>1, <2>2 DEF SettleInv, AnswerSettles, TypeOK, DataOK
    <3>2. \A g \in Requests : g # h /\ pc[g] = "idle"
                               => msg'[g] = "none" /\ \A a \in answers' : a.to # g
      BY <2>1, <2>2 DEF SettleInv, Unanswered
    <3>3. ASSUME pc'[h] = p, loc'[h] = e PROVE SettleOf(h)'
      BY <2>1, <2>3, <2>4, <3>3 DEF SettleOf, SettleAt, StoreGood, Good, Unanswered, ApprovalKinds
    <3> QED BY <1>1, <2>4, <3>1, <3>2, <3>3, SettleMoves
  <2>5. CASE Goto(h, "finally")
    BY <2>4, <2>5 DEF Goto
  <2>6. ASSUME NEW d \in Decisions, Enter(h, "resume", [f EXCEPT !.decision = d])
        PROVE  SettleInv'
    <3> DEFINE e == [f EXCEPT !.decision = d]
    <3>1. e.kind = f.kind /\ e.card = c
      BY FrameFields DEF LocalState, TypeOK
    <3>2. Enter(h, "resume", e)
      BY <2>6
    <3> HIDE DEF e
    <3> QED BY <2>4, <3>1, <3>2
  <2> QED BY <1>16, <2>5, <2>6 DEF ResolveDecision
<1>17. CASE DeleteStore(h)
  <2>1. f.kind \in ApprovalKinds /\ StoreIs(None)
        /\ pc[h] \in {"deleteStore", "deleteStoreCatch", "deleteStoreOnly"}
    BY <1>1, <1>17 DEF DeleteStore, FrameAt
  <2>2. SettleAt(h, "deleteMemory", f)
    BY <1>1, <2>1 DEF SettleAt, ApprovalKinds
  <2>3. Enter(h, "finally", f) \/ Enter(h, "deleteMemory", f)
    BY <1>17 DEF DeleteStore, Goto
  <2> HIDE DEF f
  <2> QED BY <1>7, <2>1, <2>2, <2>3
<1>18. CASE ResaveCard(h)
  <2>1. f.kind \in ApprovalKinds /\ StoreIs(f.card) /\ pc[h] = "resave"
    BY <1>1, <1>18 DEF ResaveCard, FrameAt
  <2>2. Good(f.card.thread) /\ Enter(h, "finally", f)
    BY <1>1, <1>18, <2>1 DEF SettleAt, ResaveCard, Goto
  <2> HIDE DEF f
  <2> QED BY <1>7, <2>1, <2>2
<1>19. ~DropStoredApproval(h)
  BY <1>1 DEF DropStoredApproval, FrameAt, CardsOf, JoinCards
<1> QED BY <1>9, <1>10, <1>11, <1>12, <1>13, <1>14, <1>15, <1>16, <1>17, <1>18, <1>19 DEF WritesDb

LEMMA StepSettles ==
    ASSUME OneTab, TypeOK, AnswerInv, CardInv, SettleInv, [Next]_vars
    PROVE  SettleInv'
<1>1. ASSUME NEW h \in Requests, ClientEvent(h) PROVE SettleInv'
  BY <1>1, EventSettles
<1>2. ASSUME NEW h \in Requests, HandlerStep(h) PROVE SettleInv'
  BY <1>2, ReadersSettle, WritersSettle
<1>3. \A i \in Instances : ~Crash(i)
  BY GatewayAssumption DEF Crash, OneTab, TypeOK, DataOK
<1>4. CASE LockExpires \/ UNCHANGED vars
  <2>1. UNCHANGED <<pc, loc, db>>
    BY <1>4 DEF LockExpires, vars
  <2>2. \A g \in Requests : SettleOf(g)' <=> SettleOf(g)
    BY <2>1, SettleStill DEF SettleOf, SettleAt
  <2> QED BY <2>1, <2>2, SettleStill DEF SettleInv, Quiet, Active
<1> QED BY <1>1, <1>2, <1>3, <1>4 DEF Next

(* Under the same conditions every answer, whether the message's own run,  *)
(* a retry or the approval of its card saved it, is the only one of its    *)
(* message, and the message is COMPLETED (run gateway_one_tab).            *)
THEOREM AnswerSettlesHolds == ASSUME OneTab PROVE Spec => []AnswerSettles
<1>1. Init => SettleInv
  BY DEF Init, SettleInv, AnswerSettles, StoreGood, Active, Unanswered
<1>2. TypeOK /\ AnswerInv /\ CardInv /\ SettleInv /\ [Next]_vars => SettleInv'
  BY StepSettles
<1>3. SettleInv => AnswerSettles
  BY DEF SettleInv
<1> QED BY <1>1, <1>2, <1>3, TypeCorrect, AnswersHold, CardsHold, PTL DEF Spec

LEMMA OthersExecuteNothing ==
    ASSUME NEW h, HandlerStep(h), ~ResumeCommits(h)
    PROVE  executions' = executions
<1>1. CASE \/ RateLimitRejects(h) \/ RateLimitAllowsSend(h) \/ RateLimitAllowsRetry(h)
           \/ SaveUserMessage(h) \/ PrepareContext(h) \/ GraphStarts(h)
           \/ GraphInterrupts(h) \/ GraphCompletes(h) \/ DeltaAfterStop(h)
  BY <1>1 DEF RateLimitRejects, RateLimitAllowsSend, RateLimitAllowsRetry, SaveUserMessage,
     PrepareContext, GraphStarts, GraphInterrupts, GraphCompletes, DeltaAfterStop
<1>2. CASE \/ SaveCard(h) \/ SaveCardMessage(h) \/ SaveAnswer(h) \/ CancelGeneration(h)
           \/ FailGeneration(h) \/ Finally(h) \/ GetRetryableUserMessage(h) \/ RetryReply(h)
           \/ CompleteUserMessageIfFailed(h) \/ SaveRetriedAssistantMessage(h)
  BY <1>2 DEF SaveCard, SaveCardMessage, SaveAnswer, CancelGeneration, FailGeneration, Finally,
     GetRetryableUserMessage, RetryReply, CompleteUserMessageIfFailed,
     SaveRetriedAssistantMessage
<1>3. CASE \/ Acquire(h) \/ AcquireRefused(h) \/ ResolveDecision(h) \/ ResumeWithoutCommit(h)
           \/ ToolCheckpoint(h) \/ ResumeFindsNothing(h) \/ DeleteStore(h) \/ DeleteMemory(h)
  BY <1>3 DEF Acquire, AcquireRefused, ResolveDecision, ResumeWithoutCommit, ToolCheckpoint,
     ResumeFindsNothing, DeleteStore, DeleteMemory
<1>4. CASE \/ CheckInterrupt(h) \/ ResaveCard(h) \/ ReleaseLock(h) \/ FindStoredApproval(h)
           \/ RestorePendingApproval(h) \/ DropStoredApproval(h)
           \/ DatabaseFails(h) \/ GraphFails(h)
  BY <1>4 DEF CheckInterrupt, ResaveCard, ReleaseLock, FindStoredApproval,
     RestorePendingApproval, DropStoredApproval, DatabaseFails, GraphFails
<1> QED BY <1>1, <1>2, <1>3, <1>4 DEF HandlerStep, HandlerProceeds

(* Under the same conditions the request a tool executes is the one on the *)
(* card that was approved.                                                 *)
THEOREM ApprovedIsExecutedHolds == ASSUME OneTab PROVE Spec => []ApprovedIsExecuted
<1>1. Init => ApprovedIsExecuted
  BY DEF Init, ApprovedIsExecuted
<1>2. TypeOK /\ CardInv /\ ApprovedIsExecuted /\ [Next]_vars => ApprovedIsExecuted'
  <2> SUFFICES ASSUME TypeOK, CardInv, ApprovedIsExecuted, [Next]_vars
               PROVE  ApprovedIsExecuted'
    OBVIOUS
  <2>1. ASSUME NEW h \in Requests, ResumeCommits(h) PROVE ApprovedIsExecuted'
    <3>1. Active(h) /\ pc[h] = "resume"
      BY <2>1 DEF ResumeCommits, Active
    <3>2. Approval(h) /\ CardsOf(h)
      BY <3>1, Alone DEF FrameAt, Approval
    <3>3. Shown(loc[h].card)
      BY <3>1, <3>2 DEF CardsOf, ApprovalCards
    <3>4. interrupt[RunThread(h)] = loc[h].card.id
      BY <3>1, <3>2, <3>3, AnswerFrame DEF Shown
    <3> QED BY <2>1, <3>4 DEF ResumeCommits, ApprovedIsExecuted
  <2>2. ASSUME executions' = executions PROVE ApprovedIsExecuted'
    BY <2>2 DEF ApprovedIsExecuted
  <2>3. ASSUME NEW h \in Requests, ClientEvent(h) PROVE executions' = executions
    BY <2>3 DEF ClientEvent, SendMessage, RetryMessage, RespondAgentApproval, StopGeneration,
       JoinRoom
  <2>4. ASSUME NEW h \in Requests, HandlerStep(h), ~ResumeCommits(h)
        PROVE  executions' = executions
    BY <2>4, OthersExecuteNothing
  <2>5. (\E i \in Instances : Crash(i)) \/ LockExpires \/ UNCHANGED vars
          => executions' = executions
    BY DEF Crash, LockExpires, vars
  <2> QED BY <2>1, <2>2, <2>3, <2>4, <2>5 DEF Next
<1> QED BY <1>1, <1>2, CardsHold, TypeCorrect, PTL DEF Spec
=============================================================================
