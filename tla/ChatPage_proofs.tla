--------------------------- MODULE ChatPage_proofs ---------------------------
(***************************************************************************)
(* Theorems about ChatPage, for any rooms, messages, page size and bounds. *)
(***************************************************************************)
EXTENDS ChatPage, FiniteSetTheorems, SequenceTheorems, TLAPS

(***************************************************************************)
(* What every variable is.  A message or a card belongs to a room, and     *)
(* names messages that room has (d is the database).                       *)
(***************************************************************************)
MessageOf(d, r, m) == m \in AnyMessage /\ m.room = r /\ m.id \in 1..Len(d[r])
CardOf(d, r, c)    == c \in AnyCard /\ c.room = r /\ c.user \in 1..Len(d[r])

Ends(e)    == e.type \in {"assistant_message_completed", "assistant_message_failed",
                          "assistant_message_cancelled"}
Carries(e) == \/ e.type \in {"message_created", "message_updated"}
              \/ Ends(e) /\ e.body # None

Bodies   == AnyMessage \union AnyCard \union (Rooms \X Nat) \union {None}
AnyEvent == [type : {"message_created", "message_updated", "assistant_message_started",
                     "assistant_message_delta", "assistant_message_completed",
                     "assistant_message_failed", "assistant_message_cancelled",
                     "assistant_approval_required", "assistant_approval_resolved",
                     "chat_error"},
             room : Rooms, body : Bodies]
EventOf(d, e) ==
    /\ e \in AnyEvent
    /\ Carries(e) => MessageOf(d, e.room, e.body)
    /\ e.type = "assistant_message_delta" =>
          e.body \in Rooms \X Nat /\ e.body[1] = e.room
    /\ e.type \in {"assistant_approval_required", "assistant_approval_resolved"} =>
          CardOf(d, e.room, e.body)

AnyRequest == [op : {"join", "leave", "send", "retry", "respond", "stop"},
               room : Rooms, arg : Nat \union AnyCard \union {None}]
RequestOf(d, q) ==
    /\ q \in AnyRequest
    /\ q.op = "retry" => q.arg \in 1..Len(d[q.room])
    /\ q.op = "respond" => CardOf(d, q.room, q.arg)

AnyFetch == [kind : {"first", "older"}, room : Rooms, request : Nat, cursor : Nat,
             status : {"sent", "answered", "failed"}, page : Seq(AnyMessage), next : Nat]
FetchOf(d, k, f) ==
    /\ f \in AnyFetch
    /\ f.request \in 1..k
    /\ f.cursor <= Len(d[f.room]) /\ f.next <= Len(d[f.room])
    /\ \A i \in 1..Len(f.page) : MessageOf(d, f.room, f.page[i])

AnyRun == [phase : {"idle", "accepted", "streaming", "closing"},
           kind : {"send", "retry", "approval"}, user : Nat, card : AnyCard \union {None},
           mine : BOOLEAN, stop : BOOLEAN, deltas : Nat, no : Nat]
RunOf(d, r, x) ==
    x.phase # "idle" => /\ x.user \in 1..Len(d[r])
                        /\ x.kind = "approval" => CardOf(d, r, x.card)

AnyPage == [room : Rooms \union {None}, request : Nat, shown : Seq(AnyMessage),
            cursor : Nat, text : SUBSET (Rooms \X Nat), sending : BOOLEAN,
            streaming : BOOLEAN, loading : BOOLEAN, older : BOOLEAN,
            card : AnyCard \union {None}]
Bare(p) == /\ p.shown = <<>> /\ p.cursor = 0 /\ p.text = {} /\ p.card = None
           /\ ~p.sending /\ ~p.streaming /\ ~p.loading /\ ~p.older
PageOf(d, p) ==
    /\ p \in AnyPage
    /\ p.room = None => Bare(p)
    /\ p.room # None => p.cursor <= Len(d[p.room]) /\ p.request > 0
    /\ \A i \in 1..Len(p.shown) : MessageOf(d, p.room, p.shown[i])
    /\ p.card # None => CardOf(d, p.room, p.card)

DbType(d) ==
    /\ d \in [Rooms -> Seq(AnyMessage)]
    /\ \A r \in Rooms : \A n \in 1..Len(d[r]) : d[r][n].id = n /\ d[r][n].room = r
Longer(d, e) == \A r \in Rooms : Len(d[r]) <= Len(e[r])

DeletionType ==
    /\ deletion \in [room : Rooms \union {None}, current : BOOLEAN,
                     stage : {"none", "sent", "served", "done", "failed"}]
    /\ deletion.stage # "none" => deletion.room \in Rooms
    /\ deletion.stage = "none" => deletion.room = None
BoundsType == acts \in 0..MaxActs /\ faults \in 0..MaxFaults
FlagsType  == connected \in BOOLEAN /\ calm \in BOOLEAN /\ dropped \in BOOLEAN
RoomsType  == joining \union joined \union gone \union missed \subseteq Rooms
UpType      == up \in Seq(AnyRequest) /\ \A i \in 1..Len(up) : RequestOf(db, up[i])
DownType    == down \in Seq(AnyEvent) /\ \A i \in 1..Len(down) : EventOf(db, down[i])
FetchesType == \A f \in fetches : FetchOf(db, ui.request, f)
RunType     == run \in [Rooms -> AnyRun] /\ \A r \in Rooms : RunOf(db, r, run[r])
CardsType   == /\ cards \in [Rooms -> AnyCard \union {None}]
               /\ \A r \in Rooms : cards[r] # None => CardOf(db, r, cards[r])

Typed == /\ DbType(db) /\ PageOf(db, ui) /\ FetchesType /\ DeletionType
         /\ BoundsType /\ FlagsType /\ RoomsType
         /\ UpType /\ DownType /\ RunType /\ CardsType

(***************************************************************************)
(* Which steps change what.                                                *)
(***************************************************************************)
LEMMA DbSteps ==
    ASSUME [Next]_vars
    PROVE  \/ db' = db
           \/ ReceiveSend
           \/ \E r \in Rooms : Complete(r) \/ Cancel(r) \/ FailSend(r) \/ AskApproval(r) \/ Close(r)
<1>1. User => db' = db
  BY DEF User, EnterRoom, DeleteRoom, SendMessage, RetryMessage, RespondToApproval,
         StopGeneration, LoadOlder, server
<1>2. Answers => db' = db
  BY DEF Answers, ServeMessages, ApplyFirst, ApplyOlder, ServeDeletion, ApplyDeletion, server
<1>3. HandleEvent => db' = db
  BY DEF HandleEvent, HandleMessageCreated, HandleMessageUpdated, HandleStarted, HandleDelta,
         HandleEnd, HandleApprovalRequired, HandleApprovalResolved, HandleChatError,
         Incoming, server
<1>4. Disconnect \/ Connect => db' = db
  BY DEF Disconnect, Connect, server
<1>5. Receive => db' = db \/ ReceiveSend
  BY DEF Receive, JoinBegins, LeaveRoom, ReceiveRetry, ReceiveResponse, ReceiveStop, Refuse
<1>6. ASSUME NEW r \in Rooms, JoinEnds(r) \/ Start(r) \/ Delta(r) PROVE db' = db
  BY <1>6 DEF JoinEnds, Start, Delta
<1>7. ASSUME NEW r \in Rooms, Finish(r)
      PROVE  db' = db \/ Complete(r) \/ Cancel(r) \/ FailSend(r) \/ AskApproval(r) \/ Close(r)
  BY <1>7 DEF Finish, FailRetry, FailApproval, Unclear, Vanish
<1>8. UNCHANGED vars => db' = db
  BY DEF vars, server
<1> QED
  BY <1>1, <1>2, <1>3, <1>4, <1>5, <1>6, <1>7, <1>8 DEF Next, Gateway

LEMMA MessageMade ==
    ASSUME NEW r \in Rooms, NEW n \in Nat, NEW role \in {"user", "assistant"},
           NEW status \in {"completed", "failed", "cancelled"}
    PROVE  /\ Message(r, n, role, status) \in AnyMessage
           /\ Message(r, n, role, status).id = n
           /\ Message(r, n, role, status).room = r
BY DEF Message, AnyMessage

Restated(s, n, status) == [s EXCEPT ![n].status = status]
WithStatus(m, status)  == [m EXCEPT !.status = status]
SameMessages(s, t)     ==
    /\ t \in Seq(AnyMessage) /\ Len(t) = Len(s)
    /\ \A k \in 1..Len(s) : t[k].id = s[k].id /\ t[k].room = s[k].room

LEMMA StatusChanged ==
    ASSUME NEW s \in Seq(AnyMessage), NEW n \in 1..Len(s),
           NEW status \in {"completed", "failed", "cancelled"}
    PROVE  /\ SameMessages(s, Restated(s, n, status))
           /\ Restated(s, n, status)[n] = WithStatus(s[n], status)
           /\ \A k \in 1..Len(s) : k # n => Restated(s, n, status)[k] = s[k]
<1> DEFINE m == WithStatus(s[n], status)
<1>1. s[n] \in AnyMessage
  OBVIOUS
<1>2. m \in AnyMessage /\ m.id = s[n].id /\ m.room = s[n].room
  BY <1>1 DEF AnyMessage, WithStatus
<1>3. Restated(s, n, status) = [s EXCEPT ![n] = m]
  BY DEF Restated, WithStatus
<1> HIDE DEF m
<1>4. /\ [s EXCEPT ![n] = m] \in Seq(AnyMessage) /\ Len([s EXCEPT ![n] = m]) = Len(s)
      /\ \A k \in 1..Len(s) : [s EXCEPT ![n] = m][k] = IF k = n THEN m ELSE s[k]
  BY <1>2, ExceptSeq
<1>5. m = WithStatus(s[n], status)
  BY DEF m
<1> QED
  BY <1>2, <1>3, <1>4, <1>5 DEF SameMessages

LEMMA RoomType ==
    ASSUME Typed, up # <<>>
    PROVE  /\ Room \in Rooms /\ RequestOf(db, Head(up))
           /\ Tail(up) \in Seq(AnyRequest)
           /\ \A i \in 1..Len(Tail(up)) : RequestOf(db, Tail(up)[i])
<1>1. /\ up \in Seq(AnyRequest) /\ Len(up) \in Nat \ {0} /\ Head(up) = up[1]
      /\ \A i \in 1..Len(up) : RequestOf(db, up[i])
  BY DEF Typed, UpType
<1>2. RequestOf(db, Head(up))
  BY <1>1
<1>3. Room \in Rooms
  BY <1>2 DEF Room, RequestOf, AnyRequest
<1> QED
  BY <1>1, <1>2, <1>3, HeadTailProperties

LEMMA DbNext ==
    ASSUME Typed, [Next]_vars
    PROVE  DbType(db') /\ Longer(db, db')
<1>1. \A r \in Rooms : Len(db[r]) \in Nat
  BY DEF Typed, DbType
<1>2. CASE db' = db
  BY <1>1, <1>2 DEF Typed, Longer
<1>3. ASSUME NEW r \in Rooms, NEW role \in {"user", "assistant"},
             NEW status \in {"completed", "failed", "cancelled"},
             Save(r, Message(r, NextId(r), role, status))
      PROVE  DbType(db') /\ Longer(db, db')
  BY <1>1, <1>3, MessageMade DEF Typed, DbType, Longer, Save, NextId
<1>4. ASSUME NEW r \in Rooms, NEW n \in 1..Len(db[r]),
             NEW s \in {"completed", "failed", "cancelled"}, NEW new \in AnyMessage,
             new.id = Len(db[r]) + 1, new.room = r,
             \/ db' = [db EXCEPT ![r] = Append(Restated(db[r], n, s), new)]
             \/ db' = [db EXCEPT ![r] = Restated(db[r], n, s)]
      PROVE  DbType(db') /\ Longer(db, db')
  <2>1. db[r] \in Seq(AnyMessage) /\ \A k \in 1..Len(db[r]) : db[r][k].id = k /\ db[r][k].room = r
    BY DEF Typed, DbType
  <2> DEFINE old == Restated(db[r], n, s)
  <2>11. SameMessages(db[r], old)
    BY <2>1, StatusChanged
  <2>2. /\ old \in Seq(AnyMessage) /\ Len(old) = Len(db[r])
        /\ \A k \in 1..Len(db[r]) : old[k].id = k /\ old[k].room = r
    BY <2>1, <2>11 DEF SameMessages
  <2>3. db' = [db EXCEPT ![r] = Append(old, new)] \/ db' = [db EXCEPT ![r] = old]
    BY <1>4
  <2> HIDE DEF old
  <2>4. \A k \in 1..Len(Append(old, new)) : Append(old, new)[k].id = k /\ Append(old, new)[k].room = r
    BY <1>1, <1>4, <2>2, AppendProperties
  <2>5. Append(old, new) \in Seq(AnyMessage) /\ Len(Append(old, new)) = Len(db[r]) + 1
    BY <2>2, AppendProperties
  <2>6. PICK t \in Seq(AnyMessage) :
           /\ db' = [db EXCEPT ![r] = t] /\ Len(db[r]) <= Len(t)
           /\ \A k \in 1..Len(t) : t[k].id = k /\ t[k].room = r
    <3>1. CASE db' = [db EXCEPT ![r] = Append(old, new)]
      <4> DEFINE t == Append(old, new)
      <4>1. /\ t \in Seq(AnyMessage) /\ Len(db[r]) <= Len(t)
            /\ \A k \in 1..Len(t) : t[k].id = k /\ t[k].room = r
            /\ db' = [db EXCEPT ![r] = t]
        BY <1>1, <2>4, <2>5, <3>1
      <4> HIDE DEF t
      <4> QED
        BY <4>1
    <3>2. CASE db' = [db EXCEPT ![r] = old]
      <4>1. /\ old \in Seq(AnyMessage) /\ Len(db[r]) <= Len(old)
            /\ \A k \in 1..Len(old) : old[k].id = k /\ old[k].room = r
        BY <1>1, <2>2
      <4> QED
        BY <3>2, <4>1
    <3> QED
      BY <2>3, <3>1, <3>2
  <2>61. db \in [Rooms -> Seq(AnyMessage)]
    BY DEF Typed, DbType
  <2>7. db' \in [Rooms -> Seq(AnyMessage)] /\ db'[r] = t /\ \A q \in Rooms \ {r} : db'[q] = db[q]
    BY <2>6, <2>61
  <2> QED
    BY <1>1, <2>6, <2>7 DEF Typed, DbType, Longer
<1>5. ASSUME NEW r \in Rooms, Busy(r) PROVE run[r].user \in 1..Len(db[r])
  BY <1>5 DEF Typed, RunType, RunOf, Busy
<1>6. \A r \in Rooms, s \in {"completed", "failed", "cancelled"} :
         Said(r, s) \in AnyMessage /\ Said(r, s).id = Len(db[r]) + 1 /\ Said(r, s).room = r
  BY <1>1, MessageMade DEF Said, NextId
<1>7. CASE ReceiveSend
  <2>1. Room \in Rooms
    BY <1>7, RoomType DEF ReceiveSend, Arrived
  <2> QED
    BY <1>3, <1>7, <2>1 DEF ReceiveSend
<1>8. ASSUME NEW r \in Rooms, Complete(r) \/ Cancel(r) \/ FailSend(r) \/ AskApproval(r) \/ Close(r)
      PROVE  DbType(db') /\ Longer(db, db')
  <2>1. Busy(r)
    BY <1>8 DEF Complete, Cancel, FailSend, AskApproval, Close, InRoom, Runs, Busy
  <2>2. \A s, t \in {"completed", "failed", "cancelled"} :
           SaveWith(r, s, Said(r, t)) => DbType(db') /\ Longer(db, db')
    <3> SUFFICES ASSUME NEW s \in {"completed", "failed", "cancelled"},
                        NEW t \in {"completed", "failed", "cancelled"},
                        SaveWith(r, s, Said(r, t))
                 PROVE  DbType(db') /\ Longer(db, db')
      OBVIOUS
    <3>1. db' = [db EXCEPT ![r] = Append(Restated(db[r], run[r].user, s), Said(r, t))]
      BY DEF SaveWith, Restated
    <3>2. run[r].user \in 1..Len(db[r])
      BY <1>5, <2>1
    <3>3. Said(r, t) \in AnyMessage /\ Said(r, t).id = Len(db[r]) + 1 /\ Said(r, t).room = r
      BY <1>6
    <3> QED
      BY <1>4, <3>1, <3>2, <3>3
  <2>3. \A s \in {"completed", "failed", "cancelled"} :
           Save(r, Said(r, s)) => DbType(db') /\ Longer(db, db')
    BY <1>1, <1>3 DEF Said
  <2>4. CASE Complete(r)
    BY <2>2, <2>3, <2>4 DEF Complete
  <2>5. CASE Cancel(r)
    BY <2>2, <2>5 DEF Cancel
  <2>6. CASE FailSend(r)
    BY <2>2, <2>6 DEF FailSend
  <2>7. CASE AskApproval(r)
    BY <2>3, <2>7 DEF AskApproval
  <2>8. CASE Close(r)
    <3>1. CASE db' = db
      BY <1>2, <3>1
    <3>2. CASE db' = [db EXCEPT ![r][run[r].user].status = "completed"]
      BY <1>4, <1>5, <1>6, <2>1, <3>2 DEF Restated
    <3> QED
      BY <2>8, <3>1, <3>2 DEF Close
  <2> QED
    BY <1>8, <2>4, <2>5, <2>6, <2>7, <2>8
<1> QED
  BY <1>2, <1>7, <1>8, DbSteps

(***************************************************************************)
(* Types.  The database only grows, so what named a message still does.    *)
(***************************************************************************)
LEMMA LongerKeeps ==
    ASSUME NEW d, NEW e, DbType(d), DbType(e), Longer(d, e)
    PROVE  /\ \A r \in Rooms : \A m : MessageOf(d, r, m) => MessageOf(e, r, m)
           /\ \A r \in Rooms : \A c : CardOf(d, r, c) => CardOf(e, r, c)
           /\ \A v : EventOf(d, v) => EventOf(e, v)
           /\ \A q : RequestOf(d, q) => RequestOf(e, q)
           /\ \A k, l \in Nat : \A f : k <= l /\ FetchOf(d, k, f) => FetchOf(e, l, f)
           /\ \A r \in Rooms, x \in AnyRun : RunOf(d, r, x) => RunOf(e, r, x)
           /\ \A p : PageOf(d, p) => PageOf(e, p)
<1>1. \A r \in Rooms : Len(d[r]) \in Nat /\ Len(e[r]) \in Nat /\ Len(d[r]) <= Len(e[r])
  BY DEF DbType, Longer
<1>2. \A r \in Rooms : \A m : MessageOf(d, r, m) => MessageOf(e, r, m)
  BY <1>1 DEF MessageOf
<1>3. \A r \in Rooms : \A c : CardOf(d, r, c) => CardOf(e, r, c)
  BY <1>1 DEF CardOf
<1>4. \A v : EventOf(d, v) => EventOf(e, v)
  BY <1>2, <1>3 DEF EventOf, AnyEvent
<1>5. \A q : RequestOf(d, q) => RequestOf(e, q)
  BY <1>1, <1>3 DEF RequestOf, AnyRequest
<1>6. ASSUME NEW k \in Nat, NEW l \in Nat, k <= l, NEW f, FetchOf(d, k, f) PROVE FetchOf(e, l, f)
  BY <1>1, <1>2, <1>6 DEF FetchOf, AnyFetch
<1>7. \A r \in Rooms, x \in AnyRun : RunOf(d, r, x) => RunOf(e, r, x)
  BY <1>1, <1>3 DEF RunOf, AnyRun
<1>8. ASSUME NEW p, PageOf(d, p) PROVE PageOf(e, p)
  <2>1. p.room \in Rooms \union {None} /\ p \in AnyPage
    BY <1>8 DEF PageOf, AnyPage
  <2>2. CASE p.room = None
    BY <1>8, <2>1, <2>2 DEF PageOf, Bare
  <2>3. CASE p.room \in Rooms
    BY <1>1, <1>2, <1>3, <1>8, <2>1, <2>3, PageAssumption DEF PageOf, AnyPage
  <2> QED
    BY <2>1, <2>2, <2>3
<1> QED
  BY <1>2, <1>3, <1>4, <1>5, <1>6, <1>7, <1>8

LEMMA UiSteps ==
    ASSUME [Next]_vars
    PROVE  \/ ui' = ui
           \/ /\ db' = db
              /\ \/ \E r \in Rooms : EnterRoom(r)
                 \/ SendMessage \/ RetryMessage \/ RespondToApproval \/ StopGeneration
                 \/ LoadOlder \/ ApplyDeletion \/ HandleEvent
                 \/ \E f \in fetches : ApplyFirst(f) \/ ApplyOlder(f)
<1>1. CASE User
  BY <1>1 DEF User, EnterRoom, DeleteRoom, SendMessage, RetryMessage, RespondToApproval,
              StopGeneration, LoadOlder, server
<1>2. CASE Answers
  BY <1>2 DEF Answers, ServeMessages, ApplyFirst, ApplyOlder, ServeDeletion, ApplyDeletion, server
<1>3. CASE HandleEvent
  BY <1>3 DEF HandleEvent, HandleMessageCreated, HandleMessageUpdated, HandleStarted, HandleDelta,
         HandleEnd, HandleApprovalRequired, HandleApprovalResolved, HandleChatError,
         Incoming, server
<1>4. CASE Disconnect \/ Connect
  BY <1>4 DEF Disconnect, Connect, client
<1>5. CASE Receive
  BY <1>5 DEF Receive, JoinBegins, LeaveRoom, ReceiveRetry, ReceiveResponse, ReceiveStop, Refuse,
              ReceiveSend, Arrived, client
<1>6. ASSUME NEW r \in Rooms, JoinEnds(r) \/ Start(r) \/ Delta(r) \/ Finish(r) PROVE ui' = ui
  BY <1>6 DEF JoinEnds, Start, Delta, Finish, Complete, Cancel, FailSend, FailRetry, FailApproval,
              Unclear, AskApproval, Close, Vanish, InRoom, Runs, client
<1>7. CASE UNCHANGED vars
  BY <1>7 DEF vars, client
<1> QED
  BY <1>1, <1>2, <1>3, <1>4, <1>5, <1>6, <1>7 DEF Next, Gateway

LEMMA EventType ==
    ASSUME Typed, down # <<>>
    PROVE  /\ EventOf(db, Event) /\ Event.room \in Rooms /\ Event = down[1]
           /\ Tail(down) \in Seq(AnyEvent)
           /\ \A i \in 1..Len(Tail(down)) : EventOf(db, Tail(down)[i])
<1>1. /\ down \in Seq(AnyEvent) /\ Len(down) \in Nat \ {0} /\ Head(down) = down[1]
      /\ \A i \in 1..Len(down) : EventOf(db, down[i])
  BY DEF Typed, DownType
<1>2. EventOf(db, Event)
  BY <1>1 DEF Event
<1>3. Event.room \in Rooms
  BY <1>2 DEF EventOf, AnyEvent
<1> QED
  BY <1>1, <1>2, <1>3, HeadTailProperties DEF Event

LEMMA FreshPage ==
    ASSUME NEW r \in Rooms \union {None}, NEW k \in Nat
    PROVE  Fresh(r, k) \in AnyPage
BY DEF Fresh, AnyPage

LEMMA FreshType ==
    ASSUME NEW d, DbType(d), NEW r \in Rooms \union {None}, NEW k \in Nat \ {0}
    PROVE  PageOf(d, Fresh(r, k)) /\ Fresh(r, k).request = k /\ Fresh(r, k).room = r
<1> DEFINE p == Fresh(r, k)
<1>1. /\ p.room = r /\ p.request = k /\ p.shown = <<>> /\ p.cursor = 0 /\ p.card = None
      /\ p.text = {} /\ ~p.sending /\ ~p.streaming /\ ~p.older /\ (r = None => ~p.loading)
  BY DEF Fresh
<1>2. p \in AnyPage
  BY FreshPage
<1>3. r # None => 0 <= Len(d[r])
  BY DEF DbType
<1> HIDE DEF p
<1>4. PageOf(d, p)
  <2>1. \A i \in 1..Len(p.shown) : FALSE
    BY <1>1
  <2> QED
    BY <1>1, <1>2, <1>3, <2>1 DEF PageOf, Bare
<1> QED
  BY <1>1, <1>4 DEF p

LEMMA AppendedType ==
    ASSUME NEW p, PageOf(db, p), p.room # None, NEW m, MessageOf(db, p.room, m)
    PROVE  PageOf(db, [p EXCEPT !.shown = Append(@, m)])
<1>1. m \in AnyMessage /\ p.shown \in Seq(AnyMessage)
  BY DEF PageOf, AnyPage, MessageOf
<1>2. /\ Append(p.shown, m) \in Seq(AnyMessage)
      /\ \A i \in 1..Len(Append(p.shown, m)) : MessageOf(db, p.room, Append(p.shown, m)[i])
  BY <1>1, AppendProperties DEF PageOf
<1>3. \A s \in Seq(AnyMessage) :
         (\A i \in 1..Len(s) : MessageOf(db, p.room, s[i])) => PageOf(db, [p EXCEPT !.shown = s])
  BY DEF PageOf, AnyPage
<1> QED
  BY <1>2, <1>3

(* The places of a page that is not shown yet, in their order.             *)
Places(page)   == {i \in DOMAIN page : page[i].id \notin Ids}
Rank(P, i)     == Cardinality({j \in P : j < i})

LEMMA RankOnto ==
    ASSUME NEW n \in Nat, NEW P \in SUBSET (1..n)
    PROVE  /\ Cardinality(P) \in Nat
           /\ \A k \in 1..Cardinality(P) : \E i \in P : Rank(P, i) = k - 1
<1>1. IsFiniteSet(P) /\ Cardinality(P) \in Nat
  <2>1. IsFiniteSet(1..n)
    BY FS_Interval
  <2> QED
    BY <2>1, FS_Subset, FS_CardinalityType
<1> DEFINE c == Cardinality(P)
           f == [i \in P |-> Rank(P, i)]
<1>2. ASSUME NEW i \in P PROVE Rank(P, i) \in 0..(c - 1)
  <2> DEFINE B == {j \in P : j < i}
  <2>1. B \subseteq P /\ B # P
    OBVIOUS
  <2> HIDE DEF B
  <2>2. IsFiniteSet(B) /\ Cardinality(B) <= c /\ (Cardinality(B) = c => B = P) /\ Cardinality(B) \in Nat
    BY <1>1, <2>1, FS_Subset, FS_CardinalityType
  <2> QED
    BY <1>1, <2>1, <2>2 DEF Rank, B
<1>3. ASSUME NEW i \in P, NEW k \in P, i < k PROVE Rank(P, i) # Rank(P, k)
  <2> DEFINE B == {j \in P : j < i}
             D == {j \in P : j < k}
  <2>1. (\A j \in P : j < i => j < k) /\ ~(i < i) /\ i < k
    BY <1>3
  <2>2. B \subseteq D /\ i \in D /\ i \notin B /\ D \subseteq P
    BY <2>1, Zenon
  <2> HIDE DEF B, D
  <2>3. IsFiniteSet(D) /\ (Cardinality(B) = Cardinality(D) => B = D)
    BY <1>1, <2>2, FS_Subset
  <2> QED
    BY <2>2, <2>3 DEF Rank, B, D
<1>4. f \in Injection(P, 0..(c - 1))
  <2>1. f \in [P -> 0..(c - 1)]
    BY <1>2
  <2>2. \A i, k \in P : i # k => f[i] # f[k]
    BY <1>3
  <2> HIDE DEF f
  <2> QED
    BY <2>1, <2>2 DEF Injection, IsInjective
<1>5. IsFiniteSet(0..(c - 1)) /\ Cardinality(0..(c - 1)) = c
  BY <1>1, FS_Interval
<1>6. f \in Surjection(P, 0..(c - 1))
  <2> HIDE DEF f
  <2> QED
    BY <1>1, <1>4, <1>5, FS_Injection
<1>7. ASSUME NEW k \in 1..c PROVE \E i \in P : f[i] = k - 1
  <2>1. k - 1 \in 0..(c - 1)
    BY <1>1
  <2> HIDE DEF f
  <2> QED
    BY <1>6, <2>1 DEF Surjection
<1> QED
  BY <1>1, <1>7

LEMMA UnshownElements ==
    ASSUME NEW page \in Seq(AnyMessage)
    PROVE  LET P == Places(page) IN
           /\ Unshown(page) \in Seq(AnyMessage) /\ Len(Unshown(page)) = Cardinality(P)
           /\ \A k \in 1..Len(Unshown(page)) : \E i \in P :
                 Unshown(page)[k] = page[i] /\ Rank(P, i) = k - 1
<1> DEFINE P == Places(page)
           place(k) == CHOOSE i \in P : Rank(P, i) = k - 1
<1>1. P \in SUBSET (1..Len(page)) /\ Len(page) \in Nat
  BY DEF Places
<1>2. /\ Cardinality(P) \in Nat
      /\ \A k \in 1..Cardinality(P) : place(k) \in P /\ Rank(P, place(k)) = k - 1
  BY <1>1, RankOnto
<1>3. Unshown(page) = [k \in 1..Cardinality(P) |-> page[place(k)]]
  BY DEF Unshown, Places, Rank
<1> HIDE DEF P, place
<1>4. ASSUME NEW k \in 1..Cardinality(P) PROVE page[place(k)] \in AnyMessage
  <2>1. place(k) \in 1..Len(page)
    BY <1>1, <1>2
  <2> QED
    BY <2>1
<1>5. Unshown(page) \in Seq(AnyMessage) /\ Len(Unshown(page)) = Cardinality(P)
  BY <1>2, <1>3, <1>4
<1>6. \A k \in 1..Cardinality(P) : Unshown(page)[k] = page[place(k)]
  BY <1>3
<1> QED
  BY <1>2, <1>5, <1>6 DEF P

LEMMA ConcatMessages ==
    ASSUME NEW d, NEW r, NEW s \in Seq(AnyMessage), NEW t \in Seq(AnyMessage),
           \A i \in 1..Len(s) : MessageOf(d, r, s[i]),
           \A i \in 1..Len(t) : MessageOf(d, r, t[i])
    PROVE  s \o t \in Seq(AnyMessage) /\ \A i \in 1..Len(s \o t) : MessageOf(d, r, (s \o t)[i])
<1>1. /\ s \o t \in Seq(AnyMessage) /\ Len(s \o t) = Len(s) + Len(t)
      /\ \A i \in 1..(Len(s) + Len(t)) : (s \o t)[i] = IF i <= Len(s) THEN s[i] ELSE t[i - Len(s)]
  BY ConcatProperties
<1>2. Len(s) \in Nat /\ Len(t) \in Nat
  OBVIOUS
<1>3. ASSUME NEW i \in 1..(Len(s) + Len(t)) PROVE MessageOf(d, r, (s \o t)[i])
  <2>1. CASE i <= Len(s)
    BY <1>1, <1>2, <2>1
  <2>2. CASE i > Len(s)
    <3>1. i - Len(s) \in 1..Len(t)
      BY <1>2, <2>2
    <3> QED
      BY <1>1, <1>2, <2>2, <3>1
  <2> QED
    BY <1>2, <2>1, <2>2
<1> QED
  BY <1>1, <1>3

LEMMA PageNext ==
    ASSUME Typed, [Next]_vars
    PROVE  PageOf(db', ui')
<1>1. PageOf(db, ui) /\ ui \in AnyPage /\ DbType(db) /\ ui.room \in Rooms \union {None} /\ ui.request \in Nat
  BY DEF Typed, PageOf, AnyPage
<1>2. CASE ui' = ui
  BY <1>1, <1>2, DbNext, LongerKeeps DEF Typed
<1>3. ASSUME NEW r \in Rooms, EnterRoom(r), db' = db PROVE PageOf(db', ui')
  BY <1>1, <1>3, FreshType DEF EnterRoom, NextRequest
<1>4. CASE ApplyDeletion /\ db' = db
  <2>1. PageOf(db, Fresh(None, NextRequest))
    BY <1>1, FreshType DEF NextRequest
  <2> QED
    BY <1>1, <1>4, <2>1 DEF ApplyDeletion
<1>5. CASE ui.room # None /\ db' = db
           /\ (SendMessage \/ RetryMessage \/ RespondToApproval \/ StopGeneration \/ LoadOlder)
  BY <1>1, <1>5 DEF SendMessage, RetryMessage, RespondToApproval, StopGeneration, LoadOlder,
                    PageOf, AnyPage
<1>6. ui.room = None => ~(SendMessage \/ RetryMessage \/ RespondToApproval \/ StopGeneration \/ LoadOlder)
  <2>1. ui.room = None => ui.card = None /\ DOMAIN ui.shown = {}
    BY <1>1 DEF PageOf, Bare
  <2> QED
    BY <2>1 DEF SendMessage, RetryMessage, RespondToApproval, StopGeneration, LoadOlder
<1>7. ASSUME NEW f \in fetches, ApplyFirst(f), db' = db PROVE PageOf(db', ui')
  <2>1. /\ f.room \in Rooms /\ f.page \in Seq(AnyMessage) /\ f.next \in Nat
        /\ f.next <= Len(db[f.room])
        /\ \A i \in 1..Len(f.page) : MessageOf(db, f.room, f.page[i])
    BY DEF Typed, FetchesType, FetchOf, AnyFetch
  <2>2. CASE ui' = ui
    BY <1>1, <1>7, <2>2
  <2>3. CASE f.room = ui.room /\ ui' = [ui EXCEPT !.loading = FALSE]
    BY <1>1, <1>7, <2>1, <2>3, PageAssumption DEF PageOf, AnyPage
  <2>4. CASE f.room = ui.room
             /\ ui' = [ui EXCEPT !.shown = f.page, !.cursor = f.next, !.loading = FALSE]
    BY <1>1, <1>7, <2>1, <2>4, PageAssumption DEF PageOf, AnyPage
  <2> QED
    BY <1>7, <2>2, <2>3, <2>4 DEF ApplyFirst
<1>8. ASSUME NEW f \in fetches, ApplyOlder(f), db' = db PROVE PageOf(db', ui')
  <2>1. /\ f.room \in Rooms /\ f.page \in Seq(AnyMessage) /\ f.next \in Nat
        /\ f.next <= Len(db[f.room])
        /\ \A i \in 1..Len(f.page) : MessageOf(db, f.room, f.page[i])
    BY DEF Typed, FetchesType, FetchOf, AnyFetch
  <2>2. CASE ui' = ui
    BY <1>1, <1>8, <2>2
  <2>3. CASE f.room = ui.room /\ ui' = [ui EXCEPT !.older = FALSE]
    BY <1>1, <1>8, <2>1, <2>3, PageAssumption DEF PageOf, AnyPage
  <2>4. CASE f.room = ui.room
             /\ ui' = [ui EXCEPT !.shown = Unshown(f.page) \o @, !.cursor = f.next, !.older = FALSE]
    <3> DEFINE s == Unshown(f.page) \o ui.shown
    <3>1. /\ Unshown(f.page) \in Seq(AnyMessage)
          /\ \A i \in 1..Len(Unshown(f.page)) : MessageOf(db, f.room, Unshown(f.page)[i])
      <4>1. /\ Unshown(f.page) \in Seq(AnyMessage)
            /\ \A i \in 1..Len(Unshown(f.page)) : \E j \in 1..Len(f.page) : Unshown(f.page)[i] = f.page[j]
        <5>1. \A i \in Places(f.page) : i \in 1..Len(f.page)
          BY <2>1 DEF Places
        <5> QED
          BY <2>1, <5>1, UnshownElements
      <4> QED
        BY <2>1, <4>1
    <3>2. ui.shown \in Seq(AnyMessage) /\ \A i \in 1..Len(ui.shown) : MessageOf(db, f.room, ui.shown[i])
      BY <1>1, <2>4 DEF PageOf, AnyPage
    <3>3. s \in Seq(AnyMessage) /\ \A i \in 1..Len(s) : MessageOf(db, f.room, s[i])
      BY <3>1, <3>2, ConcatMessages
    <3>4. ui' = [ui EXCEPT !.shown = s, !.cursor = f.next, !.older = FALSE]
      BY <2>4
    <3> HIDE DEF s
    <3>5. f.room = ui.room
      BY <2>4
    <3> QED
      BY <1>1, <1>8, <2>1, <3>3, <3>4, <3>5, PageAssumption DEF PageOf, AnyPage
  <2> QED
    BY <1>8, <2>2, <2>3, <2>4 DEF ApplyOlder
<1>9. CASE HandleEvent /\ db' = db
  <2>1. down # <<>>
    BY <1>9 DEF HandleEvent, HandleMessageCreated, HandleMessageUpdated, HandleStarted, HandleDelta,
         HandleEnd, HandleApprovalRequired, HandleApprovalResolved, HandleChatError, Incoming
  <2>2. EventOf(db, Event) /\ Event.room \in Rooms
    BY <2>1, EventType
  <2>3. Here => ui.room \in Rooms /\ ui.room # None /\ ui.room = Event.room
    BY <2>2, PageAssumption DEF Here
  <2>4. PageOf(db, Quieted(ui)) /\ Quieted(ui).room = ui.room
    BY <1>1 DEF Quieted, PageOf, AnyPage, Bare
  <2>5. ASSUME NEW p, PageOf(db, p), p.room = ui.room, Here, MessageOf(db, ui.room, Event.body)
        PROVE  PageOf(db, Appended(p, Event.body))
    BY <2>3, <2>5, AppendedType DEF Appended
  <2>6. CASE HandleMessageCreated
    BY <1>1, <1>9, <2>2, <2>3, <2>5, <2>6
       DEF HandleMessageCreated, Incoming, Event, EventOf, Carries
  <2>7. CASE HandleMessageUpdated
    <3>1. MessageOf(db, Event.room, Event.body)
      BY <2>2, <2>7 DEF HandleMessageUpdated, Incoming, Event, EventOf, Carries
    <3>2. CASE Here /\ Event.body.id \in Ids
      <4> DEFINE updated(old) == IF old.id = Event.body.id THEN Event.body ELSE old
                 s == [i \in DOMAIN ui.shown |-> updated(ui.shown[i])]
      <4>1. ui.shown \in Seq(AnyMessage) /\ \A i \in 1..Len(ui.shown) : MessageOf(db, ui.room, ui.shown[i])
        BY <1>1 DEF PageOf, AnyPage
      <4>2. s \in Seq(AnyMessage) /\ \A i \in 1..Len(s) : MessageOf(db, ui.room, s[i])
        BY <2>3, <3>1, <3>2, <4>1 DEF MessageOf
      <4>3. ui' = [ui EXCEPT !.shown = s]
        BY <2>7, <3>2 DEF HandleMessageUpdated
      <4> HIDE DEF s
      <4> QED
        BY <1>1, <1>9, <2>3, <3>2, <4>2, <4>3 DEF PageOf, AnyPage
    <3> QED
      BY <1>1, <1>9, <2>3, <2>5, <2>7, <3>1, <3>2 DEF HandleMessageUpdated
  <2>8. CASE HandleStarted
    BY <1>1, <1>9, <2>3, <2>8 DEF HandleStarted, PageOf, AnyPage
  <2>9. CASE HandleDelta
    <3>1. Event.body \in Rooms \X Nat
      BY <2>2, <2>9 DEF HandleDelta, Incoming, Event, EventOf
    <3> QED
      BY <1>1, <1>9, <2>3, <2>9, <3>1 DEF HandleDelta, PageOf, AnyPage
  <2>10. CASE HandleEnd
    <3> DEFINE ended == [Quieted(ui) EXCEPT !.card = None]
    <3>1. PageOf(db, ended) /\ ended.room = ui.room
      BY <2>4, PageAssumption DEF PageOf, AnyPage, Bare
    <3>2. Event.body # None => MessageOf(db, Event.room, Event.body)
      BY <2>2, <2>10 DEF HandleEnd, Incoming, Event, EventOf, Carries, Ends
    <3>3. ui' = IF ~Here THEN ui ELSE IF Event.body = None THEN ended ELSE Appended(ended, Event.body)
      BY <2>10 DEF HandleEnd
    <3> HIDE DEF ended
    <3> QED
      BY <1>1, <1>9, <2>3, <2>5, <3>1, <3>2, <3>3
  <2>11. CASE HandleApprovalRequired
    <3>1. CardOf(db, Event.room, Event.body)
      BY <2>2, <2>11 DEF HandleApprovalRequired, Incoming, Event, EventOf
    <3> QED
      BY <1>1, <1>9, <2>3, <2>4, <2>11, <3>1 DEF HandleApprovalRequired, PageOf, AnyPage, CardOf
  <2>12. CASE HandleApprovalResolved
    BY <1>1, <1>9, <2>3, <2>12, PageAssumption DEF HandleApprovalResolved, PageOf, AnyPage
  <2>13. CASE HandleChatError
    BY <1>9, <2>4, <2>13 DEF HandleChatError
  <2> QED
    BY <1>9, <2>6, <2>7, <2>8, <2>9, <2>10, <2>11, <2>12, <2>13 DEF HandleEvent
<1> QED
  BY <1>1, <1>2, <1>3, <1>4, <1>5, <1>6, <1>7, <1>8, <1>9, UiSteps

LEMMA FetchSteps ==
    ASSUME [Next]_vars
    PROVE  \/ fetches' \subseteq fetches
           \/ LoadOlder
           \/ \E r \in Rooms : EnterRoom(r)
           \/ \E f \in fetches : ServeMessages(f)
<1>1. CASE User
  BY <1>1 DEF User, DeleteRoom, SendMessage, RetryMessage, RespondToApproval, StopGeneration
<1>2. CASE Answers
  BY <1>2 DEF Answers, ApplyFirst, ApplyOlder, ServeDeletion, ApplyDeletion
<1>3. CASE HandleEvent
  BY <1>3 DEF HandleEvent, HandleMessageCreated, HandleMessageUpdated, HandleStarted, HandleDelta,
         HandleEnd, HandleApprovalRequired, HandleApprovalResolved, HandleChatError, Incoming
<1>4. CASE Disconnect \/ Connect
  BY <1>4 DEF Disconnect, Connect, client
<1>5. CASE Receive
  BY <1>5 DEF Receive, JoinBegins, LeaveRoom, ReceiveRetry, ReceiveResponse, ReceiveStop, Refuse,
              ReceiveSend, Arrived, client
<1>6. ASSUME NEW r \in Rooms, JoinEnds(r) \/ Start(r) \/ Delta(r) \/ Finish(r) PROVE fetches' = fetches
  BY <1>6 DEF JoinEnds, Start, Delta, Finish, Complete, Cancel, FailSend, FailRetry, FailApproval,
              Unclear, AskApproval, Close, Vanish, InRoom, Runs, client
<1>7. CASE UNCHANGED vars
  BY <1>7 DEF vars, client
<1> QED
  BY <1>1, <1>2, <1>3, <1>4, <1>5, <1>6, <1>7 DEF Next, Gateway

LEMMA VisitSteps ==
    ASSUME Typed, [Next]_vars
    PROVE  \/ ui'.room = ui.room /\ ui'.request = ui.request
           \/ \E r \in Rooms : EnterRoom(r)
           \/ ApplyDeletion /\ ui' = Fresh(None, NextRequest)
<1> DEFINE Same(p) == p.room = ui.room /\ p.request = ui.request
<1>1. ui \in AnyPage /\ Same(ui)
  BY DEF Typed, PageOf, AnyPage
<1>2. \A m : Same(Appended(ui, m)) /\ Same(Quieted(ui))
             /\ Same(Appended([Quieted(ui) EXCEPT !.card = None], m))
  BY <1>1 DEF Appended, Quieted, AnyPage
<1>3. HandleEvent => Same(ui')
  <2>1. HandleMessageCreated \/ HandleMessageUpdated => Same(ui')
    BY <1>1, <1>2 DEF HandleMessageCreated, HandleMessageUpdated, AnyPage
  <2>2. HandleStarted \/ HandleDelta => Same(ui')
    BY <1>1 DEF HandleStarted, HandleDelta, AnyPage
  <2>3. HandleEnd => Same(ui')
    <3>1. Same([Quieted(ui) EXCEPT !.card = None])
      BY <1>1 DEF Quieted, AnyPage
    <3> QED
      BY <1>1, <1>2, <3>1 DEF HandleEnd
  <2>4. HandleApprovalRequired \/ HandleApprovalResolved \/ HandleChatError => Same(ui')
    BY <1>1 DEF HandleApprovalRequired, HandleApprovalResolved, HandleChatError, Quieted, AnyPage
  <2> QED
    BY <2>1, <2>2, <2>3, <2>4 DEF HandleEvent
<1>4. SendMessage \/ RetryMessage \/ RespondToApproval \/ StopGeneration \/ LoadOlder => Same(ui')
  BY <1>1 DEF SendMessage, RetryMessage, RespondToApproval, StopGeneration, LoadOlder, AnyPage
<1>5. ASSUME NEW f \in fetches, ApplyFirst(f) \/ ApplyOlder(f) PROVE Same(ui')
  BY <1>1, <1>5 DEF ApplyFirst, ApplyOlder, AnyPage
<1>6. ApplyDeletion => ui' = ui \/ ui' = Fresh(None, NextRequest)
  BY DEF ApplyDeletion
<1>7. ui' = ui => Same(ui')
  BY <1>1
<1> QED
  BY <1>3, <1>4, <1>5, <1>6, <1>7, UiSteps

LEMMA RequestGrows ==
    ASSUME Typed, [Next]_vars
    PROVE  /\ ui.request \in Nat /\ ui'.request \in Nat
           /\ ui'.request \in {ui.request, ui.request + 1}
<1>1. ui.request \in Nat
  BY DEF Typed, PageOf, AnyPage
<1>2. \A r : Fresh(r, NextRequest).request = ui.request + 1
  BY DEF Fresh, NextRequest
<1>3. \A r \in Rooms : EnterRoom(r) => ui'.request = ui.request + 1
  BY <1>2 DEF EnterRoom
<1>4. ui'.request = ui.request \/ ui'.request = ui.request + 1
  BY <1>2, <1>3, VisitSteps
<1> QED
  BY <1>1, <1>4

LEMMA PageServed ==
    ASSUME Typed, NEW r \in Rooms, NEW c \in 0..Len(db[r])
    PROVE  LET p == Page(db[r], c) IN
           /\ p.messages \in Seq(AnyMessage) /\ p.next \in Nat /\ p.next <= Len(db[r])
           /\ \A i \in 1..Len(p.messages) : MessageOf(db, r, p.messages[i])
<1> DEFINE last  == IF c = 0 THEN Len(db[r]) ELSE c - 1
           first == IF last > PageSize THEN last - PageSize + 1 ELSE 1
<1>1. /\ db[r] \in Seq(AnyMessage) /\ Len(db[r]) \in Nat
      /\ \A n \in 1..Len(db[r]) : db[r][n] \in AnyMessage /\ db[r][n].id = n /\ db[r][n].room = r
  BY DEF Typed, DbType
<1>2. last \in 0..Len(db[r]) /\ first \in 1..(last + 1)
  BY <1>1, PageAssumption
<1>3. /\ Page(db[r], c).messages = SubSeq(db[r], first, last)
      /\ Page(db[r], c).next = IF last > PageSize THEN last ELSE 0
  BY DEF Page
<1> HIDE DEF last, first
<1>4. /\ SubSeq(db[r], first, last) \in Seq(AnyMessage)
      /\ Len(SubSeq(db[r], first, last)) = last - first + 1
      /\ \A i \in 1..(last - first + 1) : SubSeq(db[r], first, last)[i] = db[r][first + i - 1]
  <2>1. \A i \in first..last : db[r][i] \in AnyMessage
    BY <1>1, <1>2
  <2>2. /\ SubSeq(db[r], first, last) \in Seq(AnyMessage)
        /\ Len(SubSeq(db[r], first, last)) = IF first <= last THEN last - first + 1 ELSE 0
        /\ \A i \in 1..(last - first + 1) : SubSeq(db[r], first, last)[i] = db[r][first + i - 1]
    BY <1>1, <1>2, <2>1, SubSeqProperties
  <2> QED
    BY <1>1, <1>2, <2>2
<1>5. ASSUME NEW i \in 1..(last - first + 1) PROVE MessageOf(db, r, SubSeq(db[r], first, last)[i])
  <2>1. first + i - 1 \in 1..Len(db[r])
    BY <1>1, <1>2
  <2> QED
    BY <1>1, <1>4, <2>1 DEF MessageOf
<1>6. (IF last > PageSize THEN last ELSE 0) \in Nat /\ (IF last > PageSize THEN last ELSE 0) <= Len(db[r])
  BY <1>1, <1>2
<1> QED
  BY <1>3, <1>4, <1>5, <1>6

LEMMA FetchesNext ==
    ASSUME Typed, [Next]_vars
    PROVE  FetchesType'
<1>1. \A f \in fetches : FetchOf(db', ui'.request, f)
  BY DbNext, LongerKeeps, RequestGrows DEF Typed, FetchesType
<1>2. ui.request \in Nat /\ ui'.request \in Nat
  BY RequestGrows
<1>3. CASE fetches' \subseteq fetches
  BY <1>1, <1>3 DEF FetchesType
<1>4. ASSUME NEW r \in Rooms, EnterRoom(r) PROVE FetchesType'
  <2> DEFINE g == [kind |-> "first", room |-> r, request |-> NextRequest, cursor |-> 0,
                   status |-> "sent", page |-> <<>>, next |-> 0]
  <2>1. ui'.request = NextRequest /\ db' = db /\ NextRequest \in 1..NextRequest /\ Len(db[r]) \in Nat
    BY <1>2, <1>4 DEF EnterRoom, Fresh, NextRequest, server, Typed, DbType
  <2>2. g \in AnyFetch /\ \A i \in 1..Len(g.page) : FALSE
    BY <2>1 DEF AnyFetch
  <2>3. FetchOf(db', ui'.request, g)
    BY <2>1, <2>2 DEF FetchOf
  <2>4. fetches' = fetches \union {g}
    BY <1>4 DEF EnterRoom
  <2> QED
    BY <1>1, <2>3, <2>4 DEF FetchesType
<1>5. CASE LoadOlder
  <2> DEFINE g == [kind |-> "older", room |-> ui.room, request |-> ui.request,
                   cursor |-> ui.cursor, status |-> "sent", page |-> <<>>, next |-> 0]
  <2>1. ui.room \in Rooms /\ ui.cursor \in Nat /\ ui.cursor <= Len(db[ui.room])
        /\ Len(db[ui.room]) \in Nat
    BY <1>5 DEF LoadOlder, Typed, PageOf, AnyPage, DbType
  <2>2. g \in AnyFetch /\ \A i \in 1..Len(g.page) : FALSE
    BY <1>2, <2>1 DEF AnyFetch
  <2>3. ui'.request = ui.request /\ db' = db /\ ui.request \in 1..ui.request
    BY <1>2, <1>5 DEF LoadOlder, server, Typed, PageOf, AnyPage
  <2>4. FetchOf(db', ui'.request, g)
    BY <2>1, <2>2, <2>3 DEF FetchOf
  <2>5. fetches' = fetches \union {g}
    BY <1>5 DEF LoadOlder
  <2> QED
    BY <1>1, <2>4, <2>5 DEF FetchesType
<1>6. ASSUME NEW f \in fetches, ServeMessages(f) PROVE FetchesType'
  <2> DEFINE p == Page(db[f.room], f.cursor)
             g == [f EXCEPT !.status = "answered", !.page = p.messages, !.next = p.next]
             h == [f EXCEPT !.status = "failed"]
  <2>1. FetchOf(db, ui.request, f) /\ f \in AnyFetch /\ f.room \in Rooms /\ f.cursor \in Nat
        /\ f.cursor <= Len(db[f.room]) /\ Len(db[f.room]) \in Nat
    BY DEF Typed, FetchesType, FetchOf, AnyFetch, DbType
  <2>2. /\ p.messages \in Seq(AnyMessage) /\ p.next \in Nat /\ p.next <= Len(db[f.room])
        /\ \A i \in 1..Len(p.messages) : MessageOf(db, f.room, p.messages[i])
    BY <2>1, PageServed
  <2>3. ui' = ui /\ db' = db
    BY <1>6 DEF ServeMessages, server
  <2>4. FetchOf(db, ui.request, h)
    BY <2>1 DEF FetchOf, AnyFetch
  <2>5. FetchOf(db, ui.request, g)
    <3> HIDE DEF p
    <3> QED
      BY <2>1, <2>2 DEF FetchOf, AnyFetch
  <2>6. fetches' \subseteq fetches \union {g, h}
    BY <1>6 DEF ServeMessages
  <2> HIDE DEF g, h
  <2> QED
    BY <1>1, <2>3, <2>4, <2>5, <2>6 DEF FetchesType
<1> QED
  BY <1>3, <1>4, <1>5, <1>6, FetchSteps

LEMMA DeletionSteps ==
    ASSUME [Next]_vars
    PROVE  \/ deletion' = deletion
           \/ \E r \in Rooms : DeleteRoom(r)
           \/ ServeDeletion \/ ApplyDeletion
<1>1. CASE User
  BY <1>1 DEF User, EnterRoom, SendMessage, RetryMessage, RespondToApproval, StopGeneration, LoadOlder
<1>2. CASE Answers
  BY <1>2 DEF Answers, ApplyFirst, ApplyOlder, ServeMessages
<1>3. CASE HandleEvent
  BY <1>3 DEF HandleEvent, HandleMessageCreated, HandleMessageUpdated, HandleStarted, HandleDelta,
         HandleEnd, HandleApprovalRequired, HandleApprovalResolved, HandleChatError, Incoming
<1>4. CASE Disconnect \/ Connect
  BY <1>4 DEF Disconnect, Connect, client
<1>5. CASE Receive
  BY <1>5 DEF Receive, JoinBegins, LeaveRoom, ReceiveRetry, ReceiveResponse, ReceiveStop, Refuse,
              ReceiveSend, Arrived, client
<1>6. ASSUME NEW r \in Rooms, JoinEnds(r) \/ Start(r) \/ Delta(r) \/ Finish(r) PROVE deletion' = deletion
  BY <1>6 DEF JoinEnds, Start, Delta, Finish, Complete, Cancel, FailSend, FailRetry, FailApproval,
              Unclear, AskApproval, Close, Vanish, InRoom, Runs, client
<1>7. CASE UNCHANGED vars
  BY <1>7 DEF vars, client
<1> QED
  BY <1>1, <1>2, <1>3, <1>4, <1>5, <1>6, <1>7 DEF Next, Gateway

LEMMA DeletionNext ==
    ASSUME Typed, [Next]_vars
    PROVE  DeletionType'
<1>1. CASE deletion' = deletion
  BY <1>1 DEF DeletionType, Typed
<1>2. ASSUME NEW r \in Rooms, DeleteRoom(r) PROVE DeletionType'
  BY <1>2 DEF DeletionType, Typed, DeleteRoom
<1>3. CASE ServeDeletion \/ ApplyDeletion
  BY <1>3 DEF DeletionType, Typed, ServeDeletion, ApplyDeletion
<1> QED
  BY <1>1, <1>2, <1>3, DeletionSteps

LEMMA BoundsNext ==
    ASSUME Typed, [Next]_vars
    PROVE  BoundsType'
<1>1. UNCHANGED bounds \/ (acts < MaxActs /\ acts' = acts + 1 /\ UNCHANGED faults) \/ Fault
  <2>1. CASE User
    BY <2>1 DEF User, EnterRoom, DeleteRoom, SendMessage, RetryMessage, RespondToApproval,
            StopGeneration, LoadOlder, Act
  <2>2. ASSUME NEW f \in fetches, ServeMessages(f) \/ ApplyFirst(f) \/ ApplyOlder(f)
        PROVE  UNCHANGED bounds \/ Fault
    BY <2>2 DEF ServeMessages, ApplyFirst, ApplyOlder
  <2>3. ServeDeletion \/ ApplyDeletion => UNCHANGED bounds \/ Fault
    BY DEF ServeDeletion, ApplyDeletion
  <2>4. CASE HandleEvent
    BY <2>4 DEF HandleEvent, HandleMessageCreated, HandleMessageUpdated, HandleStarted, HandleDelta,
           HandleEnd, HandleApprovalRequired, HandleApprovalResolved, HandleChatError, Incoming
  <2>5. CASE Disconnect \/ Connect
    BY <2>5 DEF Disconnect, Connect, Fault
  <2>6. CASE Receive
    BY <2>6 DEF Receive, JoinBegins, LeaveRoom, ReceiveRetry, ReceiveResponse, ReceiveStop, Refuse,
                ReceiveSend
  <2>7. ASSUME NEW r \in Rooms, JoinEnds(r) \/ Start(r) \/ Delta(r) \/ Finish(r)
        PROVE  UNCHANGED bounds \/ Fault
    BY <2>7 DEF JoinEnds, Start, Delta, Finish, Complete, Cancel, FailSend, FailRetry, FailApproval,
                Unclear, AskApproval, Close, Vanish
  <2> QED
    BY <2>1, <2>2, <2>3, <2>4, <2>5, <2>6, <2>7 DEF Next, Gateway, Answers, vars
<1>2. acts \in 0..MaxActs /\ faults \in 0..MaxFaults /\ MaxActs \in Nat /\ MaxFaults \in Nat
  BY PageAssumption DEF Typed, BoundsType
<1> QED
  BY <1>1, <1>2 DEF BoundsType, bounds, Fault

LEMMA CalmSteps ==
    ASSUME [Next]_vars
    PROVE  (calm' = calm \/ calm' \in BOOLEAN)
<1>1. CASE User
  BY <1>1 DEF User, EnterRoom, DeleteRoom, SendMessage, RetryMessage, RespondToApproval,
          StopGeneration, LoadOlder, history
<1>2. CASE Answers
  <2>1. ASSUME NEW f \in fetches, ServeMessages(f) \/ ApplyFirst(f) \/ ApplyOlder(f)
        PROVE  calm' = calm \/ calm' \in BOOLEAN
    BY <2>1 DEF ServeMessages, ApplyFirst, ApplyOlder, history
  <2>2. ServeDeletion \/ ApplyDeletion => calm' = calm \/ calm' \in BOOLEAN
    BY DEF ServeDeletion, ApplyDeletion, history
  <2> QED
    BY <1>2, <2>1, <2>2 DEF Answers
<1>3. CASE HandleEvent
  BY <1>3 DEF HandleEvent, HandleMessageCreated, HandleMessageUpdated, HandleStarted, HandleDelta,
         HandleEnd, HandleApprovalRequired, HandleApprovalResolved, HandleChatError, Incoming
<1>4. CASE Disconnect \/ Connect
  BY <1>4 DEF Disconnect, Connect, history
<1>5. CASE Receive
  BY <1>5 DEF Receive, JoinBegins, LeaveRoom, ReceiveRetry, ReceiveResponse, ReceiveStop, Refuse,
              ReceiveSend, Changed, history
<1>6. ASSUME NEW r \in Rooms, JoinEnds(r) \/ Start(r) \/ Delta(r) \/ Finish(r)
      PROVE  calm' = calm \/ calm' \in BOOLEAN
  <2>1. CASE JoinEnds(r) \/ Start(r) \/ Delta(r)
    BY <2>1 DEF JoinEnds, Start, Delta, history
  <2>2. CASE Complete(r) \/ Cancel(r) \/ FailSend(r) \/ FailApproval(r) \/ AskApproval(r)
    BY <2>2 DEF Complete, Cancel, FailSend, FailApproval, AskApproval, Changed
  <2>3. CASE FailRetry(r) \/ Unclear(r) \/ Close(r) \/ Vanish(r)
    BY <2>3 DEF FailRetry, Unclear, Close, Vanish, Changed, history
  <2> QED
    BY <1>6, <2>1, <2>2, <2>3 DEF Finish
<1>7. CASE UNCHANGED vars
  BY <1>7 DEF vars, history
<1> QED
  BY <1>1, <1>2, <1>3, <1>4, <1>5, <1>6, <1>7 DEF Next, Gateway

LEMMA ConnectedSteps ==
    ASSUME [Next]_vars
    PROVE  connected' = connected \/ Disconnect \/ Connect
<1>1. CASE User
  BY <1>1 DEF User, EnterRoom, DeleteRoom, SendMessage, RetryMessage, RespondToApproval,
          StopGeneration, LoadOlder
<1>2. CASE Answers
  BY <1>2 DEF Answers, ServeMessages, ApplyFirst, ApplyOlder, ServeDeletion, ApplyDeletion
<1>3. CASE HandleEvent
  BY <1>3 DEF HandleEvent, HandleMessageCreated, HandleMessageUpdated, HandleStarted, HandleDelta,
         HandleEnd, HandleApprovalRequired, HandleApprovalResolved, HandleChatError, Incoming
<1>4. CASE Receive
  BY <1>4 DEF Receive, JoinBegins, LeaveRoom, ReceiveRetry, ReceiveResponse, ReceiveStop, Refuse,
              ReceiveSend, Arrived
<1>5. ASSUME NEW r \in Rooms, JoinEnds(r) \/ Start(r) \/ Delta(r) \/ Finish(r)
      PROVE  connected' = connected
  BY <1>5 DEF JoinEnds, Start, Delta, Finish, Complete, Cancel, FailSend, FailRetry, FailApproval,
              Unclear, AskApproval, Close, Vanish, InRoom, Runs
<1> QED
  BY <1>1, <1>2, <1>3, <1>4, <1>5 DEF Next, Gateway, vars

LEMMA DroppedSteps ==
    ASSUME [Next]_vars
    PROVE  dropped' = dropped \/ Disconnect
<1>1. CASE User
  BY <1>1 DEF User, EnterRoom, DeleteRoom, SendMessage, RetryMessage, RespondToApproval,
          StopGeneration, LoadOlder, history
<1>2. CASE Answers
  BY <1>2 DEF Answers, ServeMessages, ApplyFirst, ApplyOlder, ServeDeletion, ApplyDeletion, history
<1>3. CASE HandleEvent \/ Connect
  BY <1>3 DEF HandleEvent, HandleMessageCreated, HandleMessageUpdated, HandleStarted, HandleDelta,
         HandleEnd, HandleApprovalRequired, HandleApprovalResolved, HandleChatError, Incoming,
         Connect, history
<1>4. CASE Receive
  BY <1>4 DEF Receive, JoinBegins, LeaveRoom, ReceiveRetry, ReceiveResponse, ReceiveStop, Refuse,
              ReceiveSend, Arrived, history
<1>5. ASSUME NEW r \in Rooms, JoinEnds(r) \/ Start(r) \/ Delta(r) \/ Finish(r)
      PROVE  dropped' = dropped
  BY <1>5 DEF JoinEnds, Start, Delta, Finish, Complete, Cancel, FailSend, FailRetry, FailApproval,
              Unclear, AskApproval, Close, Vanish, InRoom, Runs, history
<1> QED
  BY <1>1, <1>2, <1>3, <1>4, <1>5 DEF Next, Gateway, vars, history

LEMMA FlagsNext ==
    ASSUME Typed, [Next]_vars
    PROVE  FlagsType'
<1>1. connected \in BOOLEAN /\ calm \in BOOLEAN /\ dropped \in BOOLEAN
  BY DEF Typed, FlagsType
<1>2. connected' \in BOOLEAN
  BY <1>1, ConnectedSteps DEF Disconnect, Connect
<1>3. dropped' \in BOOLEAN
  BY <1>1, DroppedSteps DEF Disconnect
<1> QED
  BY <1>1, <1>2, <1>3, CalmSteps DEF FlagsType

LEMMA ReceivedRoom ==
    ASSUME Typed, Receive
    PROVE  up # <<>> /\ Room \in Rooms /\ RequestOf(db, Head(up)) /\ connected
<1>1. up # <<>> /\ connected
  BY DEF Receive, JoinBegins, LeaveRoom, ReceiveRetry, ReceiveResponse, ReceiveStop, Refuse,
         ReceiveSend, Arrived
<1> QED
  BY <1>1, RoomType

LEMMA RoomsNext ==
    ASSUME Typed, [Next]_vars
    PROVE  RoomsType'
<1>0. joining \subseteq Rooms /\ joined \subseteq Rooms /\ gone \subseteq Rooms /\ missed \subseteq Rooms
  BY DEF Typed, RoomsType
<1>1. missed' \subseteq Rooms
  <2>1. CASE User
    BY <1>0, <2>1 DEF User, EnterRoom, DeleteRoom, SendMessage, RetryMessage, RespondToApproval,
            StopGeneration, LoadOlder, history
  <2>2. CASE Answers
    BY <1>0, <2>2 DEF Answers, ServeMessages, ApplyFirst, ApplyOlder, ServeDeletion, ApplyDeletion, history
  <2>3. CASE HandleEvent \/ Connect \/ Disconnect
    BY <1>0, <2>3 DEF HandleEvent, HandleMessageCreated, HandleMessageUpdated, HandleStarted, HandleDelta,
           HandleEnd, HandleApprovalRequired, HandleApprovalResolved, HandleChatError, Incoming,
           Connect, Disconnect, history
  <2>4. CASE Receive
    BY <1>0, <2>4 DEF Receive, JoinBegins, LeaveRoom, ReceiveRetry, ReceiveResponse, ReceiveStop, Refuse,
                ReceiveSend, Arrived, history
  <2>5. ASSUME NEW r \in Rooms, JoinEnds(r) \/ Start(r) \/ Delta(r) \/ Finish(r)
        PROVE  missed' = missed \/ missed' = missed \union {r}
    BY <2>5 DEF JoinEnds, Start, Delta, Finish, Complete, Cancel, FailSend, FailRetry, FailApproval,
                Unclear, AskApproval, Close, Vanish, InRoom, Runs, history, Ended
  <2> QED
    BY <1>0, <2>1, <2>2, <2>3, <2>4, <2>5 DEF Next, Gateway, vars, history
<1>2. gone' = gone \/ ServeDeletion
  <2>1. CASE User
    BY <2>1 DEF User, EnterRoom, DeleteRoom, SendMessage, RetryMessage, RespondToApproval,
            StopGeneration, LoadOlder, server
  <2>2. CASE Answers
    BY <2>2 DEF Answers, ServeMessages, ApplyFirst, ApplyOlder, ApplyDeletion, server
  <2>3. CASE HandleEvent \/ Connect \/ Disconnect
    BY <2>3 DEF HandleEvent, HandleMessageCreated, HandleMessageUpdated, HandleStarted, HandleDelta,
           HandleEnd, HandleApprovalRequired, HandleApprovalResolved, HandleChatError, Incoming,
           Connect, Disconnect, server
  <2>4. CASE Receive
    BY <2>4 DEF Receive, JoinBegins, LeaveRoom, ReceiveRetry, ReceiveResponse, ReceiveStop, Refuse,
                ReceiveSend, Arrived
  <2>5. ASSUME NEW r \in Rooms, JoinEnds(r) \/ Start(r) \/ Delta(r) \/ Finish(r)
        PROVE  gone' = gone
    BY <2>5 DEF JoinEnds, Start, Delta, Finish, Complete, Cancel, FailSend, FailRetry, FailApproval,
                Unclear, AskApproval, Close, Vanish, InRoom, Runs
  <2> QED
    BY <2>1, <2>2, <2>3, <2>4, <2>5 DEF Next, Gateway, vars, server
<1>3. gone' \subseteq Rooms
  BY <1>0, <1>2 DEF ServeDeletion, Typed, DeletionType
<1>4. joining' \subseteq Rooms /\ joined' \subseteq Rooms
  <2>1. CASE User
    BY <1>0, <2>1 DEF User, EnterRoom, DeleteRoom, SendMessage, RetryMessage, RespondToApproval,
            StopGeneration, LoadOlder, server
  <2>2. CASE Answers
    BY <1>0, <2>2 DEF Answers, ServeMessages, ApplyFirst, ApplyOlder, ServeDeletion, ApplyDeletion, server
  <2>3. CASE HandleEvent \/ Connect \/ Disconnect
    BY <1>0, <2>3 DEF HandleEvent, HandleMessageCreated, HandleMessageUpdated, HandleStarted, HandleDelta,
           HandleEnd, HandleApprovalRequired, HandleApprovalResolved, HandleChatError, Incoming,
           Connect, Disconnect, server
  <2>4. CASE Receive
    <3>1. Room \in Rooms
      BY <2>4, ReceivedRoom
    <3> QED
      BY <1>0, <2>4, <3>1 DEF Receive, JoinBegins, LeaveRoom, ReceiveRetry, ReceiveResponse, ReceiveStop,
         Refuse, ReceiveSend, Arrived
  <2>5. ASSUME NEW r \in Rooms, JoinEnds(r) \/ Start(r) \/ Delta(r) \/ Finish(r)
        PROVE  joining' \subseteq Rooms /\ joined' \subseteq Rooms
    <3>1. CASE JoinEnds(r)
      BY <1>0, <3>1 DEF JoinEnds
    <3>2. CASE ~JoinEnds(r)
      BY <1>0, <2>5, <3>2 DEF Start, Delta, Finish, Complete, Cancel, FailSend, FailRetry, FailApproval,
                Unclear, AskApproval, Close, Vanish, InRoom, Runs
    <3> QED
      BY <3>1, <3>2
  <2> QED
    BY <1>0, <2>1, <2>2, <2>3, <2>4, <2>5 DEF Next, Gateway, vars, server
<1> QED
  BY <1>1, <1>3, <1>4 DEF RoomsType

(* What the page emits.                                                    *)
RequestsOf(d, s) == s \in Seq(AnyRequest) /\ \A i \in 1..Len(s) : RequestOf(d, s[i])

LEMMA RequestSequences ==
    ASSUME NEW d
    PROVE  /\ RequestsOf(d, <<>>)
           /\ \A q : RequestOf(d, q) => RequestsOf(d, <<q>>)
           /\ \A s, t : RequestsOf(d, s) /\ RequestsOf(d, t) => RequestsOf(d, s \o t)
<1>1. RequestsOf(d, <<>>)
  BY DEF RequestsOf
<1>2. ASSUME NEW q, RequestOf(d, q) PROVE RequestsOf(d, <<q>>)
  BY <1>2 DEF RequestsOf, RequestOf
<1>3. ASSUME NEW s, NEW t, RequestsOf(d, s), RequestsOf(d, t) PROVE RequestsOf(d, s \o t)
  <2>1. /\ s \o t \in Seq(AnyRequest) /\ Len(s \o t) = Len(s) + Len(t)
        /\ \A i \in 1..(Len(s) + Len(t)) : (s \o t)[i] = IF i <= Len(s) THEN s[i] ELSE t[i - Len(s)]
    BY <1>3, ConcatProperties DEF RequestsOf
  <2>2. Len(s) \in Nat /\ Len(t) \in Nat
    BY <1>3 DEF RequestsOf
  <2>3. ASSUME NEW i \in 1..(Len(s) + Len(t)) PROVE RequestOf(d, (s \o t)[i])
    <3>1. CASE i <= Len(s)
      BY <1>3, <2>1, <2>2, <3>1 DEF RequestsOf
    <3>2. CASE i > Len(s)
      <4>1. i - Len(s) \in 1..Len(t)
        BY <2>2, <3>2
      <4> QED
        BY <1>3, <2>1, <2>2, <3>2, <4>1 DEF RequestsOf
    <3> QED
      BY <2>2, <3>1, <3>2
  <2> QED
    BY <2>1, <2>3 DEF RequestsOf
<1> QED
  BY <1>1, <1>2, <1>3

LEMMA RequestMade ==
    ASSUME NEW d, NEW r \in Rooms
    PROVE  /\ \A op \in {"join", "leave", "send", "stop"} : RequestOf(d, Request(op, r, None))
           /\ \A n \in 1..Len(d[r]) : n \in Nat => RequestOf(d, Request("retry", r, n))
           /\ \A c : CardOf(d, r, c) => RequestOf(d, Request("respond", r, c))
BY DEF RequestOf, AnyRequest, Request, CardOf

Asking == {"send", "retry", "respond", "stop"}

LEMMA Requested ==
    ASSUME Typed, SendMessage \/ RetryMessage \/ RespondToApproval \/ StopGeneration
    PROVE  /\ joining' = joining /\ joined' = joined
           /\ \E op \in Asking : \E q \in Rooms : \E arg :
                 RequestOf(db, Request(op, q, arg)) /\ up' = up \o <<Request(op, q, arg)>>
<1>1. joining' = joining /\ joined' = joined
  BY DEF SendMessage, RetryMessage, RespondToApproval, StopGeneration, server
<1>2. PageOf(db, ui) /\ ui \in AnyPage
  BY DEF Typed, PageOf
<1>3. CASE SendMessage \/ StopGeneration
  <2>1. ui.room \in Rooms
    BY <1>2, <1>3 DEF AnyPage, SendMessage, StopGeneration
  <2> QED
    BY <1>1, <1>3, <2>1, RequestMade DEF SendMessage, StopGeneration, Emit, Asking
<1>4. CASE RetryMessage
  <2>1. PICK i \in DOMAIN ui.shown : up' = up \o <<Request("retry", ui.room, ui.shown[i].id)>>
    BY <1>4 DEF RetryMessage, Emit
  <2>2. i \in 1..Len(ui.shown)
    BY <1>2 DEF AnyPage
  <2>3. ui.room # None
    BY <1>2, <2>2 DEF PageOf, Bare
  <2>4. MessageOf(db, ui.room, ui.shown[i]) /\ ui.room \in Rooms
    BY <1>2, <2>2, <2>3 DEF PageOf, AnyPage
  <2>5. RequestOf(db, Request("retry", ui.room, ui.shown[i].id))
    BY <2>4, RequestMade DEF MessageOf, AnyMessage
  <2> QED
    BY <1>1, <2>1, <2>4, <2>5 DEF Asking
<1>5. CASE RespondToApproval
  <2>1. CardOf(db, ui.card.room, ui.card) /\ ui.card.room \in Rooms
    BY <1>2, <1>5 DEF RespondToApproval, PageOf, CardOf, AnyCard
  <2>2. RequestOf(db, Request("respond", ui.card.room, ui.card))
    BY <2>1, RequestMade
  <2> QED
    BY <1>1, <1>5, <2>1, <2>2 DEF RespondToApproval, Emit, Asking
<1> QED
  BY <1>3, <1>4, <1>5

(* What reaches the gateway: a request received, lost or added.            *)
LEMMA UpSteps ==
    ASSUME Typed, [Next]_vars
    PROVE  \/ UNCHANGED up
           \/ Disconnect
           \/ Receive /\ up # <<>> /\ up' = Tail(up)
           \/ db' = db /\ \E s : RequestsOf(db, s) /\ up' = up \o s
<1>1. DbType(db) /\ PageOf(db, ui) /\ ui \in AnyPage
  BY DEF Typed, PageOf
<1>2. ASSUME NEW s, RequestsOf(db, s), up' = up \o s, db' = db
      PROVE  db' = db /\ \E t : RequestsOf(db, t) /\ up' = up \o t
  BY <1>2
<1>3. CASE User
  <2>1. ASSUME NEW r \in Rooms, EnterRoom(r)
        PROVE  db' = db /\ \E s : RequestsOf(db, s) /\ up' = up \o s
    <3> DEFINE s == (IF ui.room \in {None, r} THEN <<>> ELSE <<Request("leave", ui.room, None)>>)
                    \o <<Request("join", r, None)>>
    <3>1. ui.room \in {None, r} \/ ui.room \in Rooms
      BY <1>1 DEF AnyPage
    <3>2. RequestsOf(db, s)
      BY <3>1, RequestSequences, RequestMade
    <3>3. up' = up \o s /\ db' = db
      BY <2>1 DEF EnterRoom, Emit, server
    <3> HIDE DEF s
    <3> QED
      BY <3>2, <3>3
  <2>2. CASE SendMessage \/ RetryMessage \/ RespondToApproval \/ StopGeneration
    <3>1. PICK op, q, arg : op \in Asking /\ q \in Rooms /\
             RequestOf(db, Request(op, q, arg)) /\ up' = up \o <<Request(op, q, arg)>>
      BY <2>2, Requested
    <3>2. RequestsOf(db, <<Request(op, q, arg)>>)
      BY <3>1, RequestSequences
    <3> QED
      BY <2>2, <3>1, <3>2 DEF SendMessage, RetryMessage, RespondToApproval, StopGeneration, server
  <2>3. LoadOlder => UNCHANGED up
    BY DEF LoadOlder
  <2>4. ASSUME NEW r \in Rooms, DeleteRoom(r)
        PROVE  db' = db /\ \E s : RequestsOf(db, s) /\ up' = up \o s
    <3> DEFINE s == IF r # ui.room THEN <<>>
                    ELSE (IF ui.sending \/ ui.streaming
                          THEN <<Request("stop", r, None)>> ELSE <<>>)
                         \o <<Request("leave", r, None)>>
    <3>1. RequestsOf(db, s)
      BY RequestSequences, RequestMade
    <3>2. up' = up \o s /\ db' = db
      BY <2>4 DEF DeleteRoom, Emit, server
    <3> HIDE DEF s
    <3> QED
      BY <3>1, <3>2
  <2> QED
    BY <1>3, <2>1, <2>2, <2>3, <2>4 DEF User
<1>4. CASE Answers
  BY <1>4 DEF Answers, ServeMessages, ApplyFirst, ApplyOlder, ServeDeletion, ApplyDeletion
<1>5. CASE HandleEvent
  BY <1>5 DEF HandleEvent, HandleMessageCreated, HandleMessageUpdated, HandleStarted, HandleDelta,
         HandleEnd, HandleApprovalRequired, HandleApprovalResolved, HandleChatError, Incoming
<1>6. CASE Connect
  <2> DEFINE s == IF ui.room = None THEN <<>> ELSE <<Request("join", ui.room, None)>>
  <2>1. RequestsOf(db, s)
    BY <1>1, RequestSequences, RequestMade DEF AnyPage
  <2>2. up' = up \o s /\ db' = db
    BY <1>6 DEF Connect, Emit, server
  <2> HIDE DEF s
  <2> QED
    BY <2>1, <2>2
<1>7. CASE Receive
  BY <1>7, ReceivedRoom DEF Receive, JoinBegins, LeaveRoom, ReceiveRetry, ReceiveResponse, ReceiveStop,
     Refuse, ReceiveSend, Arrived
<1>8. ASSUME NEW r \in Rooms, JoinEnds(r) \/ Start(r) \/ Delta(r) \/ Finish(r) PROVE up' = up
  BY <1>8 DEF JoinEnds, Start, Delta, Finish, Complete, Cancel, FailSend, FailRetry, FailApproval,
              Unclear, AskApproval, Close, Vanish, InRoom, Runs
<1>9. CASE UNCHANGED vars
  BY <1>9 DEF vars
<1> QED
  BY <1>3, <1>4, <1>5, <1>6, <1>7, <1>8, <1>9 DEF Next, Gateway

LEMMA UpNext ==
    ASSUME Typed, [Next]_vars
    PROVE  UpType'
<1>1. RequestsOf(db, up) /\ RequestsOf(db', up)
  BY DbNext, LongerKeeps DEF Typed, UpType, RequestsOf
<1>2. UpType' <=> RequestsOf(db', up')
  BY DEF UpType, RequestsOf
<1>3. UNCHANGED up => RequestsOf(db', up')
  BY <1>1
<1>4. Disconnect => RequestsOf(db', up')
  BY RequestSequences DEF Disconnect
<1>5. up # <<>> => RequestsOf(db', Tail(up))
  BY RoomType, DbNext, LongerKeeps DEF Typed, RequestsOf
<1>6. ASSUME NEW s, RequestsOf(db, s), up' = up \o s, db' = db PROVE RequestsOf(db', up')
  BY <1>1, <1>6, RequestSequences
<1> QED
  BY <1>2, <1>3, <1>4, <1>5, <1>6, UpSteps

(* What the gateway emits.                                                 *)
EventsOf(d, s) == s \in Seq(AnyEvent) /\ \A i \in 1..Len(s) : EventOf(d, s[i])
Heard(r, news) == IF r \in joined THEN news ELSE <<>>
Replies(r)     == IF run[r].mine THEN <<Error(r)>> ELSE <<>>

LEMMA EventSequences ==
    ASSUME NEW d
    PROVE  /\ EventsOf(d, <<>>)
           /\ \A e : EventOf(d, e) => EventsOf(d, <<e>>)
           /\ \A e, f : EventOf(d, e) /\ EventOf(d, f) => EventsOf(d, <<e, f>>)
           /\ \A s, t : EventsOf(d, s) /\ EventsOf(d, t) => EventsOf(d, s \o t)
<1>1. EventsOf(d, <<>>)
  BY DEF EventsOf
<1>2. ASSUME NEW e, EventOf(d, e) PROVE EventsOf(d, <<e>>)
  BY <1>2 DEF EventsOf, EventOf
<1>3. ASSUME NEW e, NEW f, EventOf(d, e), EventOf(d, f) PROVE EventsOf(d, <<e, f>>)
  BY <1>3 DEF EventsOf, EventOf
<1>4. ASSUME NEW s, NEW t, EventsOf(d, s), EventsOf(d, t) PROVE EventsOf(d, s \o t)
  <2>1. /\ s \o t \in Seq(AnyEvent) /\ Len(s \o t) = Len(s) + Len(t)
        /\ \A i \in 1..(Len(s) + Len(t)) : (s \o t)[i] = IF i <= Len(s) THEN s[i] ELSE t[i - Len(s)]
    BY <1>4, ConcatProperties DEF EventsOf
  <2>2. Len(s) \in Nat /\ Len(t) \in Nat
    BY <1>4 DEF EventsOf
  <2>3. ASSUME NEW i \in 1..(Len(s) + Len(t)) PROVE EventOf(d, (s \o t)[i])
    <3>1. CASE i <= Len(s)
      BY <1>4, <2>1, <2>2, <3>1 DEF EventsOf
    <3>2. CASE i > Len(s)
      <4>1. i - Len(s) \in 1..Len(t)
        BY <2>2, <3>2
      <4> QED
        BY <1>4, <2>1, <2>2, <3>2, <4>1 DEF EventsOf
    <3> QED
      BY <2>2, <3>1, <3>2
  <2> QED
    BY <2>1, <2>3 DEF EventsOf
<1> QED
  BY <1>1, <1>2, <1>3, <1>4

LEMMA NewsMade ==
    ASSUME NEW d, NEW r \in Rooms
    PROVE  /\ \A m : \A type \in {"message_created", "message_updated", "assistant_message_completed",
                     "assistant_message_failed", "assistant_message_cancelled"} :
                 MessageOf(d, r, m) => EventOf(d, News(type, r, m))
           /\ \A c : \A type \in {"assistant_approval_required", "assistant_approval_resolved"} :
                 CardOf(d, r, c) => EventOf(d, News(type, r, c))
           /\ \A type \in {"assistant_message_started", "assistant_message_cancelled", "chat_error"} :
                 EventOf(d, News(type, r, None))
           /\ \A n \in Nat : EventOf(d, News("assistant_message_delta", r, <<r, n>>))
           /\ EventOf(d, Error(r))
<1>1. ASSUME NEW m, MessageOf(d, r, m), NEW type \in {"message_created", "message_updated",
             "assistant_message_completed", "assistant_message_failed", "assistant_message_cancelled"}
      PROVE  EventOf(d, News(type, r, m))
  BY <1>1 DEF EventOf, AnyEvent, News, Bodies, MessageOf, Carries
<1>2. ASSUME NEW c, CardOf(d, r, c),
             NEW type \in {"assistant_approval_required", "assistant_approval_resolved"}
      PROVE  EventOf(d, News(type, r, c))
  BY <1>2 DEF EventOf, AnyEvent, News, Bodies, CardOf, Carries, Ends
<1>3. ASSUME NEW type \in {"assistant_message_started", "assistant_message_cancelled", "chat_error"}
      PROVE  EventOf(d, News(type, r, None))
  BY <1>3 DEF EventOf, AnyEvent, News, Bodies, Carries, Ends
<1>4. ASSUME NEW n \in Nat PROVE EventOf(d, News("assistant_message_delta", r, <<r, n>>))
  BY <1>4 DEF EventOf, AnyEvent, News, Bodies, Carries, Ends
<1> QED
  BY <1>1, <1>2, <1>3, <1>4 DEF Error

LEMMA Spoken ==
    ASSUME Typed, NEW r, NEW news
    PROVE  /\ Tell(r, news) => down' = down \o Heard(r, news)
           /\ TellError(r, news) => down' = (down \o Heard(r, news)) \o Replies(r)
           /\ Reply(r) => down' = down \o <<Error(r)>>
<1>1. down \in Seq(AnyEvent)
  BY DEF Typed, DownType
<1>2. down \o <<>> = down
  BY <1>1, ConcatEmptySeq
<1>3. Append(down, Error(r)) = down \o <<Error(r)>>
  BY <1>1, AppendIsConcat
<1> QED
  BY <1>2, <1>3 DEF Tell, TellError, Reply, Heard, Replies

LEMMA RunTypes ==
    ASSUME Typed, NEW r \in Rooms
    PROVE  /\ run[r] \in AnyRun /\ run \in [Rooms -> AnyRun] /\ run[r].no \in Nat
           /\ Busy(r) => run[r].user \in 1..Len(db[r])
           /\ Busy(r) /\ run[r].kind = "approval" => CardOf(db, r, run[r].card)
           /\ cards \in [Rooms -> AnyCard \union {None}]
           /\ cards[r] # None => CardOf(db, r, cards[r])
           /\ Len(db[r]) \in Nat
<1>1. run[r] \in AnyRun /\ run \in [Rooms -> AnyRun] /\ RunOf(db, r, run[r])
  BY DEF Typed, RunType
<1> QED
  BY <1>1 DEF Typed, CardsType, DbType, RunOf, AnyRun, Busy

LEMMA SaidMade ==
    ASSUME Typed, NEW r \in Rooms, NEW status \in {"completed", "failed", "cancelled"}
    PROVE  /\ Said(r, status) \in AnyMessage
           /\ Said(r, status).id = Len(db[r]) + 1 /\ Said(r, status).room = r
           /\ Busy(r) => /\ Updated(r, status) =
                              News("message_updated", r, WithStatus(db[r][run[r].user], status))
                         /\ MessageOf(db, r, WithStatus(db[r][run[r].user], status))
                         /\ WithStatus(db[r][run[r].user], status).id = run[r].user
<1>1. Len(db[r]) \in Nat
  BY RunTypes
<1>2. Said(r, status) \in AnyMessage /\ Said(r, status).id = Len(db[r]) + 1 /\ Said(r, status).room = r
  BY <1>1, MessageMade DEF Said, NextId
<1>3. ASSUME Busy(r)
      PROVE  MessageOf(db, r, WithStatus(db[r][run[r].user], status))
             /\ WithStatus(db[r][run[r].user], status).id = run[r].user
  <2> DEFINE n == run[r].user
  <2>1. n \in 1..Len(db[r])
    BY <1>3, RunTypes
  <2>2. db[r][n] \in AnyMessage /\ db[r][n].id = n /\ db[r][n].room = r
    BY <2>1 DEF Typed, DbType
  <2> HIDE DEF n
  <2>3. WithStatus(db[r][n], status) \in AnyMessage /\ WithStatus(db[r][n], status).id = n
        /\ WithStatus(db[r][n], status).room = r
    BY <2>2 DEF AnyMessage, WithStatus
  <2> QED
    BY <2>1, <2>3 DEF MessageOf, n
<1> QED
  BY <1>2, <1>3 DEF Updated, WithStatus

LEMMA HeardOf ==
    ASSUME NEW d, NEW r \in Rooms, NEW news, EventsOf(d, news)
    PROVE  /\ EventsOf(d, Heard(r, news)) /\ EventsOf(d, Replies(r)) /\ EventsOf(d, <<Error(r)>>)
           /\ EventsOf(d, Heard(r, news) \o Replies(r))
BY EventSequences, NewsMade DEF Heard, Replies

(* What the steps of a room say: heard by a socket in the room; an error   *)
(* reaches the socket that asked.                                          *)
Says(r, news)      == EventsOf(db', news) /\ down' = down \o Heard(r, news)
SaysError(r, news) == EventsOf(db', news) /\ down' = down \o (Heard(r, news) \o Replies(r))
SaysBack(r)        == down' = down \o <<Error(r)>>

StartNews(r) == (IF run[r].kind # "approval" THEN <<>>
                 ELSE <<News("assistant_approval_resolved", r, run[r].card)>>)
                \o <<News("assistant_message_started", r, None)>>
DeltaNews(r) == <<News("assistant_message_delta", r, <<r, run[r].no>>)>>
LastNews(r, type, status, updated) ==
    IF updated THEN <<Updated(r, status), News(type, r, Said(r, status))>>
               ELSE <<News(type, r, Said(r, status))>>
CompleteNews(r) == LastNews(r, "assistant_message_completed", "completed", run[r].kind = "retry")
CancelNews(r)   == LastNews(r, "assistant_message_cancelled", "cancelled", TRUE)
FailNews(r)     == LastNews(r, "assistant_message_failed", "failed", TRUE)
Asker(r)        == IF run[r].kind = "approval" THEN run[r].card.user ELSE run[r].user
NewCard(r)      == Card(r, Said(r, "completed").id, Asker(r))
AskNews(r)      == <<News("message_created", r, Said(r, "completed")),
                     News("assistant_approval_required", r, NewCard(r))>>
CloseNews(r)    == <<Updated(r, "completed")>>
SendNews(r)     == <<News("message_created", r, Message(r, NextId(r), "user", "completed"))>>
RequiredNews(r, card) == <<News("assistant_approval_required", r, card)>>

LEMMA SavedMessage ==
    ASSUME Typed, NEW r \in Rooms, Busy(r), NEW s \in {"completed", "failed", "cancelled"},
           \/ Save(r, Said(r, s))
           \/ \E t \in {"completed", "failed", "cancelled"} : SaveWith(r, t, Said(r, s))
    PROVE  MessageOf(db', r, Said(r, s))
<1>1. /\ Said(r, s) \in AnyMessage /\ Said(r, s).id = Len(db[r]) + 1 /\ Said(r, s).room = r
      /\ Len(db[r]) \in Nat /\ run[r].user \in 1..Len(db[r])
      /\ db \in [Rooms -> Seq(AnyMessage)] /\ db[r] \in Seq(AnyMessage)
  BY SaidMade, RunTypes DEF Typed, DbType
<1>2. PICK old : old \in Seq(AnyMessage) /\ Len(old) = Len(db[r]) /\ db'[r] = Append(old, Said(r, s))
  <2>1. CASE Save(r, Said(r, s))
    BY <1>1, <2>1 DEF Save
  <2>2. ASSUME NEW t \in {"completed", "failed", "cancelled"}, SaveWith(r, t, Said(r, s))
        PROVE  \E old : old \in Seq(AnyMessage) /\ Len(old) = Len(db[r]) /\ db'[r] = Append(old, Said(r, s))
    <3>1. db' = [db EXCEPT ![r] = Append(Restated(db[r], run[r].user, t), Said(r, s))]
      BY <2>2 DEF SaveWith, Restated
    <3>2. SameMessages(db[r], Restated(db[r], run[r].user, t))
      BY <1>1, StatusChanged
    <3>3. db'[r] = Append(Restated(db[r], run[r].user, t), Said(r, s))
      BY <1>1, <3>1
    <3> QED
      BY <3>2, <3>3 DEF SameMessages
  <2> QED
    BY <2>1, <2>2
<1>3. Len(db'[r]) = Len(db[r]) + 1
  BY <1>1, <1>2, AppendProperties
<1> QED
  BY <1>1, <1>3 DEF MessageOf

LEMMA Talks ==
    ASSUME Typed, [Next]_vars, NEW r \in Rooms
    PROVE  /\ Start(r) => Says(r, StartNews(r))
           /\ Delta(r) => Says(r, DeltaNews(r))
           /\ Complete(r) => Says(r, CompleteNews(r))
           /\ Cancel(r) => Says(r, CancelNews(r))
           /\ FailSend(r) => Says(r, FailNews(r))
           /\ AskApproval(r) => Says(r, AskNews(r))
           /\ Close(r) => down' = down \/ Says(r, CloseNews(r))
           /\ FailApproval(r) => SaysError(r, RequiredNews(r, run[r].card)) \/ SaysError(r, <<>>)
           /\ FailRetry(r) \/ Unclear(r) => SaysError(r, <<>>)
           /\ Vanish(r) => down' = down \/ SaysError(r, <<>>)
           /\ JoinEnds(r) => \/ down' = down
                             \/ r \in gone /\ SaysBack(r)
                             \/ /\ r \notin gone /\ cards[r] # None
                                /\ EventsOf(db', RequiredNews(r, cards[r]))
                                /\ down' = down \o RequiredNews(r, cards[r])
<1>0. DbType(db') /\ Longer(db, db') /\ down \in Seq(AnyEvent) /\ EventsOf(db', <<>>)
  BY DbNext, EventSequences DEF Typed, DownType
<1>1. /\ \A c : CardOf(db, r, c) => CardOf(db', r, c)
      /\ \A m : MessageOf(db, r, m) => MessageOf(db', r, m)
  BY <1>0, LongerKeeps DEF Typed
<1>2. ASSUME NEW news, EventsOf(db', news)
      PROVE  /\ Tell(r, news) => Says(r, news)
             /\ TellError(r, news) => SaysError(r, news)
             /\ Reply(r) => SaysBack(r)
  <2>1. (down \o Heard(r, news)) \o Replies(r) = down \o (Heard(r, news) \o Replies(r))
    <3>1. Heard(r, news) \in Seq(AnyEvent) /\ Replies(r) \in Seq(AnyEvent)
      BY <1>2, HeardOf DEF EventsOf
    <3> QED
      BY <1>0, <3>1, ConcatAssociative
  <2> QED
    BY <1>2, <2>1, Spoken DEF Says, SaysError, SaysBack
<1>3. ASSUME Start(r) PROVE Says(r, StartNews(r))
  <2> DEFINE e == News("assistant_message_started", r, None)
             f == News("assistant_approval_resolved", r, run[r].card)
  <2>1. Busy(r) /\ Tell(r, StartNews(r))
    BY <1>3 DEF Start, InRoom, Runs, Busy, StartNews
  <2>2. EventOf(db', e)
    BY NewsMade
  <2>3. run[r].kind = "approval" => EventOf(db', f)
    BY <1>1, <2>1, RunTypes, NewsMade
  <2>4. StartNews(r) = (IF run[r].kind # "approval" THEN <<>> ELSE <<f>>) \o <<e>>
    BY DEF StartNews
  <2> HIDE DEF e, f
  <2>5. EventsOf(db', (IF run[r].kind # "approval" THEN <<>> ELSE <<f>>) \o <<e>>)
    BY <2>2, <2>3, EventSequences
  <2> QED
    BY <1>2, <2>1, <2>4, <2>5
<1>4. ASSUME Delta(r) PROVE Says(r, DeltaNews(r))
  <2>1. EventsOf(db', DeltaNews(r))
    BY NewsMade, RunTypes, EventSequences DEF DeltaNews
  <2> QED
    BY <1>2, <1>4, <2>1 DEF Delta, DeltaNews
<1>5. ASSUME NEW s \in {"completed", "failed", "cancelled"},
             NEW type \in {"assistant_message_completed", "assistant_message_failed",
                           "assistant_message_cancelled"},
             NEW updated \in BOOLEAN, Busy(r),
             \/ Save(r, Said(r, s))
             \/ \E t \in {"completed", "failed", "cancelled"} : SaveWith(r, t, Said(r, s))
      PROVE  EventsOf(db', LastNews(r, type, s, updated))
  <2>1. MessageOf(db', r, Said(r, s))
    BY <1>5, SavedMessage
  <2>2. MessageOf(db', r, WithStatus(db[r][run[r].user], s))
        /\ Updated(r, s) = News("message_updated", r, WithStatus(db[r][run[r].user], s))
    BY <1>1, <1>5, SaidMade
  <2>3. EventOf(db', News(type, r, Said(r, s))) /\ EventOf(db', Updated(r, s))
    BY <2>1, <2>2, NewsMade
  <2> QED
    BY <2>3, EventSequences DEF LastNews
<1>6. ASSUME Complete(r) PROVE Says(r, CompleteNews(r))
  <2>1. EventsOf(db', CompleteNews(r))
    BY <1>5, <1>6 DEF Complete, InRoom, Runs, Busy, CompleteNews
  <2> QED
    BY <1>2, <1>6, <2>1 DEF Complete, CompleteNews, LastNews
<1>7. ASSUME Cancel(r) PROVE Says(r, CancelNews(r))
  <2>1. EventsOf(db', CancelNews(r))
    BY <1>5, <1>7 DEF Cancel, InRoom, Runs, Busy, CancelNews
  <2> QED
    BY <1>2, <1>7, <2>1 DEF Cancel, CancelNews, LastNews
<1>8. ASSUME FailSend(r) PROVE Says(r, FailNews(r))
  <2>1. EventsOf(db', FailNews(r))
    BY <1>5, <1>8 DEF FailSend, InRoom, Runs, Busy, FailNews
  <2> QED
    BY <1>2, <1>8, <2>1 DEF FailSend, FailNews, LastNews
<1>9. ASSUME AskApproval(r) PROVE Says(r, AskNews(r))
  <2>1. Busy(r) /\ Save(r, Said(r, "completed")) /\ Tell(r, AskNews(r))
    BY <1>9 DEF AskApproval, InRoom, Runs, Busy, AskNews, NewCard, Asker
  <2>2. MessageOf(db', r, Said(r, "completed"))
    BY <2>1, SavedMessage
  <2>3. Asker(r) \in 1..Len(db[r]) /\ Len(db[r]) <= Len(db'[r]) /\ Len(db[r]) \in Nat /\ Len(db'[r]) \in Nat
    BY <1>0, <2>1, RunTypes DEF CardOf, Longer, DbType, Asker
  <2>4. Said(r, "completed").id \in Nat
    BY <2>3, SaidMade
  <2>5. CardOf(db', r, NewCard(r))
    BY <2>3, <2>4 DEF CardOf, Card, AnyCard, NewCard
  <2>6. EventsOf(db', AskNews(r))
    BY <2>2, <2>5, NewsMade, EventSequences DEF AskNews
  <2> QED
    BY <1>2, <2>1, <2>6
<1>10. ASSUME Close(r) PROVE down' = down \/ Says(r, CloseNews(r))
  <2>1. Busy(r)
    BY <1>10 DEF Close, InRoom, Runs, Busy
  <2>2. MessageOf(db', r, WithStatus(db[r][run[r].user], "completed"))
        /\ Updated(r, "completed") = News("message_updated", r, WithStatus(db[r][run[r].user], "completed"))
    BY <1>1, <2>1, SaidMade
  <2>3. EventsOf(db', CloseNews(r))
    BY <2>2, NewsMade, EventSequences DEF CloseNews
  <2> QED
    BY <1>2, <1>10, <2>3 DEF Close, CloseNews
<1>11. ASSUME NEW c, CardOf(db, r, c) PROVE EventsOf(db', RequiredNews(r, c))
  BY <1>1, <1>11, NewsMade, EventSequences DEF RequiredNews
<1>12. ASSUME FailApproval(r)
       PROVE  SaysError(r, RequiredNews(r, run[r].card)) \/ SaysError(r, <<>>)
  <2>1. EventsOf(db', RequiredNews(r, run[r].card))
    BY <1>11, <1>12, RunTypes DEF FailApproval, InRoom, Runs, Busy
  <2> QED
    BY <1>0, <1>2, <1>12, <2>1 DEF FailApproval, RequiredNews
<1>13. FailRetry(r) \/ Unclear(r) => SaysError(r, <<>>)
  BY <1>0, <1>2 DEF FailRetry, Unclear
<1>14. Vanish(r) => down' = down \/ SaysError(r, <<>>)
  BY <1>0, <1>2 DEF Vanish
<1>15. ASSUME JoinEnds(r)
       PROVE  \/ down' = down
              \/ r \in gone /\ SaysBack(r)
              \/ /\ r \notin gone /\ cards[r] # None
                 /\ EventsOf(db', RequiredNews(r, cards[r]))
                 /\ down' = down \o RequiredNews(r, cards[r])
  <2>1. CASE r \in gone /\ Reply(r)
    BY <1>0, <1>2, <2>1
  <2>2. CASE r \notin gone /\ cards[r] # None /\ down' = Append(down, News("assistant_approval_required", r, cards[r]))
    <3>1. EventsOf(db', RequiredNews(r, cards[r]))
      BY <1>11, <2>2, RunTypes
    <3>2. News("assistant_approval_required", r, cards[r]) \in AnyEvent
      BY <2>2, RunTypes, NewsMade DEF EventOf
    <3>3. down' = down \o RequiredNews(r, cards[r])
      BY <1>0, <2>2, <3>2, AppendIsConcat DEF RequiredNews
    <3> QED
      BY <2>2, <3>1, <3>3
  <2> QED
    BY <1>15, <2>1, <2>2 DEF JoinEnds
<1>16. /\ Start(r) => Says(r, StartNews(r))
       /\ Delta(r) => Says(r, DeltaNews(r))
       /\ Complete(r) => Says(r, CompleteNews(r))
       /\ Cancel(r) => Says(r, CancelNews(r))
       /\ FailSend(r) => Says(r, FailNews(r))
       /\ AskApproval(r) => Says(r, AskNews(r))
  BY <1>3, <1>4, <1>6, <1>7, <1>8, <1>9
<1> QED
  BY <1>10, <1>12, <1>13, <1>14, <1>15, <1>16

LEMMA TalksBack ==
    ASSUME Typed, [Next]_vars
    PROVE  /\ ReceiveSend => Says(Room, SendNews(Room))
           /\ ReceiveStop => Says(Room, <<News("assistant_message_cancelled", Room, None)>>)
           /\ \A op, refused : Refuse(op, refused) => SaysBack(Room)
<1>1. ASSUME ReceiveSend PROVE Says(Room, SendNews(Room))
  <2> DEFINE m == Message(Room, NextId(Room), "user", "completed")
  <2>1. Room \in Rooms
    BY <1>1, ReceivedRoom DEF Receive
  <2>2. /\ Len(db[Room]) \in Nat /\ db \in [Rooms -> Seq(AnyMessage)]
        /\ NextId(Room) = Len(db[Room]) + 1 /\ NextId(Room) \in Nat
    BY <2>1, RunTypes DEF Typed, DbType, NextId
  <2>3. m \in AnyMessage /\ m.id = Len(db[Room]) + 1 /\ m.room = Room
    BY <2>1, <2>2, MessageMade
  <2>4. db'[Room] = Append(db[Room], m) /\ Tell(Room, <<News("message_created", Room, m)>>)
    BY <1>1, <2>1, <2>2 DEF ReceiveSend, Save
  <2>5. SendNews(Room) = <<News("message_created", Room, m)>>
    BY DEF SendNews
  <2> HIDE DEF m
  <2>6. MessageOf(db', Room, m)
    <3>1. Len(db'[Room]) = Len(db[Room]) + 1
      BY <2>1, <2>2, <2>3, <2>4, AppendProperties
    <3> QED
      BY <2>2, <2>3, <3>1 DEF MessageOf
  <2>7. EventsOf(db', <<News("message_created", Room, m)>>)
    BY <2>1, <2>6, NewsMade, EventSequences
  <2> QED
    BY <2>1, <2>4, <2>5, <2>7, Spoken DEF Says
<1>2. ASSUME ReceiveStop PROVE Says(Room, <<News("assistant_message_cancelled", Room, None)>>)
  <2>1. Room \in Rooms
    BY <1>2, ReceivedRoom DEF Receive
  <2>2. EventsOf(db', <<News("assistant_message_cancelled", Room, None)>>)
    BY <2>1, NewsMade, EventSequences
  <2> QED
    BY <1>2, <2>2, Spoken DEF ReceiveStop, Says
<1>3. ASSUME NEW op, NEW refused, Refuse(op, refused) PROVE SaysBack(Room)
  BY <1>3, Spoken DEF Refuse, SaysBack
<1> QED
  BY <1>1, <1>2, <1>3

(* What reaches the page: an event handled, lost or added.                 *)
LEMMA DownSteps ==
    ASSUME Typed, [Next]_vars
    PROVE  \/ UNCHANGED down
           \/ Disconnect
           \/ HandleEvent /\ down # <<>> /\ down' = Tail(down)
           \/ \E t : EventsOf(db', t) /\ down' = down \o t
<1>1. ASSUME NEW r \in Rooms, NEW news, Says(r, news) \/ SaysError(r, news) \/ SaysBack(r)
      PROVE  \E t : EventsOf(db', t) /\ down' = down \o t
  <2>1. EventsOf(db', <<Error(r)>>)
    BY NewsMade, EventSequences
  <2> QED
    BY <1>1, <2>1, HeardOf DEF Says, SaysError, SaysBack
<1>2. CASE User
  BY <1>2 DEF User, EnterRoom, DeleteRoom, SendMessage, RetryMessage, RespondToApproval,
          StopGeneration, LoadOlder
<1>3. CASE Answers
  BY <1>3 DEF Answers, ServeMessages, ApplyFirst, ApplyOlder, ServeDeletion, ApplyDeletion
<1>4. CASE HandleEvent
  BY <1>4 DEF HandleEvent, HandleMessageCreated, HandleMessageUpdated, HandleStarted, HandleDelta,
         HandleEnd, HandleApprovalRequired, HandleApprovalResolved, HandleChatError, Incoming
<1>5. CASE Connect
  BY <1>5 DEF Connect
<1>6. CASE Receive
  <2>1. Room \in Rooms
    BY <1>6, ReceivedRoom
  <2>2. CASE JoinBegins \/ LeaveRoom \/ ReceiveRetry \/ ReceiveResponse
    BY <2>2 DEF JoinBegins, LeaveRoom, ReceiveRetry, ReceiveResponse
  <2> QED
    BY <1>1, <1>6, <2>1, <2>2, TalksBack DEF Receive
<1>7. ASSUME NEW r \in Rooms, JoinEnds(r) \/ Start(r) \/ Delta(r) \/ Finish(r)
      PROVE  UNCHANGED down \/ \E t : EventsOf(db', t) /\ down' = down \o t
  <2>1. CASE JoinEnds(r)
    BY <1>1, <2>1, Talks
  <2>2. CASE Start(r) \/ Delta(r)
    BY <1>1, <2>2, Talks
  <2>3. CASE Finish(r)
    BY <1>1, <2>3, Talks DEF Finish
  <2> QED
    BY <1>7, <2>1, <2>2, <2>3
<1>8. CASE UNCHANGED vars
  BY <1>8 DEF vars
<1> QED
  BY <1>2, <1>3, <1>4, <1>5, <1>6, <1>7, <1>8 DEF Next, Gateway

LEMMA DownNext ==
    ASSUME Typed, [Next]_vars
    PROVE  DownType'
<1>1. EventsOf(db, down) /\ EventsOf(db', down)
  BY DbNext, LongerKeeps DEF Typed, DownType, EventsOf
<1>2. DownType' <=> EventsOf(db', down')
  BY DEF DownType, EventsOf
<1>3. Disconnect => EventsOf(db', down')
  BY EventSequences DEF Disconnect
<1>4. down # <<>> => EventsOf(db', Tail(down))
  BY EventType, DbNext, LongerKeeps DEF Typed, EventsOf
<1>5. ASSUME NEW t, EventsOf(db', t), down' = down \o t PROVE EventsOf(db', down')
  BY <1>1, <1>5, EventSequences
<1> QED
  BY <1>1, <1>2, <1>3, <1>4, <1>5, DownSteps

(* Which steps change the runs and the cards.                              *)
LEMMA RunNext ==
    ASSUME Typed, [Next]_vars
    PROVE  RunType'
<1>0. /\ run \in [Rooms -> AnyRun] /\ DbType(db) /\ DbType(db') /\ Longer(db, db')
      /\ \A r \in Rooms : run[r] \in AnyRun /\ RunOf(db', r, run[r])
  BY DbNext, LongerKeeps DEF Typed, RunType
<1>1. CASE run' = run
  BY <1>0, <1>1 DEF RunType
<1>2. ASSUME NEW r \in Rooms, NEW x \in AnyRun, RunOf(db', r, x), run' = [run EXCEPT ![r] = x]
      PROVE  RunType'
  BY <1>0, <1>2 DEF RunType
<1>3. CASE Disconnect
  <2>1. \A r \in Rooms : run'[r] = [run[r] EXCEPT !.mine = FALSE]
    BY <1>3 DEF Disconnect
  <2>2. \A x \in AnyRun : /\ [x EXCEPT !.mine = FALSE] \in AnyRun
                          /\ \A r : RunOf(db', r, x) => RunOf(db', r, [x EXCEPT !.mine = FALSE])
    BY DEF AnyRun, RunOf
  <2> QED
    BY <1>0, <1>3, <2>1, <2>2 DEF Disconnect, RunType
<1>4. ASSUME NEW r \in Rooms, NEW kind \in {"send", "retry", "approval"}, NEW user \in 1..Len(db'[r]),
             NEW card \in AnyCard \union {None}, kind = "approval" => CardOf(db', r, card),
             Accepted(r, kind, user, card)
      PROVE  RunType'
  <2> DEFINE x == [phase |-> "accepted", kind |-> kind, user |-> user, card |-> card,
                   mine |-> TRUE, stop |-> FALSE, deltas |-> 0, no |-> run[r].no + 1]
  <2>0. Len(db'[r]) \in Nat /\ run[r].no \in Nat
    BY <1>0, RunTypes DEF DbType
  <2>1. x \in AnyRun
    BY <2>0 DEF AnyRun
  <2>2. RunOf(db', r, x)
    BY <1>4 DEF RunOf
  <2>3. run' = [run EXCEPT ![r] = x]
    BY <1>4 DEF Accepted
  <2> HIDE DEF x
  <2> QED
    BY <1>2, <2>1, <2>2, <2>3
<1>5. CASE Receive
  <2>1. Room \in Rooms /\ RequestOf(db, Head(up))
    BY <1>5, ReceivedRoom
  <2>2. CASE ReceiveSend
    <3> DEFINE m == Message(Room, NextId(Room), "user", "completed")
    <3>1. Len(db[Room]) \in Nat /\ db \in [Rooms -> Seq(AnyMessage)] /\ NextId(Room) = Len(db[Room]) + 1
          /\ NextId(Room) \in Nat /\ cards[Room] \in AnyCard \union {None}
      BY <2>1, RunTypes DEF Typed, DbType, NextId
    <3>2. m \in AnyMessage /\ m.id = Len(db[Room]) + 1
      BY <2>1, <3>1, MessageMade
    <3>3. db'[Room] = Append(db[Room], m)
          /\ Accepted(Room, IF cards[Room] = None THEN "send" ELSE "approval", m.id, cards[Room])
      BY <2>1, <2>2, <3>1 DEF ReceiveSend, Save
    <3> HIDE DEF m
    <3>4. m.id \in 1..Len(db'[Room])
      BY <2>1, <3>1, <3>2, <3>3, AppendProperties
    <3>5. cards[Room] # None => CardOf(db', Room, cards[Room])
      BY <1>0, <2>1, LongerKeeps, RunTypes DEF Typed
    <3> QED
      BY <1>4, <2>1, <3>1, <3>3, <3>4, <3>5
  <2>3. CASE ReceiveRetry
    <3>1. Head(up).arg \in 1..Len(db'[Room]) /\ Accepted(Room, "retry", Head(up).arg, None)
      <4>1. Head(up).arg \in 1..Len(db[Room])
        BY <2>1, <2>3 DEF ReceiveRetry, Arrived, RequestOf, Room
      <4>2. Len(db[Room]) <= Len(db'[Room]) /\ Len(db[Room]) \in Nat /\ Len(db'[Room]) \in Nat
        BY <1>0, <2>1 DEF Longer, DbType
      <4> QED
        BY <2>3, <4>1, <4>2 DEF ReceiveRetry
    <3> QED
      BY <1>4, <2>1, <3>1
  <2>4. CASE ReceiveResponse
    <3> DEFINE card == Head(up).arg
    <3>1. CardOf(db, Room, card)
      BY <2>1, <2>4 DEF ReceiveResponse, Arrived, RequestOf, Room
    <3>2. CardOf(db', Room, card) /\ Accepted(Room, "approval", card.user, card)
      BY <1>0, <2>1, <2>4, <3>1, LongerKeeps DEF ReceiveResponse, Typed
    <3> HIDE DEF card
    <3>3. card.user \in 1..Len(db'[Room]) /\ card \in AnyCard
      BY <3>2 DEF CardOf
    <3> QED
      BY <1>4, <2>1, <3>2, <3>3
  <2>5. CASE ReceiveStop
    <3> DEFINE x == [run[Room] EXCEPT !.stop = TRUE]
    <3>1. x \in AnyRun /\ RunOf(db', Room, x)
      BY <1>0, <2>1 DEF AnyRun, RunOf
    <3>2. run' = [run EXCEPT ![Room] = x]
      BY <2>5 DEF ReceiveStop
    <3> HIDE DEF x
    <3> QED
      BY <1>2, <2>1, <3>1, <3>2
  <2> QED
    BY <1>1, <1>5, <2>2, <2>3, <2>4, <2>5 DEF Receive, JoinBegins, LeaveRoom, Refuse
<1>6. ASSUME NEW r \in Rooms, JoinEnds(r) \/ Start(r) \/ Delta(r) \/ Finish(r)
      PROVE  RunType'
  <2>1. \/ run' = run \/ Over(r)
        \/ run' = [run EXCEPT ![r].phase = "streaming"] /\ run[r].phase = "accepted"
        \/ run' = [run EXCEPT ![r].deltas = @ + 1]
        \/ run' = [run EXCEPT ![r].phase = "closing"] /\ run[r].phase = "streaming"
    BY <1>6 DEF JoinEnds, Start, Delta, Finish, Complete, Cancel, FailSend, FailRetry, FailApproval,
                Unclear, AskApproval, Close, Vanish, InRoom, Runs
  <2>2. CASE Over(r)
    <3> DEFINE x == [Idle EXCEPT !.no = run[r].no]
    <3>1. x \in AnyRun /\ RunOf(db', r, x)
      BY RunTypes DEF AnyRun, RunOf, Idle
    <3>2. run' = [run EXCEPT ![r] = x]
      BY <2>2 DEF Over
    <3> HIDE DEF x
    <3> QED
      BY <1>2, <3>1, <3>2
  <2>3. ASSUME NEW phase \in {"streaming", "closing"}, run' = [run EXCEPT ![r].phase = phase],
               run[r].phase # "idle"
        PROVE  RunType'
    <3> DEFINE x == [run[r] EXCEPT !.phase = phase]
    <3>1. x \in AnyRun /\ RunOf(db', r, x)
      BY <1>0, <2>3 DEF AnyRun, RunOf
    <3>2. run' = [run EXCEPT ![r] = x]
      BY <2>3
    <3> HIDE DEF x
    <3> QED
      BY <1>2, <3>1, <3>2
  <2>4. CASE run' = [run EXCEPT ![r].deltas = @ + 1]
    <3> DEFINE x == [run[r] EXCEPT !.deltas = @ + 1]
    <3>0. run[r] \in AnyRun /\ run[r].deltas + 1 \in Nat /\ RunOf(db', r, run[r])
      BY <1>0 DEF AnyRun
    <3>1. x \in AnyRun /\ RunOf(db', r, x)
      BY <3>0 DEF AnyRun, RunOf
    <3>2. run' = [run EXCEPT ![r] = x]
      BY <2>4
    <3> HIDE DEF x
    <3> QED
      BY <1>2, <3>1, <3>2
  <2> QED
    BY <1>1, <2>1, <2>2, <2>3, <2>4
<1>7. CASE User \/ Answers \/ HandleEvent \/ Connect \/ UNCHANGED vars
  <2>1. CASE User
    BY <1>1, <2>1 DEF User, EnterRoom, DeleteRoom, SendMessage, RetryMessage, RespondToApproval,
            StopGeneration, LoadOlder, server
  <2>2. CASE Answers
    BY <1>1, <2>2 DEF Answers, ServeMessages, ApplyFirst, ApplyOlder, ServeDeletion, ApplyDeletion, server
  <2>3. CASE HandleEvent
    BY <1>1, <2>3 DEF HandleEvent, HandleMessageCreated, HandleMessageUpdated, HandleStarted, HandleDelta,
           HandleEnd, HandleApprovalRequired, HandleApprovalResolved, HandleChatError, Incoming, server
  <2> QED
    BY <1>1, <1>7, <2>1, <2>2, <2>3 DEF Connect, vars, server
<1> QED
  BY <1>3, <1>5, <1>6, <1>7 DEF Next, Gateway

LEMMA CardsNext ==
    ASSUME Typed, [Next]_vars
    PROVE  CardsType'
<1>0. /\ cards \in [Rooms -> AnyCard \union {None}] /\ DbType(db') /\ Longer(db, db')
      /\ \A r \in Rooms : cards[r] # None => CardOf(db', r, cards[r])
  BY DbNext, LongerKeeps DEF Typed, CardsType
<1>1. CASE cards' = cards
  BY <1>0, <1>1 DEF CardsType
<1>2. ASSUME NEW r \in Rooms, NEW c, c = None \/ CardOf(db', r, c), cards' = [cards EXCEPT ![r] = c]
      PROVE  CardsType'
  BY <1>0, <1>2 DEF CardsType, CardOf
<1>3. ASSUME NEW r \in Rooms, JoinEnds(r) \/ Start(r) \/ Delta(r) \/ Finish(r)
      PROVE  CardsType'
  <2>1. CASE JoinEnds(r) \/ Complete(r) \/ Cancel(r)
    <3>1. cards' = cards \/ cards' = [cards EXCEPT ![r] = None] \/ cards' = [cards EXCEPT ![r] = @]
      BY <2>1 DEF JoinEnds, Complete, Cancel
    <3>2. [cards EXCEPT ![r] = @] = cards
      BY <1>0
    <3> QED
      BY <1>1, <1>2, <3>1, <3>2
  <2>2. CASE Start(r) \/ Delta(r) \/ FailSend(r) \/ FailRetry(r) \/ Unclear(r) \/ Close(r) \/ Vanish(r)
    BY <1>1, <2>2 DEF Start, Delta, FailSend, FailRetry, Unclear, Close, Vanish
  <2>3. CASE FailApproval(r)
    <3>1. CardOf(db', r, run[r].card)
      BY <1>0, <2>3, LongerKeeps, RunTypes DEF FailApproval, InRoom, Runs, Busy, Typed
    <3> QED
      BY <1>2, <2>3, <3>1 DEF FailApproval
  <2>4. CASE AskApproval(r)
    <3> DEFINE m    == Said(r, "completed")
               user == IF run[r].kind = "approval" THEN run[r].card.user ELSE run[r].user
               card == Card(r, m.id, user)
    <3>1. Busy(r) /\ cards' = [cards EXCEPT ![r] = card]
      BY <2>4 DEF AskApproval, InRoom, Runs, Busy
    <3>3. user \in 1..Len(db[r]) /\ Len(db[r]) <= Len(db'[r]) /\ Len(db[r]) \in Nat /\ Len(db'[r]) \in Nat
      BY <1>0, <3>1, RunTypes DEF CardOf, Longer, DbType
    <3>4. m.id \in Nat
      BY <3>3, SaidMade
    <3>5. CardOf(db', r, card)
      BY <3>3, <3>4 DEF CardOf, Card, AnyCard
    <3> HIDE DEF card
    <3> QED
      BY <1>2, <3>1, <3>5
  <2> QED
    BY <1>3, <2>1, <2>2, <2>3, <2>4 DEF Finish
<1>4. CASE User \/ Answers \/ HandleEvent \/ Connect \/ Disconnect \/ Receive \/ UNCHANGED vars
  <2>1. CASE User
    BY <1>1, <2>1 DEF User, EnterRoom, DeleteRoom, SendMessage, RetryMessage, RespondToApproval,
            StopGeneration, LoadOlder, server
  <2>2. CASE Answers
    BY <1>1, <2>2 DEF Answers, ServeMessages, ApplyFirst, ApplyOlder, ServeDeletion, ApplyDeletion, server
  <2>3. CASE HandleEvent
    BY <1>1, <2>3 DEF HandleEvent, HandleMessageCreated, HandleMessageUpdated, HandleStarted, HandleDelta,
           HandleEnd, HandleApprovalRequired, HandleApprovalResolved, HandleChatError, Incoming, server
  <2>4. CASE Receive
    BY <1>1, <2>4 DEF Receive, JoinBegins, LeaveRoom, ReceiveRetry, ReceiveResponse, ReceiveStop,
         Refuse, ReceiveSend, Arrived
  <2> QED
    BY <1>1, <1>4, <2>1, <2>2, <2>3, <2>4 DEF Connect, Disconnect, vars, server
<1> QED
  BY <1>3, <1>4 DEF Next, Gateway

LEMMA TypedInit == ASSUME Init PROVE Typed
<1>1. \A r \in Rooms : /\ Stored[r] \in Seq({"user", "assistant"} \X {"completed", "failed"})
                       /\ Len(Stored[r]) \in Nat /\ DOMAIN Stored[r] = 1..Len(Stored[r])
                       /\ \A n \in 1..Len(Stored[r]) : /\ Stored[r][n][1] \in {"user", "assistant"}
                                                       /\ Stored[r][n][2] \in {"completed", "failed"}
  BY PageAssumption
<1>2. DbType(db) /\ \A r \in Rooms : Len(db[r]) = Len(Stored[r])
  <2> DEFINE s(r) == [n \in DOMAIN Stored[r] |-> Message(r, n, Stored[r][n][1], Stored[r][n][2])]
  <2>1. ASSUME NEW r \in Rooms
        PROVE  /\ s(r) \in Seq(AnyMessage) /\ Len(s(r)) = Len(Stored[r])
               /\ \A n \in 1..Len(s(r)) : s(r)[n].id = n /\ s(r)[n].room = r
    <3>1. \A n \in 1..Len(Stored[r]) :
             /\ Message(r, n, Stored[r][n][1], Stored[r][n][2]) \in AnyMessage
             /\ Message(r, n, Stored[r][n][1], Stored[r][n][2]).id = n
             /\ Message(r, n, Stored[r][n][1], Stored[r][n][2]).room = r
      <4> SUFFICES ASSUME NEW n \in 1..Len(Stored[r])
                   PROVE  /\ Message(r, n, Stored[r][n][1], Stored[r][n][2]) \in AnyMessage
                          /\ Message(r, n, Stored[r][n][1], Stored[r][n][2]).id = n
                          /\ Message(r, n, Stored[r][n][1], Stored[r][n][2]).room = r
        OBVIOUS
      <4>1. n \in Nat /\ Stored[r][n][1] \in {"user", "assistant"}
            /\ Stored[r][n][2] \in {"completed", "failed", "cancelled"}
        BY <1>1
      <4> QED
        BY <4>1, MessageMade
    <3> QED
      BY <1>1, <3>1
  <2>2. db = [r \in Rooms |-> s(r)]
    BY DEF Init
  <2> HIDE DEF s
  <2> QED
    BY <2>1, <2>2 DEF DbType
<1>3. PageOf(db, ui)
  <2>0. ui = Fresh(None, 0)
    BY DEF Init
  <2>1. ui \in AnyPage /\ ui.room = None /\ Bare(ui)
    BY <2>0, FreshPage DEF Fresh, Bare
  <2>2. Len(ui.shown) = 0
    BY <2>1 DEF Bare
  <2> QED
    BY <2>1, <2>2 DEF PageOf, Bare
<1>4. UpType /\ DownType
  BY DEF Init, UpType, DownType
<1>5. RunType
  BY DEF Init, RunType, AnyRun, RunOf, Idle
<1>6. CardsType
  <2>1. ASSUME NEW r \in Waiting
        PROVE  CardOf(db, r, Card(r, Len(Stored[r]), Len(Stored[r]) - 1)) /\ r \in Rooms
    BY <1>1, <1>2, <2>1, PageAssumption DEF CardOf, Card, AnyCard
  <2> QED
    BY <2>1 DEF Init, CardsType, CardOf
<1>7. BoundsType
  BY PageAssumption DEF Init, BoundsType
<1> QED
  BY <1>2, <1>3, <1>4, <1>5, <1>6, <1>7
     DEF Init, Typed, FetchesType, DeletionType, FlagsType, RoomsType

LEMMA TypedNext == Typed /\ [Next]_vars => Typed'
<1> SUFFICES ASSUME Typed, [Next]_vars PROVE Typed'
  OBVIOUS
<1> QED
  BY DbNext, PageNext, FetchesNext, DeletionNext, BoundsNext, FlagsNext, RoomsNext,
     UpNext, DownNext, RunNext, CardsNext DEF Typed

LEMMA TypedAlways == Spec => []Typed
BY TypedInit, TypedNext, PTL DEF Spec

LEMMA TypedOK == Typed => TypeOK
<1> SUFFICES ASSUME Typed PROVE TypeOK
  OBVIOUS
<1>1. /\ ui \in AnyPage /\ ui.room \in Rooms \union {None} /\ ui.request \in Nat /\ ui.cursor \in Nat
      /\ ui.text \subseteq Rooms \X Nat
      /\ \A flag \in {ui.sending, ui.streaming, ui.loading, ui.older} : flag \in BOOLEAN
  BY DEF Typed, PageOf, AnyPage
<1>2. \A i \in DOMAIN ui.shown : ui.shown[i].id \in 1..Len(db[ui.shown[i].room])
  BY <1>1 DEF Typed, PageOf, AnyPage, MessageOf
<1>3. \A f \in fetches : f.kind \in {"first", "older"} /\ f.room \in Rooms
          /\ f.status \in {"sent", "answered", "failed"} /\ f.request \in 1..ui.request
          /\ f.cursor \in 0..Len(db[f.room]) /\ f.next \in 0..Len(db[f.room])
  BY DEF Typed, FetchesType, FetchOf, AnyFetch, DbType
<1>4. \A r \in Rooms : \A n \in DOMAIN db[r] : db[r][n].id = n /\ db[r][n].room = r
  BY DEF Typed, DbType
<1>5. \A r \in Rooms : run[r].phase \in {"idle", "accepted", "streaming", "closing"}
          /\ run[r].kind \in {"send", "retry", "approval"}
          /\ Busy(r) => run[r].user \in DOMAIN db[r]
  BY RunTypes DEF AnyRun, Typed, DbType
<1> QED
  BY <1>1, <1>2, <1>3, <1>4, <1>5
     DEF TypeOK, Typed, DeletionType, RoomsType, FlagsType, BoundsType

(* Every variable is what it is declared to be, whatever the messages, the *)
(* page size and the bounds: what is shown, fetched, asked and told names  *)
(* messages of its room.                                                   *)
THEOREM TypeCorrect == Spec => []TypeOK
BY TypedAlways, TypedOK, PTL

(***************************************************************************)
(* The selected room: it is joined, or its join is on its way.             *)
(***************************************************************************)
Leaves(q, r) == q.op = "leave" /\ q.room = r
Stays(s, r)  == \A j \in 1..Len(s) : ~Leaves(s[j], r)
Asked(s, r)  == \E i \in 1..Len(s) : /\ s[i].op = "join" /\ s[i].room = r
                                   /\ \A j \in i..Len(s) : ~Leaves(s[j], r)
Joins(s, rooms, r) == Asked(s, r) \/ (r \in rooms /\ Stays(s, r))

(* The room is not being left by a deletion, nor the connection down.      *)
Kept     == /\ ui.room \notin gone \union {None}
            /\ ~(deletion.stage = "sent" /\ deletion.room = ui.room)
Followed == Kept /\ (calm \/ (connected /\ ui.room # deletion.room))
JoinInv  == Followed => Joins(up, joining \union joined, ui.room)

LEMMA AskedSteps ==
    ASSUME NEW r
    PROVE  /\ \A s, t \in Seq(AnyRequest) :
                 /\ Asked(t, r) => Asked(s \o t, r)
                 /\ Asked(s, r) /\ Stays(t, r) => Asked(s \o t, r)
                 /\ Stays(s, r) /\ Stays(t, r) => Stays(s \o t, r)
           /\ \A s \in Seq(AnyRequest) : s # <<>> =>
                 /\ Asked(s, r) => Asked(Tail(s), r) \/ (Head(s).op = "join" /\ Head(s).room = r /\ Stays(Tail(s), r))
                 /\ Stays(s, r) => Stays(Tail(s), r) /\ ~Leaves(Head(s), r)
<1>1. ASSUME NEW s \in Seq(AnyRequest), NEW t \in Seq(AnyRequest)
      PROVE  /\ Asked(t, r) => Asked(s \o t, r)
             /\ Asked(s, r) /\ Stays(t, r) => Asked(s \o t, r)
             /\ Stays(s, r) /\ Stays(t, r) => Stays(s \o t, r)
  <2> DEFINE u == s \o t
  <2>1. /\ Len(u) = Len(s) + Len(t) /\ Len(s) \in Nat /\ Len(t) \in Nat
        /\ \A i \in 1..(Len(s) + Len(t)) : u[i] = IF i <= Len(s) THEN s[i] ELSE t[i - Len(s)]
    BY ConcatProperties
  <2> HIDE DEF u
  <2>2. ASSUME NEW i \in 1..Len(t), t[i].op = "join", t[i].room = r, \A j \in i..Len(t) : ~Leaves(t[j], r)
        PROVE  Asked(u, r)
    <3>1. Len(s) + i \in 1..Len(u) /\ u[Len(s) + i] = t[i]
      BY <2>1
    <3>2. ASSUME NEW j \in (Len(s) + i)..Len(u) PROVE ~Leaves(u[j], r)
      <4>1. j - Len(s) \in i..Len(t) /\ u[j] = t[j - Len(s)]
        BY <2>1
      <4> QED
        BY <2>2, <4>1
    <3> QED
      BY <2>2, <3>1, <3>2 DEF Asked
  <2>3. ASSUME NEW i \in 1..Len(s), s[i].op = "join", s[i].room = r, \A j \in i..Len(s) : ~Leaves(s[j], r),
               Stays(t, r)
        PROVE  Asked(u, r)
    <3>1. i \in 1..Len(u) /\ u[i] = s[i]
      BY <2>1
    <3>2. ASSUME NEW j \in i..Len(u) PROVE ~Leaves(u[j], r)
      <4>1. CASE j <= Len(s)
        BY <2>1, <2>3, <4>1
      <4>2. CASE j > Len(s)
        <5>1. j - Len(s) \in 1..Len(t) /\ u[j] = t[j - Len(s)]
          BY <2>1, <4>2
        <5> QED
          BY <2>3, <5>1 DEF Stays
      <4> QED
        BY <2>1, <4>1, <4>2
    <3> QED
      BY <2>3, <3>1, <3>2 DEF Asked
  <2>4. ASSUME Stays(s, r), Stays(t, r), NEW j \in 1..Len(u) PROVE ~Leaves(u[j], r)
    <3>1. CASE j <= Len(s)
      BY <2>1, <2>4, <3>1 DEF Stays
    <3>2. CASE j > Len(s)
      <4>1. j - Len(s) \in 1..Len(t) /\ u[j] = t[j - Len(s)]
        BY <2>1, <3>2
      <4> QED
        BY <2>4, <4>1 DEF Stays
    <3> QED
      BY <2>1, <3>1, <3>2
  <2> QED
    BY <2>2, <2>3, <2>4 DEF Asked, Stays, u
<1>2. ASSUME NEW s \in Seq(AnyRequest), s # <<>>
      PROVE  /\ Asked(s, r) => Asked(Tail(s), r) \/ (Head(s).op = "join" /\ Head(s).room = r /\ Stays(Tail(s), r))
             /\ Stays(s, r) => Stays(Tail(s), r) /\ ~Leaves(Head(s), r)
  <2> DEFINE u == Tail(s)
  <2>1. /\ Len(s) \in Nat \ {0} /\ Head(s) = s[1] /\ Len(u) = Len(s) - 1
        /\ \A i \in 1..Len(u) : u[i] = s[i + 1]
    BY <1>2, HeadTailProperties
  <2> HIDE DEF u
  <2>2. Stays(s, r) => Stays(u, r) /\ ~Leaves(s[1], r)
    BY <2>1 DEF Stays
  <2>3. ASSUME NEW i \in 1..Len(s), s[i].op = "join", s[i].room = r, \A j \in i..Len(s) : ~Leaves(s[j], r)
        PROVE  Asked(u, r) \/ (s[1].op = "join" /\ s[1].room = r /\ Stays(u, r))
    <3>1. CASE i = 1
      <4>1. ASSUME NEW j \in 1..Len(u) PROVE ~Leaves(u[j], r)
        <5>1. j + 1 \in i..Len(s) /\ u[j] = s[j + 1]
          BY <2>1, <3>1
        <5> QED
          BY <2>3, <5>1
      <4> QED
        BY <2>3, <3>1, <4>1 DEF Stays
    <3>2. CASE i > 1
      <4>1. i - 1 \in 1..Len(u) /\ u[i - 1] = s[i]
        BY <2>1, <3>2
      <4>2. ASSUME NEW j \in (i - 1)..Len(u) PROVE ~Leaves(u[j], r)
        <5>1. j + 1 \in i..Len(s) /\ u[j] = s[j + 1]
          BY <2>1, <3>2
        <5> QED
          BY <2>3, <5>1
      <4> QED
        BY <2>3, <4>1, <4>2 DEF Asked
    <3> QED
      BY <2>1, <3>1, <3>2
  <2> QED
    BY <2>1, <2>2, <2>3 DEF Asked, u
<1> QED
  BY <1>1, <1>2

LEMMA JoinRequested ==
    ASSUME NEW r \in Rooms
    PROVE  /\ <<Request("join", r, None)>> \in Seq(AnyRequest) /\ Asked(<<Request("join", r, None)>>, r)
           /\ Stays(<<>>, r) /\ <<>> \in Seq(AnyRequest)
           /\ \A op \in Asking : \A q, arg : Stays(<<Request(op, q, arg)>>, r)
<1>1. RequestOf(db, Request("join", r, None))
  BY RequestMade
<1>2. Asked(<<Request("join", r, None)>>, r)
  BY DEF Asked, Request, Leaves
<1>3. Stays(<<>>, r)
  BY DEF Stays
<1>4. \A op \in Asking : \A q, arg : Stays(<<Request(op, q, arg)>>, r)
  BY DEF Stays, Request, Leaves, Asking
<1> QED
  BY <1>1, <1>2, <1>3, <1>4, RequestSequences DEF RequestsOf

LEMMA CalmKept ==
    ASSUME [Next]_vars, calm'
    PROVE  calm \/ \E r \in Rooms : EnterRoom(r)
<1>1. CASE User
  BY <1>1 DEF User, DeleteRoom, SendMessage, RetryMessage, RespondToApproval,
          StopGeneration, LoadOlder, history
<1>2. CASE Answers
  <2>1. ASSUME NEW f \in fetches, ServeMessages(f) \/ ApplyFirst(f) \/ ApplyOlder(f) PROVE calm
    BY <2>1 DEF ServeMessages, ApplyFirst, ApplyOlder, history
  <2>2. ServeDeletion \/ ApplyDeletion => calm
    BY DEF ServeDeletion, ApplyDeletion, history
  <2> QED
    BY <1>2, <2>1, <2>2 DEF Answers
<1>3. CASE HandleEvent
  BY <1>3 DEF HandleEvent, HandleMessageCreated, HandleMessageUpdated, HandleStarted, HandleDelta,
         HandleEnd, HandleApprovalRequired, HandleApprovalResolved, HandleChatError, Incoming
<1>4. CASE Disconnect \/ Connect
  BY <1>4 DEF Disconnect, Connect, history
<1>5. CASE Receive
  BY <1>5 DEF Receive, JoinBegins, LeaveRoom, ReceiveRetry, ReceiveResponse, ReceiveStop, Refuse,
              ReceiveSend, Changed, history
<1>6. ASSUME NEW r \in Rooms, JoinEnds(r) \/ Start(r) \/ Delta(r) \/ Finish(r) PROVE calm
  <2>1. CASE JoinEnds(r) \/ Start(r) \/ Delta(r)
    BY <2>1 DEF JoinEnds, Start, Delta, history
  <2>2. CASE Complete(r) \/ Cancel(r) \/ FailSend(r) \/ FailApproval(r) \/ AskApproval(r)
    BY <2>2 DEF Complete, Cancel, FailSend, FailApproval, AskApproval, Changed
  <2>3. CASE FailRetry(r) \/ Unclear(r) \/ Close(r) \/ Vanish(r)
    BY <2>3 DEF FailRetry, Unclear, Close, Vanish, Changed, history
  <2> QED
    BY <1>6, <2>1, <2>2, <2>3 DEF Finish
<1>7. CASE UNCHANGED vars
  BY <1>7 DEF vars, history
<1> QED
  BY <1>1, <1>2, <1>3, <1>4, <1>5, <1>6, <1>7 DEF Next, Gateway

LEMMA GoneKept ==
    ASSUME [Next]_vars
    PROVE  gone \subseteq gone' /\ (gone' = gone \/ ServeDeletion)
<1>1. gone' = gone \/ ServeDeletion
  <2>1. CASE User
    BY <2>1 DEF User, EnterRoom, DeleteRoom, SendMessage, RetryMessage, RespondToApproval,
            StopGeneration, LoadOlder, server
  <2>2. CASE Answers
    BY <2>2 DEF Answers, ServeMessages, ApplyFirst, ApplyOlder, ApplyDeletion, server
  <2>3. CASE HandleEvent \/ Connect \/ Disconnect
    BY <2>3 DEF HandleEvent, HandleMessageCreated, HandleMessageUpdated, HandleStarted, HandleDelta,
           HandleEnd, HandleApprovalRequired, HandleApprovalResolved, HandleChatError, Incoming,
           Connect, Disconnect, server
  <2>4. CASE Receive
    BY <2>4 DEF Receive, JoinBegins, LeaveRoom, ReceiveRetry, ReceiveResponse, ReceiveStop, Refuse,
                ReceiveSend, Arrived
  <2>5. ASSUME NEW r \in Rooms, JoinEnds(r) \/ Start(r) \/ Delta(r) \/ Finish(r)
        PROVE  gone' = gone
    BY <2>5 DEF JoinEnds, Start, Delta, Finish, Complete, Cancel, FailSend, FailRetry, FailApproval,
                Unclear, AskApproval, Close, Vanish, InRoom, Runs
  <2> QED
    BY <2>1, <2>2, <2>3, <2>4, <2>5 DEF Next, Gateway, vars, server
<1> QED
  BY <1>1 DEF ServeDeletion

LEMMA FollowedBefore ==
    ASSUME Typed, [Next]_vars, Followed', ~(\E r \in Rooms : EnterRoom(r)), ~Connect
    PROVE  Followed /\ ui'.room = ui.room /\ ui.room \in Rooms /\ ~Disconnect /\ ~DeleteRoom(ui.room)
<1>1. ui'.room \notin gone' \union {None} /\ ~(deletion'.stage = "sent" /\ deletion'.room = ui'.room)
      /\ (calm' \/ (connected' /\ ui'.room # deletion'.room))
  BY DEF Followed, Kept
<1>2. ui'.room = ui.room /\ ui.room \in Rooms
  <2>1. Fresh(None, NextRequest).room = None
    BY DEF Fresh
  <2>2. ui.room \in Rooms \union {None}
    BY DEF Typed, PageOf, AnyPage
  <2> QED
    BY <1>1, <2>1, <2>2, VisitSteps
<1>3. ~Disconnect
  BY <1>1 DEF Disconnect
<1>4. ~DeleteRoom(ui.room)
  BY <1>1, <1>2 DEF DeleteRoom
<1>5. (calm' => calm) /\ (connected' => connected) /\ gone \subseteq gone'
  BY <1>3, CalmKept, GoneKept, ConnectedSteps
<1>6. \/ deletion' = deletion
      \/ deletion.stage = "none"
      \/ ServeDeletion \/ ApplyDeletion
  BY DeletionSteps DEF DeleteRoom
<1>7. CASE deletion' = deletion
  BY <1>1, <1>2, <1>3, <1>4, <1>5, <1>7 DEF Followed, Kept
<1>8. CASE deletion.stage = "none"
  <2>1. deletion.room = None
    BY <1>8 DEF Typed, DeletionType
  <2>2. ui.room # None
    BY <1>1, <1>2
  <2> QED
    BY <1>1, <1>2, <1>3, <1>4, <1>5, <1>8, <2>1, <2>2 DEF Followed, Kept
<1>9. CASE ServeDeletion
  <2>1. deletion.room \in gone' /\ deletion'.room = deletion.room
    BY <1>9 DEF ServeDeletion, Typed, DeletionType
  <2> QED
    BY <1>1, <1>2, <1>3, <1>4, <1>5, <2>1 DEF Followed, Kept
<1>10. CASE ApplyDeletion
  <2>1. deletion'.room = deletion.room
    BY <1>10 DEF ApplyDeletion, Typed, DeletionType
  <2>2. deletion.stage = "served" \/ ~calm'
    BY <1>10 DEF ApplyDeletion
  <2> QED
    BY <1>1, <1>2, <1>3, <1>4, <1>5, <2>1, <2>2 DEF Followed, Kept
<1> QED
  BY <1>6, <1>7, <1>8, <1>9, <1>10

LEMMA JoinNext ==
    ASSUME Typed, JoinInv, [Next]_vars
    PROVE  JoinInv'
<1> SUFFICES ASSUME Followed' PROVE Joins(up', joining' \union joined', ui'.room)
  BY DEF JoinInv
<1>0. up \in Seq(AnyRequest) /\ up \o <<>> = up
  BY ConcatEmptySeq DEF Typed, UpType
<1>1. ASSUME NEW r \in Rooms, EnterRoom(r) PROVE Joins(up', joining' \union joined', ui'.room)
  <2> DEFINE s == IF ui.room \in {None, r} THEN <<>> ELSE <<Request("leave", ui.room, None)>>
  <2>1. up' = up \o (s \o <<Request("join", r, None)>>) /\ ui'.room = r
    BY <1>1 DEF EnterRoom, Emit, Fresh
  <2>2. s \in Seq(AnyRequest)
    <3>1. ui.room \in {None, r} \/ ui.room \in Rooms
      BY DEF Typed, PageOf, AnyPage
    <3>2. RequestsOf(db, s)
      BY <3>1, RequestSequences, RequestMade
    <3> QED
      BY <3>2 DEF RequestsOf
  <2> HIDE DEF s
  <2>3. Asked(s \o <<Request("join", r, None)>>, r) /\ s \o <<Request("join", r, None)>> \in Seq(AnyRequest)
    BY <2>2, AskedSteps, JoinRequested, ConcatProperties
  <2>4. Asked(up', r)
    BY <1>0, <2>1, <2>3, AskedSteps
  <2> QED
    BY <2>1, <2>4 DEF Joins
<1>2. CASE Connect
  <2>1. ui'.room = ui.room /\ ui.room # None /\ up' = up \o <<Request("join", ui.room, None)>>
    BY <1>2 DEF Connect, client, Emit, Followed, Kept
  <2>2. ui.room \in Rooms
    BY <2>1 DEF Typed, PageOf, AnyPage
  <2>3. Asked(up', ui.room)
    BY <1>0, <2>1, <2>2, AskedSteps, JoinRequested
  <2> QED
    BY <2>1, <2>3 DEF Joins
<1>3. CASE ~(\E r \in Rooms : EnterRoom(r)) /\ ~Connect
  <2> DEFINE r == ui.room
  <2>1. /\ Joins(up, joining \union joined, r) /\ ui'.room = r /\ r \in Rooms /\ ~Disconnect /\ ~DeleteRoom(r) /\ r \notin gone
    BY <1>3, FollowedBefore DEF JoinInv, Followed, Kept
  <2> HIDE DEF r
  <2> SUFFICES Joins(up', joining' \union joined', r)
    BY <2>1
  <2>2. CASE up' = up /\ joining \union joined \subseteq joining' \union joined'
    BY <2>1, <2>2 DEF Joins
  <2>3. ASSUME NEW op \in Asking, NEW q \in Rooms, NEW arg,
               RequestOf(db, Request(op, q, arg)), up' = up \o <<Request(op, q, arg)>>,
               joining' = joining, joined' = joined
        PROVE  Joins(up', joining' \union joined', r)
    <3>1. Stays(<<Request(op, q, arg)>>, r) /\ <<Request(op, q, arg)>> \in Seq(AnyRequest)
      BY <2>1, <2>3, JoinRequested, RequestSequences DEF RequestsOf
    <3>2. (Asked(up, r) => Asked(up', r)) /\ (Stays(up, r) => Stays(up', r))
      BY <1>0, <2>3, <3>1, AskedSteps
    <3> QED
      BY <2>1, <2>3, <3>2 DEF Joins
  <2>4. CASE User
    <3>1. CASE SendMessage \/ RetryMessage \/ RespondToApproval \/ StopGeneration
      <4>1. PICK op, q, arg : op \in Asking /\ q \in Rooms /\
               RequestOf(db, Request(op, q, arg)) /\ up' = up \o <<Request(op, q, arg)>>
        BY <3>1, Requested
      <4>2. joining' = joining /\ joined' = joined
        BY <3>1, Requested
      <4> QED
        BY <2>3, <4>1, <4>2
    <3>2. CASE LoadOlder
      BY <2>2, <3>2 DEF LoadOlder, server
    <3>3. ASSUME NEW q \in Rooms, DeleteRoom(q) PROVE Joins(up', joining' \union joined', r)
      <4>1. q # r
        BY <2>1, <3>3
      <4>2. up' = up \o <<>> /\ joining' = joining /\ joined' = joined
        BY <3>3, <4>1 DEF DeleteRoom, Emit, server, r
      <4>3. up' = up
        BY <1>0, <4>2
      <4> QED
        BY <2>2, <4>2, <4>3
    <3> QED
      BY <1>3, <2>4, <3>1, <3>2, <3>3 DEF User
  <2>5. CASE Answers
    BY <2>2, <2>5 DEF Answers, ServeMessages, ApplyFirst, ApplyOlder, ServeDeletion, ApplyDeletion, server
  <2>6. CASE HandleEvent
    BY <2>2, <2>6 DEF HandleEvent, HandleMessageCreated, HandleMessageUpdated, HandleStarted, HandleDelta,
         HandleEnd, HandleApprovalRequired, HandleApprovalResolved, HandleChatError, Incoming, server
  <2>7. CASE Receive
    <3>1. up # <<>> /\ up' = Tail(up)
      BY <2>7 DEF Receive, JoinBegins, LeaveRoom, ReceiveRetry, ReceiveResponse, ReceiveStop, Refuse,
              ReceiveSend, Arrived
    <3>2. /\ Asked(up, r) => Asked(up', r) \/ (Head(up).op = "join" /\ Room = r /\ Stays(up', r))
          /\ Stays(up, r) => Stays(up', r) /\ ~Leaves(Head(up), r)
      BY <1>0, <3>1, AskedSteps DEF Room
    <3>3. CASE JoinBegins
      BY <2>1, <3>2, <3>3 DEF JoinBegins, Joins
    <3>4. CASE LeaveRoom
      BY <2>1, <3>2, <3>4 DEF LeaveRoom, Arrived, Joins, Leaves, Room
    <3>5. CASE joining' = joining /\ joined' = joined /\ Head(up).op # "join"
      BY <2>1, <3>2, <3>5 DEF Joins
    <3> QED
      BY <2>7, <3>3, <3>4, <3>5 DEF Receive, ReceiveRetry, ReceiveResponse, ReceiveStop, Refuse,
              ReceiveSend, Arrived
  <2>8. ASSUME NEW q \in Rooms, JoinEnds(q) \/ Start(q) \/ Delta(q) \/ Finish(q) PROVE Joins(up', joining' \union joined', r)
    <3>1. CASE JoinEnds(q)
      <4>1. up' = up /\ joining' = joining \ {q} /\ joined \subseteq joined' /\ (q \notin gone => q \in joined')
        BY <3>1 DEF JoinEnds
      <4> QED
        BY <2>1, <4>1 DEF Joins
    <3>2. CASE ~JoinEnds(q)
      <4>1. up' = up /\ joining' = joining /\ joined' = joined
        BY <2>8, <3>2 DEF Start, Delta, Finish, Complete, Cancel, FailSend, FailRetry, FailApproval,
              Unclear, AskApproval, Close, Vanish, InRoom, Runs
      <4> QED
        BY <2>2, <4>1
    <3> QED
      BY <3>1, <3>2
  <2>9. CASE UNCHANGED vars
    BY <2>2, <2>9 DEF vars, server
  <2> QED
    BY <1>3, <2>1, <2>4, <2>5, <2>6, <2>7, <2>8, <2>9 DEF Next, Gateway
<1> QED
  BY <1>1, <1>2, <1>3

LEMMA JoinAlways == Spec => []JoinInv
<1>1. Init => JoinInv
  BY DEF Init, JoinInv, Followed, Kept, Fresh
<1>2. Typed /\ JoinInv /\ [Next]_vars => JoinInv'
  BY JoinNext
<1> QED
  BY <1>1, <1>2, TypedAlways, PTL DEF Spec

(* ChatPage.tsx:80-96, 456-491, chat.gateway.ts:173-212: after any drops,  *)
(* visits and deletions the selected room is joined once nothing is under  *)
(* way, unless it is being deleted.                                        *)
THEOREM RejoinedHolds == Spec => []Rejoined
<1>1. JoinInv => Rejoined
  BY DEF JoinInv, Followed, Kept, Joins, Asked, Rejoined, Quiet
<1> QED
  BY <1>1, JoinAlways, PTL

(***************************************************************************)
(* What is shown: no message twice.                                        *)
(***************************************************************************)
Distinct(s)  == \A i, j \in 1..Len(s) : s[i].id = s[j].id => i = j
Refreshed(s, m) == [i \in DOMAIN s |-> IF s[i].id = m.id THEN m ELSE s[i]]
ShowInv == Distinct(ui.shown) /\ \A f \in fetches : Distinct(f.page)

LEMMA ShownSteps ==
    ASSUME Typed, [Next]_vars
    PROVE  \/ ui'.shown = ui.shown
           \/ ui'.shown = <<>>
           \/ \E f \in fetches : ui'.shown = f.page \/ ui'.shown = Unshown(f.page) \o ui.shown
           \/ \E m \in AnyMessage : m.id \notin Ids /\ ui'.shown = Append(ui.shown, m)
           \/ \E m \in AnyMessage : ui'.shown = Refreshed(ui.shown, m)
<1>1. ui \in AnyPage
  BY DEF Typed, PageOf
<1>2. ASSUME NEW r, EnterRoom(r) PROVE ui'.shown = <<>>
  BY <1>2 DEF EnterRoom, Fresh
<1>3. ApplyDeletion => ui'.shown = ui.shown \/ ui'.shown = <<>>
  BY DEF ApplyDeletion, Fresh
<1>4. SendMessage \/ RetryMessage \/ RespondToApproval \/ StopGeneration \/ LoadOlder
      => ui'.shown = ui.shown
  BY <1>1 DEF SendMessage, RetryMessage, RespondToApproval, StopGeneration, LoadOlder, AnyPage
<1>5. ASSUME NEW f \in fetches, ApplyFirst(f) \/ ApplyOlder(f)
      PROVE  ui'.shown = ui.shown \/ ui'.shown = f.page \/ ui'.shown = Unshown(f.page) \o ui.shown
  BY <1>1, <1>5 DEF ApplyFirst, ApplyOlder, AnyPage
<1>6. CASE HandleEvent
  <2> DEFINE Adds(m) == m \in AnyMessage /\ m.id \notin Ids /\ ui'.shown = Append(ui.shown, m)
  <2>0. down # <<>>
    BY <1>6 DEF HandleEvent, HandleMessageCreated, HandleMessageUpdated, HandleStarted, HandleDelta,
         HandleEnd, HandleApprovalRequired, HandleApprovalResolved, HandleChatError, Incoming
  <2>1. Carries(Event) => Event.body \in AnyMessage
    BY <2>0, EventType DEF EventOf, MessageOf
  <2>2. ASSUME NEW p \in AnyPage, NEW m, p.shown = ui.shown
        PROVE  Appended(p, m).shown = IF m.id \in Ids THEN ui.shown ELSE Append(ui.shown, m)
    BY <2>2 DEF Appended, AnyPage
  <2>3. CASE HandleMessageCreated
    BY <1>1, <2>1, <2>2, <2>3 DEF HandleMessageCreated, Incoming, Event, Carries
  <2>4. CASE HandleMessageUpdated
    <3>1. Event.body \in AnyMessage
      BY <2>1, <2>4 DEF HandleMessageUpdated, Incoming, Event, Carries
    <3>2. CASE Here /\ Event.body.id \in Ids
      BY <1>1, <2>4, <3>1, <3>2 DEF HandleMessageUpdated, Refreshed, AnyPage
    <3> QED
      BY <1>1, <2>2, <2>4, <3>1, <3>2 DEF HandleMessageUpdated
  <2>5. CASE HandleEnd
    <3> DEFINE ended == [Quieted(ui) EXCEPT !.card = None]
    <3>1. ended \in AnyPage /\ ended.shown = ui.shown
      BY <1>1 DEF Quieted, AnyPage
    <3>2. ui' = IF ~Here THEN ui ELSE IF Event.body = None THEN ended ELSE Appended(ended, Event.body)
      BY <2>5 DEF HandleEnd
    <3>3. Event.body # None => Event.body \in AnyMessage
      BY <2>1, <2>5 DEF HandleEnd, Incoming, Event, Carries, Ends
    <3> HIDE DEF ended
    <3> QED
      BY <2>2, <3>1, <3>2, <3>3
  <2>6. HandleStarted \/ HandleDelta \/ HandleApprovalRequired \/ HandleApprovalResolved \/ HandleChatError
        => ui'.shown = ui.shown
    BY <1>1 DEF HandleStarted, HandleDelta, HandleApprovalRequired, HandleApprovalResolved,
       HandleChatError, Quieted, AnyPage
  <2> QED
    BY <1>6, <2>3, <2>4, <2>5, <2>6 DEF HandleEvent
<1>7. ui' = ui => ui'.shown = ui.shown
  OBVIOUS
<1> QED
  BY <1>2, <1>3, <1>4, <1>5, <1>6, <1>7, UiSteps

LEMMA DistinctSteps ==
    ASSUME Typed, Distinct(ui.shown)
    PROVE  /\ \A m \in AnyMessage : m.id \notin Ids => Distinct(Append(ui.shown, m))
           /\ \A m \in AnyMessage : Distinct(Refreshed(ui.shown, m))
           /\ \A page \in Seq(AnyMessage) : Distinct(page) => Distinct(Unshown(page) \o ui.shown)
<1>1. /\ ui.shown \in Seq(AnyMessage) /\ Len(ui.shown) \in Nat /\ DOMAIN ui.shown = 1..Len(ui.shown)
      /\ \A i \in 1..Len(ui.shown) : ui.shown[i].id \in Ids
  BY DEF Typed, PageOf, AnyPage, Ids
<1>2. ASSUME NEW m \in AnyMessage, m.id \notin Ids PROVE Distinct(Append(ui.shown, m))
  BY <1>1, <1>2, AppendProperties DEF Distinct
<1>3. ASSUME NEW m \in AnyMessage PROVE Distinct(Refreshed(ui.shown, m))
  <2>1. Len(Refreshed(ui.shown, m)) = Len(ui.shown)
    BY <1>1 DEF Refreshed
  <2>2. \A i \in 1..Len(ui.shown) : Refreshed(ui.shown, m)[i].id = ui.shown[i].id
    BY <1>1 DEF Refreshed
  <2> QED
    BY <2>1, <2>2 DEF Distinct
<1>4. ASSUME NEW page \in Seq(AnyMessage), Distinct(page) PROVE Distinct(Unshown(page) \o ui.shown)
  <2> DEFINE u == Unshown(page)
             P == Places(page)
  <2>1. /\ u \in Seq(AnyMessage) /\ Len(u) \in Nat
        /\ \A k \in 1..Len(u) : \E i \in P : u[k] = page[i] /\ Rank(P, i) = k - 1
    BY UnshownElements
  <2>2. \A i \in P : i \in 1..Len(page) /\ page[i].id \notin Ids
    BY DEF Places
  <2> HIDE DEF u, P
  <2>3. ASSUME NEW k \in 1..Len(u), NEW l \in 1..Len(u), u[k].id = u[l].id PROVE k = l
    <3>1. PICK i \in P : u[k] = page[i] /\ Rank(P, i) = k - 1
      BY <2>1
    <3>2. PICK j \in P : u[l] = page[j] /\ Rank(P, j) = l - 1
      BY <2>1
    <3>3. i = j
      BY <1>4, <2>2, <2>3, <3>1, <3>2 DEF Distinct
    <3> QED
      BY <3>1, <3>2, <3>3
  <2>4. \A k \in 1..Len(u) : u[k].id \notin Ids
    BY <2>1, <2>2
  <2>5. /\ Len(u \o ui.shown) = Len(u) + Len(ui.shown)
        /\ \A i \in 1..(Len(u) + Len(ui.shown)) :
              (u \o ui.shown)[i] = IF i <= Len(u) THEN u[i] ELSE ui.shown[i - Len(u)]
    BY <1>1, <2>1, ConcatProperties
  <2>6. ASSUME NEW i \in 1..(Len(u) + Len(ui.shown)), i > Len(u)
        PROVE  i - Len(u) \in 1..Len(ui.shown) /\ (u \o ui.shown)[i].id = ui.shown[i - Len(u)].id
               /\ (u \o ui.shown)[i].id \in Ids
    <3>1. i - Len(u) \in 1..Len(ui.shown)
      BY <1>1, <2>1, <2>6
    <3> QED
      BY <1>1, <2>1, <2>5, <2>6, <3>1
  <2>7. ASSUME NEW i \in 1..(Len(u) + Len(ui.shown)), i <= Len(u)
        PROVE  i \in 1..Len(u) /\ (u \o ui.shown)[i].id = u[i].id /\ (u \o ui.shown)[i].id \notin Ids
    <3>1. i \in 1..Len(u)
      BY <2>1, <2>7
    <3> QED
      BY <2>4, <2>5, <2>7, <3>1
  <2>8. ASSUME NEW i \in 1..(Len(u) + Len(ui.shown)), NEW j \in 1..(Len(u) + Len(ui.shown)),
               (u \o ui.shown)[i].id = (u \o ui.shown)[j].id
        PROVE  i = j
    <3>1. CASE i <= Len(u) /\ j <= Len(u)
      BY <2>3, <2>7, <2>8, <3>1
    <3>2. CASE i > Len(u) /\ j > Len(u)
      <4>0. /\ i - Len(u) \in 1..Len(ui.shown) /\ j - Len(u) \in 1..Len(ui.shown)
            /\ ui.shown[i - Len(u)].id = ui.shown[j - Len(u)].id
        BY <2>6, <2>8, <3>2
      <4>1. i - Len(u) = j - Len(u)
        BY <4>0, Zenon DEF Distinct
      <4> QED
        BY <1>1, <2>1, <4>1
    <3>3. (i <= Len(u)) <=> (j <= Len(u))
      BY <1>1, <2>1, <2>6, <2>7, <2>8
    <3> QED
      BY <1>1, <2>1, <3>1, <3>2, <3>3
  <2> QED
    BY <2>5, <2>8 DEF Distinct, u
<1> QED
  BY <1>2, <1>3, <1>4

LEMMA ServedDistinct ==
    ASSUME Typed, NEW r \in Rooms, NEW c \in 0..Len(db[r])
    PROVE  Distinct(Page(db[r], c).messages)
<1> DEFINE last  == IF c = 0 THEN Len(db[r]) ELSE c - 1
           first == IF last > PageSize THEN last - PageSize + 1 ELSE 1
<1>1. /\ db[r] \in Seq(AnyMessage) /\ Len(db[r]) \in Nat
      /\ \A n \in 1..Len(db[r]) : db[r][n] \in AnyMessage /\ db[r][n].id = n /\ db[r][n].room = r
  BY DEF Typed, DbType
<1>2. last \in 0..Len(db[r]) /\ first \in 1..(last + 1)
  BY <1>1, PageAssumption
<1>3. Page(db[r], c).messages = SubSeq(db[r], first, last)
  BY DEF Page
<1> HIDE DEF last, first
<1>4. /\ Len(SubSeq(db[r], first, last)) = last - first + 1
      /\ \A i \in 1..(last - first + 1) : SubSeq(db[r], first, last)[i] = db[r][first + i - 1]
  <2>1. \A i \in first..last : db[r][i] \in AnyMessage
    BY <1>1, <1>2
  <2>2. /\ Len(SubSeq(db[r], first, last)) = IF first <= last THEN last - first + 1 ELSE 0
        /\ \A i \in 1..(last - first + 1) : SubSeq(db[r], first, last)[i] = db[r][first + i - 1]
    BY <1>1, <1>2, <2>1, SubSeqProperties
  <2> QED
    BY <1>1, <1>2, <2>2
<1>5. ASSUME NEW i \in 1..(last - first + 1) PROVE SubSeq(db[r], first, last)[i].id = first + i - 1
  <2>1. first + i - 1 \in 1..Len(db[r])
    BY <1>1, <1>2
  <2> QED
    BY <1>1, <1>4, <2>1
<1>6. ASSUME NEW i \in 1..(last - first + 1), NEW j \in 1..(last - first + 1), first + i - 1 = first + j - 1
      PROVE  i = j
  BY <1>1, <1>2, <1>6
<1> DEFINE s == SubSeq(db[r], first, last)
<1>7. /\ Len(s) = last - first + 1
      /\ \A i \in 1..(last - first + 1) : s[i].id = first + i - 1
  BY <1>4, <1>5
<1> HIDE DEF s
<1>8. Distinct(s)
  BY <1>6, <1>7 DEF Distinct
<1> QED
  BY <1>3, <1>8 DEF s

LEMMA ShowNext ==
    ASSUME Typed, ShowInv, [Next]_vars
    PROVE  ShowInv'
<1>1. Distinct(<<>>)
  BY DEF Distinct
<1>2. \A f \in fetches : f.page \in Seq(AnyMessage)
  BY DEF Typed, FetchesType, FetchOf, AnyFetch
<1>3. Distinct(ui'.shown)
  BY <1>1, <1>2, ShownSteps, DistinctSteps DEF ShowInv
<1>4. \A f \in fetches' : Distinct(f.page)
  <2>1. CASE fetches' \subseteq fetches
    BY <2>1 DEF ShowInv
  <2>2. ASSUME NEW r \in Rooms, EnterRoom(r) PROVE \A f \in fetches' : Distinct(f.page)
    BY <1>1, <2>2 DEF ShowInv, EnterRoom
  <2>3. CASE LoadOlder
    BY <1>1, <2>3 DEF ShowInv, LoadOlder
  <2>4. ASSUME NEW f \in fetches, ServeMessages(f) PROVE \A g \in fetches' : Distinct(g.page)
    <3> DEFINE p == Page(db[f.room], f.cursor)
               x == [f EXCEPT !.status = "answered", !.page = p.messages, !.next = p.next]
               y == [f EXCEPT !.status = "failed"]
    <3>1. f \in AnyFetch /\ f.room \in Rooms /\ f.cursor \in 0..Len(db[f.room])
      BY DEF Typed, FetchesType, FetchOf, AnyFetch, DbType
    <3>2. Distinct(p.messages)
      BY <3>1, ServedDistinct
    <3>3. x.page = p.messages /\ y.page = f.page
      BY <3>1 DEF AnyFetch
    <3>4. fetches' \subseteq fetches \union {x, y}
      BY <2>4 DEF ServeMessages
    <3> HIDE DEF x, y, p
    <3> QED
      BY <3>2, <3>3, <3>4 DEF ShowInv
  <2> QED
    BY <2>1, <2>2, <2>3, <2>4, FetchSteps
<1> QED
  BY <1>3, <1>4 DEF ShowInv

LEMMA ShowAlways == Spec => []ShowInv
<1>1. Init => ShowInv
  BY DEF Init, ShowInv, Fresh, Distinct
<1>2. Typed /\ ShowInv /\ [Next]_vars => ShowInv'
  BY ShowNext
<1> QED
  BY <1>1, <1>2, TypedAlways, PTL DEF Spec

(* ChatPage.tsx:504-509, 639-679: what is shown belongs to the selected    *)
(* room, and nothing is there twice, whatever is fetched, created and      *)
(* updated in whichever order.                                             *)
THEOREM ShownOnceHolds == Spec => []ShownOnce
<1>1. ASSUME Typed, ShowInv PROVE ShownOnce
  <2>1. /\ ui.shown \in Seq(AnyMessage) /\ Len(ui.shown) \in Nat /\ DOMAIN ui.shown = 1..Len(ui.shown)
        /\ \A i \in 1..Len(ui.shown) : ui.shown[i].room = ui.room
        /\ ui.card # None => ui.card.room = ui.room
    <3>1. PageOf(db, ui) /\ ui \in AnyPage
      BY <1>1 DEF Typed, PageOf
    <3>2. ui.shown \in Seq(AnyMessage)
      BY <3>1 DEF AnyPage
    <3> QED
      BY <3>1, <3>2 DEF PageOf, MessageOf, CardOf
  <2> DEFINE f == [i \in 1..Len(ui.shown) |-> ui.shown[i].id]
  <2>2. f \in Bijection(1..Len(ui.shown), Ids)
    <3>1. f \in [1..Len(ui.shown) -> Ids]
      BY <2>1 DEF Ids
    <3>2. \A i, j \in 1..Len(ui.shown) : f[i] = f[j] => i = j
      BY <1>1 DEF ShowInv, Distinct
    <3>3. \A n \in Ids : \E i \in 1..Len(ui.shown) : f[i] = n
      BY <2>1 DEF Ids
    <3> HIDE DEF f
    <3> QED
      BY <3>1, <3>2, <3>3 DEF Bijection, Injection, IsInjective, Surjection
  <2>3. ExistsBijection(1..Len(ui.shown), Ids)
    BY <2>2 DEF ExistsBijection
  <2>4. IsFiniteSet(1..Len(ui.shown)) /\ Cardinality(1..Len(ui.shown)) = Len(ui.shown)
    BY <2>1, FS_Interval
  <2>5. Cardinality(Ids) = Len(ui.shown)
    BY <2>3, <2>4, FS_Bijection
  <2> QED
    BY <2>1, <2>5 DEF ShownOnce
<1> QED
  BY <1>1, TypedAlways, ShowAlways, PTL

(***************************************************************************)
(* The text that streams.  What starts or continues a run's text (Opens)   *)
(* is followed by what clears it (Ender) before the next run begins, on    *)
(* the way to the page as in the page; q is what is on its way, no the     *)
(* number of the room's last run, open whether that run may say more.      *)
(***************************************************************************)
Ender(e, r) == \/ e.type = "chat_error"
               \/ e.room = r /\ (Ends(e) \/ e.type = "assistant_approval_required")
EnderIn(q, r, i, j) == \E k \in i..j : Ender(q[k], r)
IsDelta(e, r) == e.type = "assistant_message_delta" /\ e.room = r
Opens(e, r)   == e.room = r /\ e.type \in {"assistant_message_started", "assistant_message_delta"}
Quietly(q, r) == \A i \in 1..Len(q) : ~Opens(q[i], r)
Closes(q, r)  == \E i \in 1..Len(q) : Ender(q[i], r)

Apart(q, r) == \A i, j \in 1..Len(q) :
    i < j /\ IsDelta(q[i], r) /\ IsDelta(q[j], r) /\ q[i].body # q[j].body => EnderIn(q, r, i, j)
OfRun(q, r, no) == \A i \in 1..Len(q) :
    IsDelta(q[i], r) /\ q[i].body # <<r, no>> => EnderIn(q, r, i, Len(q))
Closed(q, r) == \A i \in 1..Len(q) : Opens(q[i], r) => EnderIn(q, r, i, Len(q))

RoomStream(q, r, no, open) == Apart(q, r) /\ OfRun(q, r, no) /\ (~open => Closed(q, r))
PageStream(q, r, no, open, text, streaming) ==
    /\ \A d, e \in text : d[1] = r /\ d = e
    /\ \A d \in text : \A i \in 1..Len(q) :
          IsDelta(q[i], r) /\ q[i].body # d => EnderIn(q, r, 1, i)
    /\ \A d \in text : d # <<r, no>> => EnderIn(q, r, 1, Len(q))
    /\ ~open /\ (text # {} \/ streaming) => EnderIn(q, r, 1, Len(q))

Open(r)   == r \in gone \/ run[r].phase = "streaming"
Mine      == \A r \in Rooms : Busy(r) => run[r].mine
StreamInv == ~dropped =>
    /\ Mine
    /\ \A r \in Rooms \ missed : RoomStream(down, r, run[r].no, Open(r))
    /\ ui.room \in Rooms \ missed =>
          PageStream(down, ui.room, run[ui.room].no, Open(ui.room), ui.text, ui.streaming)

LEMMA ConcatAt ==
    ASSUME NEW s \in Seq(AnyEvent), NEW t \in Seq(AnyEvent)
    PROVE  /\ Len(s) \in Nat /\ Len(t) \in Nat /\ Len(s \o t) = Len(s) + Len(t)
           /\ s \o t \in Seq(AnyEvent)
           /\ \A i \in 1..Len(s) : (s \o t)[i] = s[i]
           /\ \A j \in 1..Len(t) : (s \o t)[Len(s) + j] = t[j]
           /\ \A i \in 1..(Len(s) + Len(t)) :
                 i \in 1..Len(s) \/ (i - Len(s) \in 1..Len(t) /\ (s \o t)[i] = t[i - Len(s)])
<1>1. /\ Len(s) \in Nat /\ Len(t) \in Nat /\ Len(s \o t) = Len(s) + Len(t)
      /\ s \o t \in Seq(AnyEvent)
      /\ \A i \in 1..(Len(s) + Len(t)) : (s \o t)[i] = IF i <= Len(s) THEN s[i] ELSE t[i - Len(s)]
  BY ConcatProperties
<1>2. ASSUME NEW i \in 1..Len(s) PROVE (s \o t)[i] = s[i]
  BY <1>1
<1>3. ASSUME NEW j \in 1..Len(t) PROVE (s \o t)[Len(s) + j] = t[j]
  <2>1. Len(s) + j \in 1..(Len(s) + Len(t)) /\ ~(Len(s) + j <= Len(s)) /\ Len(s) + j - Len(s) = j
    BY <1>1
  <2> QED
    BY <1>1, <2>1
<1>4. ASSUME NEW i \in 1..(Len(s) + Len(t)), i \notin 1..Len(s)
      PROVE  i - Len(s) \in 1..Len(t) /\ (s \o t)[i] = t[i - Len(s)]
  <2>1. i - Len(s) \in 1..Len(t) /\ ~(i <= Len(s))
    BY <1>1, <1>4
  <2> QED
    BY <1>1, <2>1
<1> QED
  BY <1>1, <1>2, <1>3, <1>4

LEMMA TailAt ==
    ASSUME NEW s \in Seq(AnyEvent), s # <<>>
    PROVE  /\ Tail(s) \in Seq(AnyEvent) /\ Len(s) \in Nat /\ Len(s) > 0 /\ Len(Tail(s)) = Len(s) - 1
           /\ Head(s) = s[1]
           /\ \A i \in 1..Len(Tail(s)) : i + 1 \in 1..Len(s) /\ Tail(s)[i] = s[i + 1]
           /\ \A i \in 1..Len(s) : i # 1 => i - 1 \in 1..Len(Tail(s)) /\ Tail(s)[i - 1] = s[i]
<1>1. /\ Tail(s) \in Seq(AnyEvent) /\ Len(s) \in Nat /\ Len(s) > 0 /\ Len(Tail(s)) = Len(s) - 1
      /\ Head(s) = s[1]
      /\ \A i \in 1..Len(Tail(s)) : Tail(s)[i] = s[i + 1]
  BY HeadTailProperties
<1>2. \A i \in 1..Len(Tail(s)) : i + 1 \in 1..Len(s)
  BY <1>1
<1>3. ASSUME NEW i \in 1..Len(s), i # 1 PROVE i - 1 \in 1..Len(Tail(s)) /\ Tail(s)[i - 1] = s[i]
  <2>1. i - 1 \in 1..Len(Tail(s)) /\ (i - 1) + 1 = i
    BY <1>1, <1>3
  <2> QED
    BY <1>1, <2>1
<1> QED
  BY <1>1, <1>2, <1>3

(* More is said after q: of this run, or nothing that opens.               *)
LEMMA StreamAppend ==
    ASSUME NEW q \in Seq(AnyEvent), NEW t \in Seq(AnyEvent), NEW r, NEW no, NEW open \in BOOLEAN,
           \A j \in 1..Len(t) : IsDelta(t[j], r) => t[j].body = <<r, no>>
    PROVE  /\ RoomStream(q, r, no, open) =>
                 /\ RoomStream(q \o t, r, no, TRUE)
                 /\ Quietly(t, r) /\ (~open \/ Closes(t, r)) => RoomStream(q \o t, r, no, FALSE)
           /\ \A text, streaming : PageStream(q, r, no, open, text, streaming) =>
                 /\ PageStream(q \o t, r, no, TRUE, text, streaming)
                 /\ Quietly(t, r) /\ (~open \/ Closes(t, r)) =>
                       PageStream(q \o t, r, no, FALSE, text, streaming)
<1> DEFINE u == q \o t
<1>1. /\ Len(q) \in Nat /\ Len(t) \in Nat /\ Len(u) = Len(q) + Len(t)
      /\ \A i \in 1..Len(q) : u[i] = q[i]
      /\ \A j \in 1..Len(t) : u[Len(q) + j] = t[j]
      /\ \A i \in 1..Len(u) : i \in 1..Len(q) \/ (i - Len(q) \in 1..Len(t) /\ u[i] = t[i - Len(q)])
  BY ConcatAt
<1> HIDE DEF u
<1>2. ASSUME NEW i \in 1..(Len(q) + 1), NEW j \in 0..Len(q), NEW k \in j..Len(u), EnderIn(q, r, i, j)
      PROVE  EnderIn(u, r, i, k)
  <2>1. PICK m \in i..j : Ender(q[m], r)
    BY <1>2 DEF EnderIn
  <2>2. m \in 1..Len(q) /\ m \in i..k
    BY <1>1, <1>2, <2>1
  <2> QED
    BY <1>1, <2>1, <2>2 DEF EnderIn
<1>3. ASSUME Closes(t, r), NEW i \in 1..(Len(q) + 1) PROVE EnderIn(u, r, i, Len(u))
  <2>1. PICK j \in 1..Len(t) : Ender(t[j], r)
    BY <1>3 DEF Closes
  <2>2. Len(q) + j \in i..Len(u) /\ u[Len(q) + j] = t[j]
    BY <1>1, <2>1
  <2> QED
    BY <2>1, <2>2 DEF EnderIn
<1>4. Len(q) \in 0..Len(q) /\ Len(u) \in Len(q)..Len(u) /\ 1 \in 1..(Len(q) + 1)
  BY <1>1
<1>5. ASSUME RoomStream(q, r, no, open) PROVE Apart(u, r)
  <2> SUFFICES ASSUME NEW i \in 1..Len(u), NEW j \in 1..Len(u), i < j,
                      IsDelta(u[i], r), IsDelta(u[j], r), u[i].body # u[j].body
               PROVE  EnderIn(u, r, i, j)
    BY DEF Apart
  <2>1. CASE i \in 1..Len(q) /\ j \in 1..Len(q)
    <3>1. EnderIn(q, r, i, j)
      BY <1>1, <1>5, <2>1 DEF RoomStream, Apart
    <3> QED
      BY <1>1, <1>2, <2>1, <3>1
  <2>2. CASE i \in 1..Len(q) /\ j \notin 1..Len(q)
    <3>1. u[i] = q[i] /\ u[j].body = <<r, no>> /\ Len(q) \in 0..Len(q) /\ j \in Len(q)..Len(u)
      BY <1>1, <2>2
    <3>2. EnderIn(q, r, i, Len(q))
      BY <1>5, <2>2, <3>1 DEF RoomStream, OfRun
    <3> QED
      BY <1>1, <1>2, <2>2, <3>1, <3>2
  <2>3. CASE i \notin 1..Len(q)
    <3>1. j \notin 1..Len(q)
      BY <1>1, <2>3
    <3> QED
      BY <1>1, <2>3, <3>1
  <2> QED
    BY <2>1, <2>2, <2>3
<1>6. ASSUME RoomStream(q, r, no, open) PROVE OfRun(u, r, no)
  <2> SUFFICES ASSUME NEW i \in 1..Len(u), IsDelta(u[i], r), u[i].body # <<r, no>>
               PROVE  EnderIn(u, r, i, Len(u))
    BY DEF OfRun
  <2>1. i \in 1..Len(q) /\ u[i] = q[i]
    BY <1>1
  <2>2. EnderIn(q, r, i, Len(q))
    BY <1>6, <2>1 DEF RoomStream, OfRun
  <2>3. i \in 1..(Len(q) + 1)
    BY <1>1, <2>1
  <2> QED
    BY <1>2, <1>4, <2>2, <2>3
<1>7. ASSUME RoomStream(q, r, no, open), Quietly(t, r), ~open \/ Closes(t, r) PROVE Closed(u, r)
  <2> SUFFICES ASSUME NEW i \in 1..Len(u), Opens(u[i], r) PROVE EnderIn(u, r, i, Len(u))
    BY DEF Closed
  <2>1. i \in 1..Len(q) /\ u[i] = q[i]
    BY <1>1, <1>7 DEF Quietly
  <2>2. i \in 1..(Len(q) + 1)
    BY <1>1, <2>1
  <2>3. CASE Closes(t, r)
    BY <1>3, <2>2, <2>3
  <2>4. CASE ~open
    <3>1. EnderIn(q, r, i, Len(q))
      BY <1>7, <2>1, <2>4 DEF RoomStream, Closed
    <3> QED
      BY <1>2, <1>4, <2>2, <3>1
  <2> QED
    BY <1>7, <2>3, <2>4
<1>8. ASSUME NEW text, NEW streaming, PageStream(q, r, no, open, text, streaming)
      PROVE  /\ PageStream(u, r, no, TRUE, text, streaming)
             /\ Quietly(t, r) /\ (~open \/ Closes(t, r)) => PageStream(u, r, no, FALSE, text, streaming)
  <2>1. ASSUME NEW d \in text, d # <<r, no>> PROVE EnderIn(q, r, 1, Len(q)) /\ EnderIn(u, r, 1, Len(u))
    <3>1. EnderIn(q, r, 1, Len(q))
      BY <1>8, <2>1 DEF PageStream
    <3> QED
      BY <1>2, <1>4, <3>1
  <2>2. ASSUME NEW d \in text, NEW i \in 1..Len(u), IsDelta(u[i], r), u[i].body # d
        PROVE  EnderIn(u, r, 1, i)
    <3>1. CASE i \in 1..Len(q)
      <4>1. EnderIn(q, r, 1, i)
        BY <1>1, <1>8, <2>2, <3>1 DEF PageStream
      <4>2. i \in 0..Len(q) /\ i \in i..Len(u)
        BY <1>1, <3>1
      <4> QED
        BY <1>2, <1>4, <4>1, <4>2
    <3>2. CASE i \notin 1..Len(q)
      <4>1. u[i].body = <<r, no>>
        BY <1>1, <2>2, <3>2
      <4>2. EnderIn(q, r, 1, Len(q))
        BY <2>1, <2>2, <4>1
      <4>3. i \in Len(q)..Len(u)
        BY <1>1, <3>2
      <4> QED
        BY <1>2, <1>4, <4>2, <4>3
    <3> QED
      BY <3>1, <3>2
  <2>3. ASSUME Quietly(t, r), ~open \/ Closes(t, r), text # {} \/ streaming PROVE EnderIn(u, r, 1, Len(u))
    <3>1. CASE Closes(t, r)
      BY <1>3, <1>4, <3>1
    <3>2. CASE ~open
      <4>1. EnderIn(q, r, 1, Len(q))
        BY <1>8, <2>3, <3>2 DEF PageStream
      <4> QED
        BY <1>2, <1>4, <4>1
    <3> QED
      BY <2>3, <3>1, <3>2
  <2>4. \A d, e \in text : d[1] = r /\ d = e
    BY <1>8 DEF PageStream
  <2> QED
    BY <2>1, <2>2, <2>3, <2>4 DEF PageStream
<1>9. RoomStream(q, r, no, open) =>
         /\ RoomStream(u, r, no, TRUE)
         /\ Quietly(t, r) /\ (~open \/ Closes(t, r)) => RoomStream(u, r, no, FALSE)
  BY <1>5, <1>6, <1>7 DEF RoomStream
<1> QED
  BY <1>8, <1>9 DEF u

(* The first event is handled: what the page then has of the text.         *)
LEMMA StreamTail ==
    ASSUME NEW q \in Seq(AnyEvent), q # <<>>, NEW r, NEW no, NEW open \in BOOLEAN,
           RoomStream(q, r, no, open)
    PROVE  /\ RoomStream(Tail(q), r, no, open)
           /\ \A text, streaming : PageStream(q, r, no, open, text, streaming) =>
                 /\ ~Ender(Head(q), r) => PageStream(Tail(q), r, no, open, text, streaming)
                 /\ IsDelta(Head(q), r) /\ Head(q).body[1] = r =>
                       PageStream(Tail(q), r, no, open, text \union {Head(q).body}, streaming)
           /\ Opens(Head(q), r) => PageStream(Tail(q), r, no, open, {}, TRUE)
<1> DEFINE u == Tail(q)
           e == Head(q)
<1>1. /\ Len(q) \in Nat /\ Len(q) > 0 /\ Len(u) = Len(q) - 1 /\ e = q[1]
      /\ \A i \in 1..Len(u) : i + 1 \in 1..Len(q) /\ u[i] = q[i + 1]
      /\ \A i \in 1..Len(q) : i # 1 => i - 1 \in 1..Len(u) /\ u[i - 1] = q[i]
  BY TailAt
<1> HIDE DEF u, e
<1>3. ASSUME NEW i \in 1..Len(u), NEW j \in 1..Len(u), EnderIn(q, r, i + 1, j + 1)
      PROVE  EnderIn(u, r, i, j)
  <2>1. PICK m \in (i + 1)..(j + 1) : Ender(q[m], r)
    BY <1>3 DEF EnderIn
  <2>2. m - 1 \in i..j /\ u[m - 1] = q[m]
    BY <1>1, <2>1
  <2> QED
    BY <2>1, <2>2 DEF EnderIn
<1>4. ASSUME NEW j \in 1..Len(q), EnderIn(q, r, 1, j), ~Ender(e, r) PROVE EnderIn(u, r, 1, j - 1)
  <2>1. PICK m \in 1..j : Ender(q[m], r)
    BY <1>4 DEF EnderIn
  <2>2. m - 1 \in 1..(j - 1) /\ u[m - 1] = q[m]
    BY <1>1, <1>4, <2>1
  <2> QED
    BY <2>1, <2>2 DEF EnderIn
<1>5. RoomStream(u, r, no, open)
  <2>1. Apart(u, r)
    <3> SUFFICES ASSUME NEW i \in 1..Len(u), NEW j \in 1..Len(u), i < j,
                        IsDelta(u[i], r), IsDelta(u[j], r), u[i].body # u[j].body
                 PROVE  EnderIn(u, r, i, j)
      BY DEF Apart
    <3>1. EnderIn(q, r, i + 1, j + 1)
      BY <1>1 DEF RoomStream, Apart
    <3> QED
      BY <1>3, <3>1
  <2>2. ASSUME NEW i \in 1..Len(u), EnderIn(q, r, i + 1, Len(q)) PROVE EnderIn(u, r, i, Len(u))
    <3>1. Len(u) \in 1..Len(u) /\ Len(q) = Len(u) + 1
      BY <1>1
    <3> QED
      BY <1>3, <2>2, <3>1
  <2>3. OfRun(u, r, no)
    BY <1>1, <2>2 DEF RoomStream, OfRun
  <2>4. ~open => Closed(u, r)
    BY <1>1, <2>2 DEF RoomStream, Closed
  <2> QED
    BY <2>1, <2>3, <2>4 DEF RoomStream
<1>6. Len(q) \in 1..Len(q) /\ 1 \in 1..Len(q) /\ Len(u) = Len(q) - 1
  BY <1>1
<1>7. ASSUME NEW text, NEW streaming, PageStream(q, r, no, open, text, streaming)
      PROVE  /\ ~Ender(e, r) => PageStream(u, r, no, open, text, streaming)
             /\ IsDelta(e, r) /\ e.body[1] = r =>
                   PageStream(u, r, no, open, text \union {e.body}, streaming)
  <2>1. \A d, f \in text : d[1] = r /\ d = f
    BY <1>7 DEF PageStream
  <2>2. ASSUME ~Ender(e, r), NEW d \in text, NEW i \in 1..Len(u), IsDelta(u[i], r), u[i].body # d
        PROVE  EnderIn(u, r, 1, i)
    <3>1. EnderIn(q, r, 1, i + 1) /\ i + 1 \in 1..Len(q) /\ (i + 1) - 1 = i
      BY <1>1, <1>7, <2>2 DEF PageStream
    <3> QED
      BY <1>4, <2>2, <3>1
  <2>3. ASSUME ~Ender(e, r), NEW d \in text, d # <<r, no>> PROVE EnderIn(u, r, 1, Len(u))
    <3>1. EnderIn(q, r, 1, Len(q))
      BY <1>7, <2>3 DEF PageStream
    <3> QED
      BY <1>4, <1>6, <2>3, <3>1
  <2>4. ASSUME ~Ender(e, r), ~open, text # {} \/ streaming PROVE EnderIn(u, r, 1, Len(u))
    <3>1. EnderIn(q, r, 1, Len(q))
      BY <1>7, <2>4 DEF PageStream
    <3> QED
      BY <1>4, <1>6, <2>4, <3>1
  <2>5. ASSUME IsDelta(e, r), e.body[1] = r
        PROVE  PageStream(u, r, no, open, text \union {e.body}, streaming)
    <3>1. ~Ender(e, r) /\ Opens(e, r)
      BY <2>5 DEF IsDelta, Ender, Ends, Opens
    <3>2. ASSUME NEW d \in text PROVE d = e.body
      <4>1. CASE d # e.body
        <5>1. EnderIn(q, r, 1, 1)
          BY <1>1, <1>6, <1>7, <2>5, <4>1 DEF PageStream
        <5> QED
          BY <1>1, <3>1, <5>1 DEF EnderIn
      <4> QED
        BY <4>1
    <3>3. ASSUME NEW i \in 1..Len(u), IsDelta(u[i], r), u[i].body # e.body PROVE EnderIn(u, r, 1, i)
      <4>1. i + 1 \in 1..Len(q) /\ u[i] = q[i + 1] /\ 1 < i + 1 /\ (i + 1) - 1 = i
        BY <1>1
      <4>2. EnderIn(q, r, 1, i + 1)
        BY <1>1, <1>6, <2>5, <3>3, <4>1 DEF RoomStream, Apart
      <4> QED
        BY <1>4, <3>1, <4>1, <4>2
    <3>4. ASSUME e.body # <<r, no>> PROVE EnderIn(u, r, 1, Len(u))
      <4>1. EnderIn(q, r, 1, Len(q))
        BY <1>1, <1>6, <2>5, <3>4 DEF RoomStream, OfRun
      <4> QED
        BY <1>4, <1>6, <3>1, <4>1
    <3>5. ASSUME ~open PROVE EnderIn(u, r, 1, Len(u))
      <4>1. EnderIn(q, r, 1, Len(q))
        BY <1>1, <1>6, <3>1, <3>5 DEF RoomStream, Closed
      <4> QED
        BY <1>4, <1>6, <3>1, <4>1
    <3>6. \A d \in text \union {e.body} : d = e.body
      BY <3>2
    <3> QED
      BY <2>5, <3>3, <3>4, <3>5, <3>6 DEF PageStream
  <2> QED
    BY <2>1, <2>2, <2>3, <2>4, <2>5 DEF PageStream
<1>8. ASSUME Opens(e, r) PROVE PageStream(u, r, no, open, {}, TRUE)
  <2>1. ~Ender(e, r)
    BY <1>8 DEF Opens, Ender, Ends
  <2>2. ASSUME ~open PROVE EnderIn(u, r, 1, Len(u))
    <3>1. EnderIn(q, r, 1, Len(q))
      BY <1>1, <1>6, <1>8, <2>2 DEF RoomStream, Closed
    <3> QED
      BY <1>4, <1>6, <2>1, <3>1
  <2> QED
    BY <2>2 DEF PageStream
<1> QED
  BY <1>5, <1>7, <1>8 DEF u, e

(* A new run, once what the last one said is closed; a room of which       *)
(* nothing is on its way; a page without a text.                           *)
LEMMA StreamFresh ==
    ASSUME NEW q, NEW r, NEW no
    PROVE  /\ RoomStream(q, r, no, FALSE) => \A new : RoomStream(q, r, new, FALSE)
           /\ \A open \in BOOLEAN : RoomStream(q, r, no, open) => RoomStream(q, r, no, TRUE)
           /\ \A text, streaming : PageStream(q, r, no, FALSE, text, streaming) =>
                 \A new : PageStream(q, r, new, FALSE, text, streaming)
           /\ \A open \in BOOLEAN : \A text, streaming :
                 PageStream(q, r, no, open, text, streaming) => PageStream(q, r, no, TRUE, text, streaming)
           /\ (\A i \in 1..Len(q) : q[i].room # r) => \A open : RoomStream(q, r, no, open)
           /\ \A open : PageStream(q, r, no, open, {}, FALSE)
<1>1. RoomStream(q, r, no, FALSE) => \A new : RoomStream(q, r, new, FALSE)
  BY DEF RoomStream, OfRun, Closed, IsDelta, Opens
<1>2. \A open \in BOOLEAN : RoomStream(q, r, no, open) => RoomStream(q, r, no, TRUE)
  BY DEF RoomStream
<1>3. ASSUME NEW text, NEW streaming, PageStream(q, r, no, FALSE, text, streaming), NEW new
      PROVE  PageStream(q, r, new, FALSE, text, streaming)
  BY <1>3 DEF PageStream
<1>4. \A open \in BOOLEAN : \A text, streaming :
         PageStream(q, r, no, open, text, streaming) => PageStream(q, r, no, TRUE, text, streaming)
  BY DEF PageStream
<1>5. (\A i \in 1..Len(q) : q[i].room # r) => \A open : RoomStream(q, r, no, open)
  BY DEF RoomStream, Apart, OfRun, Closed, IsDelta, Opens
<1>6. \A open : PageStream(q, r, no, open, {}, FALSE)
  BY DEF PageStream
<1> QED
  BY <1>1, <1>2, <1>3, <1>4, <1>5, <1>6

LEMMA PairMade ==
    ASSUME NEW e, NEW f
    PROVE  <<>> \o <<e>> = <<e>> /\ <<f>> \o <<e>> = <<f, e>>
<1>1. <<e>> \in Seq({e, f}) /\ <<f>> \in Seq({e, f})
  OBVIOUS
<1>2. <<>> \o <<e>> = <<e>>
  BY <1>1, ConcatEmptySeq
<1>3. <<f>> \o <<e>> = Append(<<f>>, e)
  BY <1>1, AppendIsConcat
<1>4. Append(<<f>>, e) = <<f, e>>
  <2>1. /\ Append(<<f>>, e) \in Seq({e, f}) /\ Len(Append(<<f>>, e)) = 2
        /\ Append(<<f>>, e)[1] = f /\ Append(<<f>>, e)[2] = e
    BY <1>1, AppendProperties
  <2>2. <<f, e>> \in Seq({e, f}) /\ Len(<<f, e>>) = 2 /\ <<f, e>>[1] = f /\ <<f, e>>[2] = e
    OBVIOUS
  <2>3. \A i \in 1..Len(Append(<<f>>, e)) : Append(<<f>>, e)[i] = <<f, e>>[i]
    BY <2>1, <2>2
  <2>4. Len(Append(<<f>>, e)) = Len(<<f, e>>)
    BY <2>1, <2>2
  <2> QED
    BY <2>1, <2>2, <2>3, <2>4, SeqEqual, Zenon
<1> QED
  BY <1>2, <1>3, <1>4

LEMMA QuietNews ==
    ASSUME NEW q, NEW r
    PROVE  /\ Quietly(<<>>, r) /\ Quietly(<<Error(q)>>, r) /\ Quietly(Replies(q), r)
           /\ \A c : Quietly(RequiredNews(q, c), r)
           /\ Quietly(<<News("assistant_message_cancelled", q, None)>>, r)
           /\ Quietly(CompleteNews(q), r) /\ Quietly(CancelNews(q), r) /\ Quietly(FailNews(q), r)
           /\ Quietly(AskNews(q), r) /\ Quietly(SendNews(q), r) /\ Quietly(CloseNews(q), r)
           /\ q # r => Quietly(StartNews(q), r) /\ Quietly(DeltaNews(q), r)
           /\ \A news : Quietly(news, r) => Quietly(Heard(q, news), r)
           /\ \A i \in 1..Len(StartNews(q)) : ~IsDelta(StartNews(q)[i], r)
           /\ \A i \in 1..Len(DeltaNews(q)) : IsDelta(DeltaNews(q)[i], r) => DeltaNews(q)[i].body = <<r, run[q].no>>
<1>1. \A type, body : ~Opens(News(type, q, body), r) \/ (q = r /\ type \in {"assistant_message_started", "assistant_message_delta"})
  BY DEF News, Opens
<1>2. Quietly(<<>>, r)
  BY DEF Quietly
<1>3. \A e : ~Opens(e, r) => Quietly(<<e>>, r)
  BY DEF Quietly
<1>4. \A e, f : ~Opens(e, r) /\ ~Opens(f, r) => Quietly(<<e, f>>, r)
  BY DEF Quietly
<1>5. Quietly(<<Error(q)>>, r) /\ Quietly(Replies(q), r)
  BY <1>1, <1>2, <1>3 DEF Error, Replies
<1>6. \A c : Quietly(RequiredNews(q, c), r)
  BY <1>1, <1>3 DEF RequiredNews
<1>7. Quietly(<<News("assistant_message_cancelled", q, None)>>, r) /\ Quietly(SendNews(q), r)
  BY <1>1, <1>3 DEF SendNews
<1>8. \A status : ~Opens(Updated(q, status), r)
  BY <1>1 DEF Updated
<1>9. \A status, updated : \A type \in {"assistant_message_completed", "assistant_message_failed",
         "assistant_message_cancelled"} : Quietly(LastNews(q, type, status, updated), r)
  <2> SUFFICES ASSUME NEW status, NEW updated, NEW type \in {"assistant_message_completed",
                      "assistant_message_failed", "assistant_message_cancelled"}
               PROVE  Quietly(LastNews(q, type, status, updated), r)
    OBVIOUS
  <2>1. ~Opens(News(type, q, Said(q, status)), r)
    BY <1>1
  <2> QED
    BY <1>3, <1>4, <1>8, <2>1 DEF LastNews
<1>10. Quietly(AskNews(q), r)
  BY <1>1, <1>4 DEF AskNews
<1>11. Quietly(CloseNews(q), r)
  BY <1>3, <1>8 DEF CloseNews
<1>12. \A news : Quietly(news, r) => Quietly(Heard(q, news), r)
  BY <1>2 DEF Heard
<1>13. q # r => Quietly(StartNews(q), r) /\ Quietly(DeltaNews(q), r)
  <2> DEFINE e == News("assistant_message_started", q, None)
             f == News("assistant_approval_resolved", q, run[q].card)
  <2>0. StartNews(q) = <<>> \o <<e>> \/ StartNews(q) = <<f>> \o <<e>>
    BY DEF StartNews
  <2> HIDE DEF e, f
  <2>1. <<>> \o <<e>> = <<e>> /\ <<f>> \o <<e>> = <<f, e>>
    BY PairMade
  <2>2. StartNews(q) = <<e>> \/ StartNews(q) = <<f, e>>
    BY <2>0, <2>1
  <2>3. q # r => ~Opens(e, r) /\ ~Opens(f, r)
    BY <1>1 DEF e, f
  <2> QED
    BY <1>1, <1>3, <1>4, <2>2, <2>3 DEF DeltaNews
<1>14. \A i \in 1..Len(StartNews(q)) : ~IsDelta(StartNews(q)[i], r)
  <2> DEFINE e == News("assistant_message_started", q, None)
             f == News("assistant_approval_resolved", q, run[q].card)
  <2>0. StartNews(q) = <<>> \o <<e>> \/ StartNews(q) = <<f>> \o <<e>>
    BY DEF StartNews
  <2>2. ~IsDelta(e, r) /\ ~IsDelta(f, r)
    BY DEF News, IsDelta
  <2> HIDE DEF e, f
  <2>1. <<>> \o <<e>> = <<e>> /\ <<f>> \o <<e>> = <<f, e>>
    BY PairMade
  <2>3. StartNews(q) = <<e>> \/ StartNews(q) = <<f, e>>
    BY <2>0, <2>1
  <2> QED
    BY <2>2, <2>3
<1>15. \A i \in 1..Len(DeltaNews(q)) : IsDelta(DeltaNews(q)[i], r) => DeltaNews(q)[i].body = <<r, run[q].no>>
  <2> DEFINE e == News("assistant_message_delta", q, <<q, run[q].no>>)
  <2>1. DeltaNews(q) = <<e>>
    BY DEF DeltaNews
  <2>2. IsDelta(e, r) => e.body = <<r, run[q].no>>
    BY DEF News, IsDelta
  <2> HIDE DEF e
  <2> QED
    BY <2>1, <2>2
<1> QED
  BY <1>2, <1>5, <1>6, <1>7, <1>9, <1>10, <1>11, <1>12, <1>13, <1>14, <1>15
     DEF CompleteNews, CancelNews, FailNews

LEMMA ClosingNews ==
    ASSUME NEW q, NEW r
    PROVE  /\ Closes(<<Error(q)>>, r)
           /\ \A c : Closes(RequiredNews(r, c), r)
           /\ Closes(CompleteNews(r), r) /\ Closes(CancelNews(r), r) /\ Closes(FailNews(r), r)
           /\ Closes(AskNews(r), r)
<1>1. \A body : \A type \in {"assistant_message_completed", "assistant_message_failed",
         "assistant_message_cancelled", "assistant_approval_required"} : Ender(News(type, r, body), r)
  BY DEF News, Ender, Ends
<1>2. \A e : Ender(e, r) => Closes(<<e>>, r)
  BY DEF Closes
<1>3. \A e, f : Ender(f, r) => Closes(<<e, f>>, r)
  <2> SUFFICES ASSUME NEW e, NEW f, Ender(f, r) PROVE Closes(<<e, f>>, r)
    OBVIOUS
  <2>1. 2 \in 1..Len(<<e, f>>) /\ <<e, f>>[2] = f
    OBVIOUS
  <2> QED
    BY <2>1 DEF Closes
<1>4. Ender(Error(q), r)
  BY DEF Error, News, Ender
<1>5. \A status, updated : \A type \in {"assistant_message_completed", "assistant_message_failed",
         "assistant_message_cancelled"} : Closes(LastNews(r, type, status, updated), r)
  BY <1>1, <1>2, <1>3 DEF LastNews
<1> QED
  BY <1>1, <1>2, <1>3, <1>4, <1>5 DEF RequiredNews, CompleteNews, CancelNews, FailNews, AskNews

LEMMA ConcatQuiet ==
    ASSUME NEW s \in Seq(AnyEvent), NEW t \in Seq(AnyEvent), NEW r
    PROVE  /\ Quietly(s, r) /\ Quietly(t, r) => Quietly(s \o t, r)
           /\ Closes(t, r) => Closes(s \o t, r)
<1>1. Quietly(s, r) /\ Quietly(t, r) => Quietly(s \o t, r)
  BY ConcatAt DEF Quietly
<1>2. ASSUME NEW j \in 1..Len(t), Ender(t[j], r) PROVE Closes(s \o t, r)
  <2>1. Len(s) + j \in 1..Len(s \o t) /\ (s \o t)[Len(s) + j] = t[j]
    BY ConcatAt
  <2> QED
    BY <1>2, <2>1 DEF Closes
<1> QED
  BY <1>1, <1>2 DEF Closes

(* Which steps change the run of a room.                                   *)
LEMMA RunSteps ==
    ASSUME Typed, [Next]_vars, ~Disconnect, NEW r \in Rooms
    PROVE  \/ run'[r] = run[r]
           \/ Room = r /\ (ReceiveSend \/ ReceiveRetry \/ ReceiveResponse \/ ReceiveStop)
           \/ Start(r) \/ Delta(r) \/ Finish(r)
<1>0. run \in [Rooms -> AnyRun]
  BY DEF Typed, RunType
<1>1. CASE User
  BY <1>1 DEF User, EnterRoom, DeleteRoom, SendMessage, RetryMessage, RespondToApproval,
          StopGeneration, LoadOlder, server
<1>2. CASE Answers
  BY <1>2 DEF Answers, ServeMessages, ApplyFirst, ApplyOlder, ServeDeletion, ApplyDeletion, server
<1>3. CASE HandleEvent \/ Connect
  BY <1>3 DEF HandleEvent, HandleMessageCreated, HandleMessageUpdated, HandleStarted, HandleDelta,
       HandleEnd, HandleApprovalRequired, HandleApprovalResolved, HandleChatError, Incoming, Connect, server
<1>4. CASE Receive
  <2>1. Room # r => run'[r] = run[r] \/ ~(ReceiveSend \/ ReceiveRetry \/ ReceiveResponse \/ ReceiveStop)
    BY <1>0 DEF ReceiveSend, ReceiveRetry, ReceiveResponse, ReceiveStop, Accepted
  <2> QED
    BY <1>4, <2>1 DEF Receive, JoinBegins, LeaveRoom, Refuse
<1>5. ASSUME NEW q \in Rooms, JoinEnds(q) \/ Start(q) \/ Delta(q) \/ Finish(q)
      PROVE  run'[r] = run[r] \/ Start(r) \/ Delta(r) \/ Finish(r)
  <2>1. CASE JoinEnds(q)
    BY <2>1 DEF JoinEnds
  <2>2. CASE q # r
    BY <1>0, <1>5, <2>1, <2>2 DEF Start, Delta, Finish, Complete, Cancel, FailSend, FailRetry,
       FailApproval, Unclear, AskApproval, Close, Vanish, Over
  <2> QED
    BY <1>5, <2>1, <2>2
<1>6. CASE UNCHANGED vars
  BY <1>6 DEF vars, server
<1> QED
  BY <1>1, <1>2, <1>3, <1>4, <1>5, <1>6 DEF Next, Gateway

LEMMA MineNext ==
    ASSUME Typed, Mine, [Next]_vars, ~Disconnect
    PROVE  Mine'
<1> SUFFICES ASSUME NEW r \in Rooms, run'[r].phase # "idle" PROVE run'[r].mine
  BY DEF Mine, Busy
<1>0. run \in [Rooms -> AnyRun] /\ run[r] \in AnyRun
  BY DEF Typed, RunType
<1>1. CASE run'[r] = run[r]
  BY <1>1 DEF Mine, Busy
<1>2. CASE Room = r /\ (ReceiveSend \/ ReceiveRetry \/ ReceiveResponse \/ ReceiveStop)
  BY <1>0, <1>2 DEF ReceiveSend, ReceiveRetry, ReceiveResponse, ReceiveStop, Accepted, AnyRun, Mine, Busy
<1>3. CASE Start(r) \/ Delta(r)
  <2>1. run[r].phase # "idle" /\ run'[r].mine = run[r].mine
    BY <1>0, <1>3 DEF Start, Delta, InRoom, Runs, AnyRun
  <2> QED
    BY <2>1 DEF Mine, Busy
<1>4. CASE Finish(r)
  <2>1. Over(r) => run'[r].phase = "idle"
    BY <1>0 DEF Over, Idle
  <2>2. ~Over(r)
    BY <2>1
  <2> QED
    BY <1>0, <1>4, <2>2 DEF Finish, Complete, Cancel, FailSend, FailRetry,
       FailApproval, Unclear, AskApproval, Close, Vanish, InRoom, Runs, AnyRun, Mine, Busy
<1> QED
  BY <1>1, <1>2, <1>3, <1>4, RunSteps

(* What is said while nothing starts or streams in the room opens nothing. *)
LEMMA QuietSteps ==
    ASSUME Typed, [Next]_vars, ~Disconnect, ~HandleEvent, NEW r \in Rooms, ~Start(r), ~Delta(r)
    PROVE  \E t \in Seq(AnyEvent) : down' = down \o t /\ Quietly(t, r)
<1>0. down \in Seq(AnyEvent) /\ EventsOf(db', <<>>)
  BY EventSequences DEF Typed, DownType
<1>1. ASSUME UNCHANGED down PROVE \E t \in Seq(AnyEvent) : down' = down \o t /\ Quietly(t, r)
  <2>1. down \o <<>> = down /\ <<>> \in Seq(AnyEvent)
    BY <1>0, ConcatEmptySeq
  <2> QED
    BY <1>1, <2>1, QuietNews
<1>2. ASSUME NEW q \in Rooms, NEW news, EventsOf(db', news), Quietly(news, r)
      PROVE  /\ down' = down \o Heard(q, news) =>
                   \E t \in Seq(AnyEvent) : down' = down \o t /\ Quietly(t, r)
             /\ down' = down \o (Heard(q, news) \o Replies(q)) =>
                   \E t \in Seq(AnyEvent) : down' = down \o t /\ Quietly(t, r)
  <2>1. /\ Heard(q, news) \in Seq(AnyEvent) /\ Replies(q) \in Seq(AnyEvent)
        /\ Heard(q, news) \o Replies(q) \in Seq(AnyEvent)
    BY <1>2, HeardOf DEF EventsOf
  <2>2. Quietly(Heard(q, news), r) /\ Quietly(Replies(q), r)
    BY <1>2, QuietNews
  <2> QED
    BY <2>1, <2>2, ConcatQuiet
<1>3. ASSUME NEW q \in Rooms, NEW news, Quietly(news, r), Says(q, news) \/ SaysError(q, news)
      PROVE  \E t \in Seq(AnyEvent) : down' = down \o t /\ Quietly(t, r)
  BY <1>2, <1>3 DEF Says, SaysError
<1>4. ASSUME NEW q \in Rooms, SaysBack(q)
      PROVE  \E t \in Seq(AnyEvent) : down' = down \o t /\ Quietly(t, r)
  <2>1. <<Error(q)>> \in Seq(AnyEvent)
    BY NewsMade, EventSequences DEF EventsOf
  <2> QED
    BY <1>4, <2>1, QuietNews DEF SaysBack
<1>5. CASE User
  BY <1>1, <1>5 DEF User, EnterRoom, DeleteRoom, SendMessage, RetryMessage, RespondToApproval,
          StopGeneration, LoadOlder
<1>6. CASE Answers
  BY <1>1, <1>6 DEF Answers, ServeMessages, ApplyFirst, ApplyOlder, ServeDeletion, ApplyDeletion
<1>7. CASE Connect
  BY <1>1, <1>7 DEF Connect
<1>8. CASE Receive
  <2>1. Room \in Rooms
    BY <1>8, ReceivedRoom
  <2>2. CASE JoinBegins \/ LeaveRoom \/ ReceiveRetry \/ ReceiveResponse
    BY <1>1, <2>2 DEF JoinBegins, LeaveRoom, ReceiveRetry, ReceiveResponse
  <2>3. CASE ReceiveSend
    BY <1>3, <2>1, <2>3, TalksBack, QuietNews
  <2>4. CASE ReceiveStop
    BY <1>3, <2>1, <2>4, TalksBack, QuietNews
  <2>5. ASSUME NEW op, NEW refused, Refuse(op, refused)
        PROVE  \E t \in Seq(AnyEvent) : down' = down \o t /\ Quietly(t, r)
    BY <1>4, <2>1, <2>5, TalksBack
  <2> QED
    BY <1>8, <2>2, <2>3, <2>4, <2>5 DEF Receive
<1>9. ASSUME NEW q \in Rooms, JoinEnds(q)
      PROVE  \E t \in Seq(AnyEvent) : down' = down \o t /\ Quietly(t, r)
  <2>1. CASE down' = down \o RequiredNews(q, cards[q]) /\ EventsOf(db', RequiredNews(q, cards[q]))
    BY <2>1, QuietNews DEF EventsOf
  <2> QED
    BY <1>1, <1>4, <1>9, <2>1, Talks
<1>10. ASSUME NEW q \in Rooms, Start(q) \/ Delta(q)
       PROVE  \E t \in Seq(AnyEvent) : down' = down \o t /\ Quietly(t, r)
  <2>1. Quietly(StartNews(q), r) /\ Quietly(DeltaNews(q), r)
    BY <1>10, QuietNews
  <2> QED
    BY <1>3, <1>10, <2>1, Talks
<1>11. ASSUME NEW q \in Rooms, Finish(q)
       PROVE  \E t \in Seq(AnyEvent) : down' = down \o t /\ Quietly(t, r)
  <2>1. /\ Quietly(<<>>, r) /\ Quietly(RequiredNews(q, run[q].card), r)
        /\ Quietly(CompleteNews(q), r) /\ Quietly(CancelNews(q), r) /\ Quietly(FailNews(q), r)
        /\ Quietly(AskNews(q), r) /\ Quietly(CloseNews(q), r)
    BY QuietNews
  <2>2. CASE Complete(q) \/ Cancel(q) \/ FailSend(q) \/ AskApproval(q)
    BY <1>3, <2>1, <2>2, Talks
  <2>3. CASE FailRetry(q) \/ Unclear(q) \/ FailApproval(q)
    BY <1>3, <2>1, <2>3, Talks
  <2>4. CASE Close(q) \/ Vanish(q)
    BY <1>1, <1>3, <2>1, <2>4, Talks
  <2> QED
    BY <1>11, <2>2, <2>3, <2>4 DEF Finish
<1>12. CASE UNCHANGED vars
  BY <1>1, <1>12 DEF vars
<1> QED
  BY <1>5, <1>6, <1>7, <1>8, <1>9, <1>10, <1>11, <1>12 DEF Next, Gateway

(* What a step says of a room whose last event was not missed: deltas of   *)
(* the run that is on, nothing of it once it is over, and an end in time.  *)
OpenNext(r)  == r \in gone' \/ run'[r].phase = "streaming"
Speaks(t, r) ==
    /\ \A j \in 1..Len(t) : IsDelta(t[j], r) => t[j].body = <<r, run'[r].no>>
    /\ run'[r].no = run[r].no \/ (~Open(r) /\ ~OpenNext(r))
    /\ OpenNext(r) \/ (Quietly(t, r) /\ (~Open(r) \/ Closes(t, r)))

LEMMA GoneGrows ==
    ASSUME Typed, [Next]_vars
    PROVE  gone \subseteq gone'
<1>1. CASE User
  BY <1>1 DEF User, EnterRoom, DeleteRoom, SendMessage, RetryMessage, RespondToApproval,
          StopGeneration, LoadOlder, server
<1>2. CASE Answers
  BY <1>2 DEF Answers, ServeMessages, ApplyFirst, ApplyOlder, ServeDeletion, ApplyDeletion, server
<1>3. CASE HandleEvent \/ Connect \/ Disconnect
  BY <1>3 DEF HandleEvent, HandleMessageCreated, HandleMessageUpdated, HandleStarted, HandleDelta,
       HandleEnd, HandleApprovalRequired, HandleApprovalResolved, HandleChatError, Incoming, Connect,
       Disconnect, server
<1>4. CASE Receive
  BY <1>4 DEF Receive, JoinBegins, LeaveRoom, ReceiveSend, ReceiveRetry, ReceiveResponse, ReceiveStop,
       Refuse, Arrived
<1>5. ASSUME NEW r \in Rooms, JoinEnds(r) \/ Start(r) \/ Delta(r) \/ Finish(r) PROVE gone' = gone
  BY <1>5 DEF JoinEnds, Start, Delta, Finish, Complete, Cancel, FailSend, FailRetry, FailApproval,
       Unclear, AskApproval, Close, Vanish, InRoom, Runs
<1>6. CASE UNCHANGED vars
  BY <1>6 DEF vars, server
<1> QED
  BY <1>1, <1>2, <1>3, <1>4, <1>5, <1>6 DEF Next, Gateway

(* The end of a run, as its room hears it.                                 *)
LEMMA StreamEnds ==
    ASSUME Typed, Mine, [Next]_vars, NEW r \in Rooms, r \notin missed', Finish(r)
    PROVE  /\ run'[r].no = run[r].no /\ run'[r].phase # "streaming"
           /\ Open(r) \/ run[r].phase # "closing" =>
                 \/ r \in gone'
                 \/ \E t \in Seq(AnyEvent) : down' = down \o t /\ Quietly(t, r) /\ Closes(t, r)
<1>0. run \in [Rooms -> AnyRun] /\ run[r] \in AnyRun
  BY DEF Typed, RunType
<1>1. run'[r].no = run[r].no /\ run'[r].phase # "streaming"
  <2>1. Over(r) => run'[r].no = run[r].no /\ run'[r].phase = "idle"
    BY <1>0 DEF Over, Idle, AnyRun
  <2>2. AskApproval(r) => run'[r].no = run[r].no /\ run'[r].phase = "closing"
    BY <1>0 DEF AskApproval, AnyRun
  <2> QED
    BY <2>1, <2>2 DEF Finish, Complete, Cancel, FailSend, FailRetry, FailApproval, Unclear, Close, Vanish
<1>2. ASSUME NEW news, Quietly(news, r), Closes(news, r), r \in joined, Says(r, news)
      PROVE  \E t \in Seq(AnyEvent) : down' = down \o t /\ Quietly(t, r) /\ Closes(t, r)
  BY <1>2 DEF Says, EventsOf, Heard
<1>3. ASSUME NEW news, Quietly(news, r), SaysError(r, news)
      PROVE  \E t \in Seq(AnyEvent) : down' = down \o t /\ Quietly(t, r) /\ Closes(t, r)
  <2>1. run[r].mine
    BY DEF Mine, Busy, Finish, Complete, Cancel, FailSend, FailRetry, FailApproval, Unclear,
           AskApproval, Close, Vanish, InRoom, Runs
  <2>2. Closes(Replies(r), r)
    BY <2>1, ClosingNews DEF Replies
  <2>3. /\ Heard(r, news) \in Seq(AnyEvent) /\ Replies(r) \in Seq(AnyEvent)
        /\ Heard(r, news) \o Replies(r) \in Seq(AnyEvent)
    BY <1>3, HeardOf DEF SaysError, EventsOf
  <2>4. Quietly(Heard(r, news), r) /\ Quietly(Replies(r), r)
    BY <1>3, QuietNews
  <2> QED
    BY <1>3, <2>2, <2>3, <2>4, ConcatQuiet DEF SaysError
<1>4. Ended(r) => r \in joined
  BY DEF Ended
<1>5. CASE Complete(r) \/ Cancel(r) \/ FailSend(r) \/ AskApproval(r)
  <2>1. r \in joined
    BY <1>4, <1>5 DEF Complete, Cancel, FailSend, AskApproval
  <2>2. /\ Quietly(CompleteNews(r), r) /\ Quietly(CancelNews(r), r) /\ Quietly(FailNews(r), r)
        /\ Quietly(AskNews(r), r)
    BY QuietNews
  <2>3. /\ Closes(CompleteNews(r), r) /\ Closes(CancelNews(r), r) /\ Closes(FailNews(r), r)
        /\ Closes(AskNews(r), r)
    BY ClosingNews
  <2> QED
    BY <1>1, <1>2, <1>5, <2>1, <2>2, <2>3, Talks
<1>6. CASE FailRetry(r) \/ Unclear(r) \/ FailApproval(r)
  <2>1. Quietly(<<>>, r) /\ Quietly(RequiredNews(r, run[r].card), r)
    BY QuietNews
  <2> QED
    BY <1>1, <1>3, <1>6, <2>1, Talks
<1>7. CASE Close(r)
  <2>1. ~Open(r) /\ run[r].phase = "closing"
    BY <1>7 DEF Close, InRoom, Runs, Open
  <2> QED
    BY <1>1, <2>1
<1>8. CASE Vanish(r)
  BY <1>1, <1>8 DEF Vanish
<1> QED
  BY <1>5, <1>6, <1>7, <1>8 DEF Finish

LEMMA StreamSteps ==
    ASSUME Typed, Mine, [Next]_vars, ~Disconnect, ~HandleEvent, NEW r \in Rooms, r \notin missed'
    PROVE  \E t \in Seq(AnyEvent) : down' = down \o t /\ Speaks(t, r)
<1>0. run \in [Rooms -> AnyRun] /\ run[r] \in AnyRun /\ gone \subseteq gone'
  BY GoneGrows DEF Typed, RunType
<1>1. ASSUME NEW t, Quietly(t, r) PROVE \A j \in 1..Len(t) : ~IsDelta(t[j], r)
  BY <1>1 DEF Quietly, IsDelta, Opens
<1>2. ASSUME NEW news \in Seq(AnyEvent), down' = down \o Heard(r, news),
             \A j \in 1..Len(news) : IsDelta(news[j], r) => news[j].body = <<r, run[r].no>>,
             run'[r].no = run[r].no, run'[r].phase = "streaming"
      PROVE  \E t \in Seq(AnyEvent) : down' = down \o t /\ Speaks(t, r)
  <2>1. Heard(r, news) \in Seq(AnyEvent)
    BY DEF Heard
  <2>2. \A j \in 1..Len(Heard(r, news)) :
           IsDelta(Heard(r, news)[j], r) => Heard(r, news)[j].body = <<r, run[r].no>>
    BY <1>2 DEF Heard
  <2> QED
    BY <1>2, <2>1, <2>2 DEF Speaks, OpenNext
<1>3. CASE Start(r)
  <2>1. run'[r].no = run[r].no /\ run'[r].phase = "streaming"
    BY <1>0, <1>3 DEF Start, AnyRun
  <2> QED
    BY <1>2, <1>3, <2>1, Talks, QuietNews DEF Says, EventsOf
<1>4. CASE Delta(r)
  <2>1. run'[r].no = run[r].no /\ run'[r].phase = "streaming"
    BY <1>0, <1>4 DEF Delta, Runs, AnyRun
  <2>2. DeltaNews(r) \in Seq(AnyEvent) /\ down' = down \o Heard(r, DeltaNews(r))
    BY <1>4, Talks DEF Says, EventsOf
  <2>3. \A j \in 1..Len(DeltaNews(r)) :
           IsDelta(DeltaNews(r)[j], r) => DeltaNews(r)[j].body = <<r, run[r].no>>
    BY QuietNews
  <2> QED
    BY <1>2, <2>1, <2>2, <2>3
<1>5. CASE Finish(r)
  <2>1. (~Start(r) /\ ~Delta(r)) \/ (Start(r) \/ Delta(r))
    OBVIOUS
  <2>2. CASE ~Start(r) /\ ~Delta(r)
    <3>1. PICK t \in Seq(AnyEvent) : down' = down \o t /\ Quietly(t, r)
      BY <2>2, QuietSteps
    <3>2. CASE Open(r) /\ r \notin gone'
      <4>1. PICK u \in Seq(AnyEvent) : down' = down \o u /\ Quietly(u, r) /\ Closes(u, r)
        BY <1>5, <3>2, StreamEnds
      <4>2. run'[r].no = run[r].no
        BY <1>5, StreamEnds
      <4> QED
        BY <1>1, <4>1, <4>2 DEF Speaks
    <3>3. CASE ~Open(r) \/ r \in gone'
      <4>1. run'[r].no = run[r].no
        BY <1>5, StreamEnds
      <4> QED
        BY <1>1, <3>1, <3>3, <4>1 DEF Speaks, OpenNext
    <3> QED
      BY <3>2, <3>3
  <2> QED
    BY <1>3, <1>4, <2>1, <2>2
<1>6. ASSUME ~Start(r), ~Delta(r), run'[r].no = run[r].no \/ (~Open(r) /\ ~OpenNext(r)),
             Open(r) => OpenNext(r)
      PROVE  \E t \in Seq(AnyEvent) : down' = down \o t /\ Speaks(t, r)
  <2>1. PICK t \in Seq(AnyEvent) : down' = down \o t /\ Quietly(t, r)
    BY <1>6, QuietSteps
  <2> QED
    BY <1>1, <1>6, <2>1 DEF Speaks
<1>7. CASE run'[r] = run[r]
  <2>1. Open(r) => OpenNext(r)
    BY <1>0, <1>7 DEF Open, OpenNext
  <2> QED
    BY <1>3, <1>4, <1>6, <1>7, <2>1
<1>8. CASE Room = r /\ (ReceiveSend \/ ReceiveRetry \/ ReceiveResponse \/ ReceiveStop)
  <2>1. CASE ReceiveStop
    <3>1. run'[r].no = run[r].no /\ run'[r].phase = run[r].phase
      BY <1>0, <1>8, <2>1 DEF ReceiveStop, AnyRun
    <3>2. Open(r) => OpenNext(r)
      BY <1>0, <3>1 DEF Open, OpenNext
    <3> QED
      BY <1>3, <1>4, <1>6, <3>1, <3>2
  <2>2. CASE ReceiveSend \/ ReceiveRetry \/ ReceiveResponse
    <3>1. ~Busy(r) /\ r \notin gone /\ gone' = gone
      BY <1>8, <2>2 DEF ReceiveSend, ReceiveRetry, ReceiveResponse, Arrived
    <3>2. run'[r].phase = "accepted"
      BY <1>0, <1>8, <2>2 DEF ReceiveSend, ReceiveRetry, ReceiveResponse, Accepted
    <3>3. ~Open(r) /\ ~OpenNext(r)
      BY <3>1, <3>2 DEF Open, OpenNext, Busy
    <3> QED
      BY <1>3, <1>4, <1>6, <3>3
  <2> QED
    BY <1>8, <2>1, <2>2
<1> QED
  BY <1>3, <1>4, <1>5, <1>7, <1>8, RunSteps

(* What an event changes of the page's flags and of its text.              *)
LEMMA AppendedFlags ==
    ASSUME NEW p \in AnyPage, NEW m
    PROVE  /\ Appended(p, m).text = p.text /\ Appended(p, m).streaming = p.streaming
           /\ Appended(p, m).sending = p.sending /\ Appended(p, m).room = p.room
           /\ Appended(p, m).loading = p.loading /\ Appended(p, m).older = p.older
           /\ Appended(p, m).request = p.request /\ Appended(p, m).card = p.card
           /\ Appended(p, m).cursor = p.cursor
<1> DEFINE x == [p EXCEPT !.shown = Append(@, m)]
<1>1. /\ x.text = p.text /\ x.streaming = p.streaming /\ x.sending = p.sending /\ x.room = p.room
      /\ x.loading = p.loading /\ x.older = p.older /\ x.request = p.request /\ x.card = p.card
      /\ x.cursor = p.cursor
  BY DEF AnyPage
<1>2. Appended(p, m) = p \/ Appended(p, m) = x
  BY DEF Appended
<1> HIDE DEF x
<1> QED
  BY <1>1, <1>2

LEMMA QuietedFlags ==
    ASSUME NEW p \in AnyPage
    PROVE  /\ Quieted(p).text = {} /\ ~Quieted(p).streaming /\ ~Quieted(p).sending
           /\ Quieted(p).room = p.room /\ Quieted(p).loading = p.loading
           /\ Quieted(p).older = p.older /\ Quieted(p).request = p.request
           /\ Quieted(p).shown = p.shown /\ Quieted(p).cursor = p.cursor /\ Quieted(p).card = p.card
           /\ Quieted(p) \in AnyPage
           /\ \A c \in AnyCard \union {None} :
                 LET q == [Quieted(p) EXCEPT !.card = c] IN
                 /\ q.text = {} /\ ~q.streaming /\ ~q.sending /\ q.room = p.room
                 /\ q.loading = p.loading /\ q.older = p.older /\ q.request = p.request
                 /\ q.shown = p.shown /\ q.cursor = p.cursor /\ q.card = c /\ q \in AnyPage
BY DEF Quieted, AnyPage

EventSame(p, q) == /\ q.room = p.room /\ q.loading = p.loading /\ q.older = p.older
                   /\ q.request = p.request /\ q.cursor = p.cursor
EventText(p, q, e) ==
    /\ EventSame(p, q)
    /\ \/ q.text = {} /\ ~q.streaming
       \/ Opens(e, p.room) /\ q.text = {} /\ q.streaming
       \/ IsDelta(e, p.room) /\ q.text = p.text \union {e.body} /\ q.streaming = p.streaming
       \/ ~Ender(e, p.room) /\ q.text = p.text /\ q.streaming = p.streaming
    /\ q.sending => p.sending /\ ~Ender(e, p.room)

LEMMA EventFlags ==
    ASSUME Typed, HandleEvent
    PROVE  EventText(ui, ui', Event)
<1>0. ui \in AnyPage
  BY DEF Typed, PageOf
<1>1. HandleMessageCreated => EventText(ui, ui', Event)
  BY <1>0, AppendedFlags DEF HandleMessageCreated, Incoming, EventText, EventSame, Ender, Ends, Event
<1>2. HandleMessageUpdated => EventText(ui, ui', Event)
  <2> DEFINE x == [ui EXCEPT !.shown = [i \in DOMAIN ui.shown |->
                      IF ui.shown[i].id = Event.body.id THEN Event.body ELSE ui.shown[i]]]
  <2>1. /\ x.text = ui.text /\ x.streaming = ui.streaming /\ x.sending = ui.sending /\ x.room = ui.room
        /\ x.loading = ui.loading /\ x.older = ui.older /\ x.request = ui.request
        /\ x.cursor = ui.cursor
    BY <1>0 DEF AnyPage
  <2>2. HandleMessageUpdated => ui' = ui \/ ui' = Appended(ui, Event.body) \/ ui' = x
    BY DEF HandleMessageUpdated
  <2>3. HandleMessageUpdated => ~Ender(Event, ui.room)
    BY DEF HandleMessageUpdated, Incoming, Ender, Ends, Event
  <2> HIDE DEF x
  <2> QED
    BY <1>0, <2>1, <2>2, <2>3, AppendedFlags DEF EventText, EventSame
<1>3. HandleStarted => EventText(ui, ui', Event)
  BY <1>0 DEF HandleStarted, Incoming, EventText, EventSame, Opens, Ender, Ends, Event, Here, AnyPage
<1>4. HandleDelta => EventText(ui, ui', Event)
  BY <1>0 DEF HandleDelta, Incoming, EventText, EventSame, IsDelta, Ender, Ends, Event, Here, AnyPage
<1>5. HandleEnd => EventText(ui, ui', Event)
  <2> SUFFICES ASSUME HandleEnd PROVE EventText(ui, ui', Event)
    OBVIOUS
  <2> DEFINE x == [Quieted(ui) EXCEPT !.card = None]
  <2>1. /\ x.text = {} /\ ~x.streaming /\ ~x.sending /\ EventSame(ui, x) /\ x \in AnyPage
    BY <1>0, QuietedFlags DEF EventSame
  <2>2. ui' = IF ~Here THEN ui ELSE IF Event.body = None THEN x ELSE Appended(x, Event.body)
    BY DEF HandleEnd
  <2>3. ~Here => ~Ender(Event, ui.room)
    BY DEF HandleEnd, Incoming, Ender, Ends, Event, Here
  <2> HIDE DEF x
  <2> QED
    BY <2>1, <2>2, <2>3, AppendedFlags DEF EventText, EventSame
<1>6. HandleApprovalRequired => EventText(ui, ui', Event)
  <2> SUFFICES ASSUME HandleApprovalRequired PROVE EventText(ui, ui', Event)
    OBVIOUS
  <2> DEFINE x == [Quieted(ui) EXCEPT !.card = Event.body]
  <2>1. /\ x.text = {} /\ ~x.streaming /\ ~x.sending /\ EventSame(ui, x)
    BY <1>0 DEF EventSame, Quieted, AnyPage
  <2>2. ui' = IF ~Here THEN ui ELSE x
    BY DEF HandleApprovalRequired
  <2>3. ~Here => ~Ender(Event, ui.room)
    BY DEF HandleApprovalRequired, Incoming, Ender, Ends, Event, Here
  <2> HIDE DEF x
  <2> QED
    BY <2>1, <2>2, <2>3 DEF EventText, EventSame
<1>7. HandleApprovalResolved => EventText(ui, ui', Event)
  BY <1>0 DEF HandleApprovalResolved, Incoming, EventText, EventSame, Ender, Ends, Event, Here, AnyPage
<1>8. HandleChatError => EventText(ui, ui', Event)
  BY <1>0, QuietedFlags DEF HandleChatError, EventText, EventSame
<1> QED
  BY <1>1, <1>2, <1>3, <1>4, <1>5, <1>6, <1>7, <1>8 DEF HandleEvent

LEMMA HandleFrame ==
    HandleEvent => /\ down # <<>> /\ down' = Tail(down) /\ connected
                   /\ UNCHANGED <<fetches, deletion, up, connected, server, bounds, dropped, missed>>
BY DEF HandleEvent, HandleMessageCreated, HandleMessageUpdated, HandleStarted, HandleDelta,
       HandleEnd, HandleApprovalRequired, HandleApprovalResolved, HandleChatError, Incoming

(* What the other steps leave of the text.                                 *)
LEMMA TextSteps ==
    ASSUME Typed, [Next]_vars, ~HandleEvent
    PROVE  \/ ui'.room = ui.room /\ ui'.text = ui.text /\ ui'.streaming = ui.streaming
           \/ ui'.text = {} /\ ui'.streaming = FALSE
<1>0. ui \in AnyPage
  BY DEF Typed, PageOf
<1>1. CASE SendMessage \/ RespondToApproval \/ LoadOlder
  BY <1>0, <1>1 DEF SendMessage, RespondToApproval, LoadOlder, AnyPage
<1>2. CASE RetryMessage \/ StopGeneration
  BY <1>0, <1>2 DEF RetryMessage, StopGeneration, AnyPage
<1>3. CASE ApplyDeletion \/ \E r \in Rooms : EnterRoom(r)
  <2>1. \A r, k : Fresh(r, k).text = {} /\ Fresh(r, k).streaming = FALSE
    BY DEF Fresh
  <2>2. ui' = ui \/ \E r, k : ui' = Fresh(r, k)
    BY <1>3 DEF ApplyDeletion, EnterRoom
  <2> QED
    BY <2>1, <2>2
<1>4. ASSUME NEW f \in fetches, ApplyFirst(f) \/ ApplyOlder(f)
      PROVE  ui'.room = ui.room /\ ui'.text = ui.text /\ ui'.streaming = ui.streaming
  BY <1>0, <1>4 DEF ApplyFirst, ApplyOlder, AnyPage
<1> QED
  BY <1>1, <1>2, <1>3, <1>4, UiSteps

LEMMA MissedSteps ==
    ASSUME Typed, [Next]_vars
    PROVE  \/ missed \subseteq missed'
           \/ \E r \in Rooms : EnterRoom(r)
<1>1. CASE User
  BY <1>1 DEF User, EnterRoom, DeleteRoom, SendMessage, RetryMessage, RespondToApproval,
          StopGeneration, LoadOlder, history
<1>2. CASE Answers
  BY <1>2 DEF Answers, ServeMessages, ApplyFirst, ApplyOlder, ServeDeletion, ApplyDeletion, history
<1>3. CASE HandleEvent \/ Connect \/ Disconnect
  BY <1>3, HandleFrame DEF Connect, Disconnect, history
<1>4. CASE Receive
  BY <1>4 DEF Receive, JoinBegins, LeaveRoom, ReceiveSend, ReceiveRetry, ReceiveResponse, ReceiveStop,
       Refuse, history
<1>5. ASSUME NEW r \in Rooms, JoinEnds(r) \/ Start(r) \/ Delta(r) \/ Finish(r)
      PROVE  missed \subseteq missed'
  <2>1. Ended(r) => missed \subseteq missed'
    BY DEF Ended
  <2> QED
    BY <1>5, <2>1 DEF JoinEnds, Start, Delta, Finish, Complete, Cancel, FailSend, FailRetry, FailApproval,
       Unclear, AskApproval, Close, Vanish, history
<1>6. CASE UNCHANGED vars
  BY <1>6 DEF vars, history
<1> QED
  BY <1>1, <1>2, <1>3, <1>4, <1>5, <1>6 DEF Next, Gateway

LEMMA StreamNext ==
    ASSUME Typed, StreamInv, [Next]_vars
    PROVE  StreamInv'
<1> SUFFICES ASSUME ~dropped'
             PROVE  /\ Mine'
                    /\ \A r \in Rooms \ missed' : RoomStream(down', r, run'[r].no, OpenNext(r))
                    /\ ui'.room \in Rooms \ missed' =>
                          PageStream(down', ui'.room, run'[ui'.room].no, OpenNext(ui'.room),
                                     ui'.text, ui'.streaming)
  BY DEF StreamInv, OpenNext, Open
<1>0. /\ ~dropped /\ ~Disconnect /\ down \in Seq(AnyEvent)
      /\ \A r \in Rooms : Open(r) \in BOOLEAN /\ OpenNext(r) \in BOOLEAN
  <2>1. ~dropped /\ ~Disconnect
    <3>1. Disconnect => dropped' = TRUE
      BY DEF Disconnect
    <3>2. ~Disconnect
      BY <3>1
    <3>3. dropped' = dropped
      BY <3>2, DroppedSteps
    <3> QED
      BY <3>2, <3>3
  <2>2. down \in Seq(AnyEvent)
    BY DEF Typed, DownType
  <2>3. \A r \in Rooms : Open(r) \in BOOLEAN /\ OpenNext(r) \in BOOLEAN
    BY DEF Open, OpenNext
  <2> QED
    BY <2>1, <2>2, <2>3
<1>1. Mine /\ Mine'
  BY <1>0, MineNext DEF StreamInv
<1>2. CASE HandleEvent
  <2>1. /\ down # <<>> /\ down' = Tail(down) /\ missed' = missed /\ run' = run
        /\ \A r \in Rooms : OpenNext(r) = Open(r)
    BY <1>2, HandleFrame DEF server, Open, OpenNext
  <2>2. ASSUME NEW r \in Rooms \ missed PROVE RoomStream(down', r, run'[r].no, OpenNext(r))
    BY <1>0, <2>1, StreamTail DEF StreamInv
  <2>3. ASSUME ui'.room \in Rooms \ missed
        PROVE  PageStream(down', ui'.room, run'[ui'.room].no, OpenNext(ui'.room), ui'.text, ui'.streaming)
    <3> DEFINE r == ui.room
               e == Head(down)
               no == run[r].no
    <3>1. EventText(ui, ui', e)
      BY <1>2, EventFlags DEF Event
    <3>2. ui'.room = r /\ r \in Rooms \ missed /\ Open(r) \in BOOLEAN
      BY <1>0, <2>3, <3>1 DEF EventText, EventSame
    <3>3. /\ RoomStream(down, r, no, Open(r))
          /\ PageStream(down, r, no, Open(r), ui.text, ui.streaming)
      BY <1>0, <3>2 DEF StreamInv
    <3>4. /\ \A text, streaming : PageStream(down, r, no, Open(r), text, streaming) =>
                 /\ ~Ender(e, r) => PageStream(Tail(down), r, no, Open(r), text, streaming)
                 /\ IsDelta(e, r) /\ e.body[1] = r =>
                       PageStream(Tail(down), r, no, Open(r), text \union {e.body}, streaming)
          /\ Opens(e, r) => PageStream(Tail(down), r, no, Open(r), {}, TRUE)
      BY <1>0, <2>1, <3>2, <3>3, StreamTail
    <3>5. IsDelta(e, r) => e.body[1] = r
      BY <2>1, EventType DEF EventOf, IsDelta, Event
    <3>6. ui \in AnyPage /\ ui'.streaming \in BOOLEAN
      BY PageNext DEF Typed, PageOf, AnyPage
    <3>7. PageStream(Tail(down), r, no, Open(r), ui'.text, ui'.streaming)
      <4>1. CASE ui'.text = {} /\ ~ui'.streaming
        BY <3>6, <4>1, StreamFresh
      <4>2. CASE Opens(e, r) /\ ui'.text = {} /\ ui'.streaming
        BY <3>4, <3>6, <4>2
      <4>3. CASE IsDelta(e, r) /\ ui'.text = ui.text \union {e.body} /\ ui'.streaming = ui.streaming
        BY <3>3, <3>4, <3>5, <4>3
      <4>4. CASE ~Ender(e, r) /\ ui'.text = ui.text /\ ui'.streaming = ui.streaming
        BY <3>3, <3>4, <4>4
      <4> QED
        BY <3>1, <4>1, <4>2, <4>3, <4>4 DEF EventText
    <3> QED
      BY <2>1, <3>2, <3>7
  <2> QED
    BY <1>1, <2>1, <2>2, <2>3
<1>3. CASE ~HandleEvent
  <2>1. ASSUME NEW r \in Rooms \ missed', r \notin missed
        PROVE  /\ RoomStream(down', r, run'[r].no, OpenNext(r))
               /\ \A text, streaming : PageStream(down, r, run[r].no, Open(r), text, streaming) =>
                     PageStream(down', r, run'[r].no, OpenNext(r), text, streaming)
    <3> DEFINE no  == run'[r].no
    <3>1. RoomStream(down, r, run[r].no, Open(r)) /\ Open(r) \in BOOLEAN /\ OpenNext(r) \in BOOLEAN
      BY <1>0, <2>1 DEF StreamInv
    <3>2. PICK t \in Seq(AnyEvent) : down' = down \o t /\ Speaks(t, r)
      BY <1>0, <1>1, <1>3, StreamSteps
    <3>3. /\ \A j \in 1..Len(t) : IsDelta(t[j], r) => t[j].body = <<r, no>>
          /\ no = run[r].no \/ (~Open(r) /\ ~OpenNext(r))
          /\ OpenNext(r) \/ (Quietly(t, r) /\ (~Open(r) \/ Closes(t, r)))
      BY <3>2 DEF Speaks
    <3> HIDE DEF no
    <3>4. RoomStream(down, r, no, Open(r))
      <4>1. CASE no = run[r].no
        BY <3>1, <4>1
      <4>2. CASE ~Open(r)
        <5>1. RoomStream(down, r, run[r].no, FALSE)
          BY <3>1, <4>2
        <5>2. RoomStream(down, r, no, FALSE)
          BY <5>1, StreamFresh
        <5> QED
          BY <3>1, <4>2, <5>2
      <4> QED
        BY <3>3, <4>1, <4>2
    <3>5. ASSUME NEW text, NEW streaming, PageStream(down, r, run[r].no, Open(r), text, streaming)
          PROVE  PageStream(down, r, no, Open(r), text, streaming)
      <4>1. CASE no = run[r].no
        BY <3>5, <4>1
      <4>2. CASE ~Open(r)
        <5>1. PageStream(down, r, run[r].no, FALSE, text, streaming)
          BY <3>1, <3>5, <4>2
        <5>2. PageStream(down, r, no, FALSE, text, streaming)
          BY <5>1, StreamFresh
        <5> QED
          BY <3>1, <4>2, <5>2
      <4> QED
        BY <3>3, <4>1, <4>2
    <3>6. /\ RoomStream(down, r, no, Open(r)) =>
                 /\ RoomStream(down \o t, r, no, TRUE)
                 /\ Quietly(t, r) /\ (~Open(r) \/ Closes(t, r)) => RoomStream(down \o t, r, no, FALSE)
          /\ \A text, streaming : PageStream(down, r, no, Open(r), text, streaming) =>
                 /\ PageStream(down \o t, r, no, TRUE, text, streaming)
                 /\ Quietly(t, r) /\ (~Open(r) \/ Closes(t, r)) =>
                       PageStream(down \o t, r, no, FALSE, text, streaming)
      BY <1>0, <3>1, <3>3, StreamAppend
    <3>7. CASE OpenNext(r)
      <4>1. OpenNext(r) = TRUE
        BY <3>1, <3>7
      <4> QED
        BY <3>2, <3>4, <3>5, <3>6, <4>1 DEF no
    <3>8. CASE ~OpenNext(r)
      <4>1. OpenNext(r) = FALSE
        BY <3>1, <3>8
      <4> QED
        BY <3>2, <3>3, <3>4, <3>5, <3>6, <3>8, <4>1 DEF no
    <3> QED
      BY <3>7, <3>8
  <2>2. ASSUME NEW r \in Rooms \ missed', r \in missed
        PROVE  RoomStream(down', r, run'[r].no, OpenNext(r))
    <3>1. PICK q \in Rooms : EnterRoom(q)
      BY <2>2, MissedSteps
    <3>2. ~OnTheWay(r) /\ down' = down
      BY <2>2, <3>1 DEF EnterRoom
    <3>3. \A i \in 1..Len(down') : down'[i].room # r
      BY <1>0, <3>2 DEF OnTheWay
    <3> QED
      BY <3>3, StreamFresh
  <2>3. ASSUME ui'.room \in Rooms \ missed'
        PROVE  PageStream(down', ui'.room, run'[ui'.room].no, OpenNext(ui'.room), ui'.text, ui'.streaming)
    <3>1. CASE ui'.text = {} /\ ui'.streaming = FALSE
      BY <3>1, StreamFresh
    <3>2. CASE ui'.room = ui.room /\ ui'.text = ui.text /\ ui'.streaming = ui.streaming
                /\ ~(ui'.text = {} /\ ui'.streaming = FALSE)
      <4>1. ASSUME NEW q \in Rooms, EnterRoom(q) PROVE FALSE
        BY <3>2, <4>1 DEF EnterRoom, Fresh
      <4>2. ui.room \in Rooms \ missed' /\ ui.room \notin missed
        BY <2>3, <3>2, <4>1, MissedSteps
      <4>3. PageStream(down, ui.room, run[ui.room].no, Open(ui.room), ui.text, ui.streaming)
        BY <1>0, <4>2 DEF StreamInv
      <4>4. PageStream(down', ui.room, run'[ui.room].no, OpenNext(ui.room), ui.text, ui.streaming)
        BY <2>1, <4>2, <4>3
      <4> QED
        BY <3>2, <4>4
    <3> QED
      BY <1>3, <3>1, <3>2, TextSteps
  <2> QED
    BY <1>1, <2>1, <2>2, <2>3
<1> QED
  BY <1>2, <1>3

LEMMA StreamAlways == Spec => []StreamInv
<1>1. Init => StreamInv
  <2> SUFFICES ASSUME Init PROVE StreamInv
    OBVIOUS
  <2>1. Mine
    BY DEF Init, Mine, Busy, Idle
  <2>2. \A i \in 1..Len(down) : FALSE
    BY DEF Init
  <2>3. \A r : RoomStream(down, r, run[r].no, Open(r))
    BY <2>2, StreamFresh
  <2>4. ui.text = {} /\ ui.streaming = FALSE
    BY DEF Init, Fresh
  <2> QED
    BY <2>1, <2>3, <2>4, StreamFresh DEF StreamInv
<1>2. Typed /\ StreamInv /\ [Next]_vars => StreamInv'
  BY StreamNext
<1> QED
  BY <1>1, <1>2, TypedAlways, PTL DEF Spec

(* ChatPage.tsx:155-179, chat.gateway.ts:1085-1262: the text that streams  *)
(* is of one run of the selected room, for any number of rooms and runs,   *)
(* while the connection holds and no run of the room ended unheard.        *)
THEOREM OneRunStreamedHolds == Spec => []OneRunStreamed
<1>1. Typed /\ StreamInv => OneRunStreamed
  <2> SUFFICES ASSUME Typed, StreamInv, ~dropped, ui.room \notin missed, NEW d \in ui.text, NEW e \in ui.text
               PROVE  d[1] = ui.room /\ d = e
    BY DEF OneRunStreamed
  <2>1. ui.room # None => ui.room \in Rooms
    BY DEF Typed, PageOf, AnyPage
  <2>2. ui.room \in Rooms
    BY <2>1 DEF Typed, PageOf, Bare
  <2> QED
    BY <2>2 DEF StreamInv, PageStream
<1> QED
  BY <1>1, TypedAlways, StreamAlways, PTL

(***************************************************************************)
(* The flags that say something is awaited: a request for messages is on   *)
(* its way while the page says it loads; what the page has sent is on its  *)
(* way or in a run while it says it sends, or the end of that is.          *)
(***************************************************************************)
LoadInv ==
    /\ ui.loading => \E f \in fetches : f.kind = "first" /\ f.request = ui.request /\ f.room = ui.room
    /\ ui.older => \E f \in fetches : f.kind = "older" /\ f.room = ui.room

Wants(s, r) == \E i \in 1..Len(s) : s[i].room = r /\ s[i].op \in {"send", "retry", "respond"}
Working(r)  == run[r].phase \in {"accepted", "streaming"}
SendInv ==
    ~dropped /\ ui.sending /\ ui.room \notin gone \union missed =>
        Wants(up, ui.room) \/ Working(ui.room) \/ Closes(down, ui.room)

Answered(f, page, next) == [f EXCEPT !.status = "answered", !.page = page, !.next = next]
Unanswered(f)           == [f EXCEPT !.status = "failed"]

(* A request for messages is under way until its answer is handled.        *)
LEMMA FetchKept ==
    ASSUME Typed, [Next]_vars, NEW f \in fetches, ~ApplyFirst(f), ~ApplyOlder(f)
    PROVE  \E g \in fetches' : g.kind = f.kind /\ g.room = f.room /\ g.request = f.request
<1>0. f \in AnyFetch
  BY DEF Typed, FetchesType, FetchOf
<1>1. CASE f \in fetches'
  BY <1>1
<1>2. ASSUME ServeMessages(f)
      PROVE  \E g \in fetches' : g.kind = f.kind /\ g.room = f.room /\ g.request = f.request
  <2>1. \A page, next : /\ Answered(f, page, next).kind = f.kind /\ Answered(f, page, next).room = f.room
                        /\ Answered(f, page, next).request = f.request
    BY <1>0 DEF AnyFetch, Answered
  <2>2. Unanswered(f).kind = f.kind /\ Unanswered(f).room = f.room /\ Unanswered(f).request = f.request
    BY <1>0 DEF AnyFetch, Unanswered
  <2>3. \/ \E page, next : fetches' = (fetches \ {f}) \union {Answered(f, page, next)}
        \/ fetches' = (fetches \ {f}) \union {Unanswered(f)}
    BY <1>2, Zenon DEF ServeMessages, Answered, Unanswered
  <2> QED
    BY <2>1, <2>2, <2>3
<1>3. CASE User
  BY <1>1, <1>3 DEF User, EnterRoom, DeleteRoom, SendMessage, RetryMessage, RespondToApproval,
          StopGeneration, LoadOlder
<1>4. CASE Answers
  <2>1. ASSUME NEW q \in fetches, q # f, ServeMessages(q) \/ ApplyFirst(q) \/ ApplyOlder(q)
        PROVE  f \in fetches'
    BY <2>1 DEF ServeMessages, ApplyFirst, ApplyOlder
  <2>2. ServeDeletion \/ ApplyDeletion => fetches' = fetches
    BY DEF ServeDeletion, ApplyDeletion
  <2> QED
    BY <1>1, <1>2, <1>4, <2>1, <2>2 DEF Answers
<1>5. CASE HandleEvent \/ Disconnect \/ Connect
  BY <1>1, <1>5, HandleFrame DEF Disconnect, Connect, client
<1>6. CASE Receive
  BY <1>1, <1>6 DEF Receive, JoinBegins, LeaveRoom, ReceiveRetry, ReceiveResponse, ReceiveStop, Refuse,
              ReceiveSend, Arrived, client
<1>7. ASSUME NEW r \in Rooms, JoinEnds(r) \/ Start(r) \/ Delta(r) \/ Finish(r) PROVE fetches' = fetches
  BY <1>7 DEF JoinEnds, Start, Delta, Finish, Complete, Cancel, FailSend, FailRetry, FailApproval,
              Unclear, AskApproval, Close, Vanish, InRoom, Runs, client
<1>8. CASE UNCHANGED vars
  BY <1>1, <1>8 DEF vars, client
<1> QED
  BY <1>1, <1>3, <1>4, <1>5, <1>6, <1>7, <1>8 DEF Next, Gateway

(* Which steps begin a wait.                                               *)
LEMMA WaitSteps ==
    ASSUME Typed, [Next]_vars
    PROVE  /\ ui'.loading => (ui.loading /\ ui'.room = ui.room /\ ui'.request = ui.request)
                             \/ \E r \in Rooms : EnterRoom(r)
           /\ ui'.older => (ui.older /\ ui'.room = ui.room) \/ LoadOlder
           /\ ui'.sending => \/ ui.sending /\ ui'.room = ui.room /\ ~(\E r \in Rooms : EnterRoom(r))
                             \/ SendMessage \/ RetryMessage \/ RespondToApproval
<1>0. ui \in AnyPage
  BY DEF Typed, PageOf
<1>1. CASE ui' = ui
  <2>1. ASSUME NEW r \in Rooms, EnterRoom(r) PROVE ~ui'.sending
    BY <2>1 DEF EnterRoom, Fresh
  <2> QED
    BY <1>1, <2>1
<1>2. ASSUME NEW r \in Rooms, EnterRoom(r) PROVE ~ui'.sending /\ ~ui'.older
  BY <1>2 DEF EnterRoom, Fresh
<1>3. CASE HandleEvent
  BY <1>2, <1>3, EventFlags DEF EventText, EventSame
<1>4. CASE SendMessage \/ RetryMessage \/ RespondToApproval \/ StopGeneration \/ LoadOlder
  BY <1>0, <1>2, <1>4 DEF SendMessage, RetryMessage, RespondToApproval, StopGeneration, LoadOlder, AnyPage
<1>5. CASE ApplyDeletion /\ ui' # ui
  <2>1. ui' = Fresh(None, NextRequest)
    BY <1>5 DEF ApplyDeletion
  <2> QED
    BY <2>1 DEF Fresh
<1>6. ASSUME NEW f \in fetches, ApplyFirst(f) \/ ApplyOlder(f)
      PROVE  /\ ui'.loading => ui.loading /\ ui'.room = ui.room /\ ui'.request = ui.request
             /\ ui'.older => ui.older /\ ui'.room = ui.room
             /\ ui'.sending => ui.sending /\ ui'.room = ui.room
  BY <1>0, <1>6 DEF ApplyFirst, ApplyOlder, AnyPage
<1> QED
  BY <1>1, <1>2, <1>3, <1>4, <1>5, <1>6, UiSteps

LEMMA LoadNext ==
    ASSUME Typed, LoadInv, [Next]_vars
    PROVE  LoadInv'
<1>0. ui \in AnyPage
  BY DEF Typed, PageOf
<1>1. ASSUME ui'.loading
      PROVE  \E f \in fetches' : f.kind = "first" /\ f.request = ui'.request /\ f.room = ui'.room
  <2>1. ASSUME NEW r \in Rooms, EnterRoom(r)
        PROVE  \E f \in fetches' : f.kind = "first" /\ f.request = ui'.request /\ f.room = ui'.room
    <3> DEFINE f == [kind |-> "first", room |-> r, request |-> NextRequest, cursor |-> 0,
                     status |-> "sent", page |-> <<>>, next |-> 0]
    <3>1. f.kind = "first" /\ f.request = NextRequest /\ f.room = r
      OBVIOUS
    <3>2. f \in fetches' /\ ui'.request = NextRequest /\ ui'.room = r
      BY <2>1 DEF EnterRoom, Fresh
    <3> HIDE DEF f
    <3> QED
      BY <3>1, <3>2
  <2>2. CASE ui.loading /\ ui'.room = ui.room /\ ui'.request = ui.request
    <3>1. PICK f \in fetches : f.kind = "first" /\ f.request = ui.request /\ f.room = ui.room
      BY <2>2 DEF LoadInv
    <3>2. ~ApplyFirst(f) /\ ~ApplyOlder(f)
      BY <1>0, <1>1, <3>1 DEF ApplyFirst, ApplyOlder, AnyPage
    <3> QED
      BY <2>2, <3>1, <3>2, FetchKept
  <2> QED
    BY <1>1, <2>1, <2>2, WaitSteps
<1>2. ASSUME ui'.older PROVE \E f \in fetches' : f.kind = "older" /\ f.room = ui'.room
  <2>1. CASE LoadOlder
    <3> DEFINE f == [kind |-> "older", room |-> ui.room, request |-> ui.request,
                     cursor |-> ui.cursor, status |-> "sent", page |-> <<>>, next |-> 0]
    <3>1. f.kind = "older" /\ f.room = ui.room
      OBVIOUS
    <3>2. f \in fetches' /\ ui'.room = ui.room
      BY <1>0, <2>1 DEF LoadOlder, AnyPage
    <3> HIDE DEF f
    <3> QED
      BY <3>1, <3>2
  <2>2. CASE ui.older /\ ui'.room = ui.room
    <3>1. PICK f \in fetches : f.kind = "older" /\ f.room = ui.room
      BY <2>2 DEF LoadInv
    <3>2. ~ApplyFirst(f) /\ ~ApplyOlder(f)
      BY <1>0, <1>2, <3>1 DEF ApplyFirst, ApplyOlder, AnyPage
    <3> QED
      BY <2>2, <3>1, <3>2, FetchKept
  <2> QED
    BY <1>2, <2>1, <2>2, WaitSteps
<1> QED
  BY <1>1, <1>2 DEF LoadInv

LEMMA WantsSteps ==
    ASSUME NEW r
    PROVE  /\ \A s, t \in Seq(AnyRequest) : Wants(s, r) \/ Wants(t, r) => Wants(s \o t, r)
           /\ \A s \in Seq(AnyRequest) : s # <<>> /\ Wants(s, r) =>
                 Wants(Tail(s), r) \/ (Head(s).room = r /\ Head(s).op \in {"send", "retry", "respond"})
<1>1. ASSUME NEW s \in Seq(AnyRequest), NEW t \in Seq(AnyRequest), Wants(s, r) \/ Wants(t, r)
      PROVE  Wants(s \o t, r)
  <2>1. /\ Len(s \o t) = Len(s) + Len(t) /\ Len(s) \in Nat /\ Len(t) \in Nat
        /\ \A i \in 1..(Len(s) + Len(t)) : (s \o t)[i] = IF i <= Len(s) THEN s[i] ELSE t[i - Len(s)]
    BY ConcatProperties
  <2>2. ASSUME NEW i \in 1..Len(s) PROVE i \in 1..(Len(s) + Len(t)) /\ (s \o t)[i] = s[i]
    BY <2>1
  <2>3. ASSUME NEW i \in 1..Len(t)
        PROVE  Len(s) + i \in 1..(Len(s) + Len(t)) /\ (s \o t)[Len(s) + i] = t[i]
    <3>1. Len(s) + i \in 1..(Len(s) + Len(t)) /\ ~(Len(s) + i <= Len(s)) /\ Len(s) + i - Len(s) = i
      BY <2>1
    <3> QED
      BY <2>1, <3>1
  <2> QED
    BY <1>1, <2>1, <2>2, <2>3 DEF Wants
<1>2. ASSUME NEW s \in Seq(AnyRequest), s # <<>>, Wants(s, r)
      PROVE  Wants(Tail(s), r) \/ (Head(s).room = r /\ Head(s).op \in {"send", "retry", "respond"})
  <2>1. /\ Len(s) \in Nat \ {0} /\ Head(s) = s[1] /\ Len(Tail(s)) = Len(s) - 1
        /\ \A i \in 1..Len(Tail(s)) : Tail(s)[i] = s[i + 1]
    BY <1>2, HeadTailProperties
  <2>2. PICK i \in 1..Len(s) : s[i].room = r /\ s[i].op \in {"send", "retry", "respond"}
    BY <1>2 DEF Wants
  <2>3. CASE i = 1
    BY <2>1, <2>2, <2>3
  <2>4. CASE i # 1
    <3>1. i - 1 \in 1..Len(Tail(s)) /\ Tail(s)[i - 1] = s[i]
      BY <2>1, <2>4
    <3> QED
      BY <2>2, <3>1 DEF Wants
  <2> QED
    BY <2>3, <2>4
<1> QED
  BY <1>1, <1>2

LEMMA ClosesSteps ==
    ASSUME NEW r
    PROVE  /\ \A s, t \in Seq(AnyEvent) : Closes(s, r) \/ Closes(t, r) => Closes(s \o t, r)
           /\ \A s \in Seq(AnyEvent) : s # <<>> /\ Closes(s, r) => Closes(Tail(s), r) \/ Ender(Head(s), r)
<1>1. ASSUME NEW s \in Seq(AnyEvent), NEW t \in Seq(AnyEvent), Closes(s, r) PROVE Closes(s \o t, r)
  <2>1. PICK i \in 1..Len(s) : Ender(s[i], r)
    BY <1>1 DEF Closes
  <2>2. i \in 1..Len(s \o t) /\ (s \o t)[i] = s[i]
    BY ConcatAt
  <2> QED
    BY <2>1, <2>2 DEF Closes
<1>2. ASSUME NEW s \in Seq(AnyEvent), s # <<>>, Closes(s, r), ~Ender(Head(s), r)
      PROVE  Closes(Tail(s), r)
  <2>1. PICK i \in 1..Len(s) : Ender(s[i], r)
    BY <1>2 DEF Closes
  <2>2. i - 1 \in 1..Len(Tail(s)) /\ Tail(s)[i - 1] = s[i]
    BY <1>2, <2>1, TailAt
  <2> QED
    BY <2>1, <2>2 DEF Closes
<1> QED
  BY <1>1, <1>2, ConcatQuiet

LEMMA SendNext ==
    ASSUME Typed, SendInv, StreamInv, [Next]_vars
    PROVE  SendInv'
<1> SUFFICES ASSUME ~dropped', ui'.sending, ui'.room \notin gone' \union missed'
             PROVE  Wants(up', ui'.room) \/ run'[ui'.room].phase \in {"accepted", "streaming"}
                    \/ Closes(down', ui'.room)
  BY DEF SendInv, Working
<1> DEFINE Goal(r) == Wants(up', r) \/ run'[r].phase \in {"accepted", "streaming"} \/ Closes(down', r)
<1>0. /\ up \in Seq(AnyRequest) /\ down \in Seq(AnyEvent) /\ ui \in AnyPage
      /\ run \in [Rooms -> AnyRun] /\ \A r \in Rooms : run[r] \in AnyRun
  BY DEF Typed, PageOf, UpType, DownType, RunType
<1>1. ~dropped /\ ~Disconnect /\ Mine
  <2>1. Disconnect => dropped' = TRUE
    BY DEF Disconnect
  <2>2. ~Disconnect
    BY <2>1
  <2>3. dropped' = dropped
    BY <2>2, DroppedSteps
  <2> QED
    BY <2>2, <2>3 DEF StreamInv
<1>2. CASE SendMessage \/ RetryMessage \/ RespondToApproval
  <2>1. PICK op, arg : op \in {"send", "retry", "respond"} /\ up' = up \o <<Request(op, ui.room, arg)>>
    <3>1. ui.card # None => ui.card.room = ui.room
      BY DEF Typed, PageOf, CardOf
    <3> QED
      BY <1>2, <3>1 DEF SendMessage, RetryMessage, RespondToApproval, Emit
  <2>2. PICK o, q, a : o \in Asking /\ q \in Rooms /\
           RequestOf(db, Request(o, q, a)) /\ up' = up \o <<Request(o, q, a)>>
    BY <1>2, Requested
  <2>3. ui'.room = ui.room
    BY <1>0, <1>2 DEF SendMessage, RetryMessage, RespondToApproval, AnyPage
  <2>4. Wants(up', ui.room)
    <3> DEFINE x == Request(op, ui.room, arg)
               y == Request(o, q, a)
    <3>1. x.op = op /\ x.room = ui.room
      BY DEF Request
    <3>2. <<y>> \in Seq(AnyRequest)
      BY <2>2, RequestSequences DEF RequestsOf
    <3>3. up \o <<x>> = up \o <<y>>
      BY <2>1, <2>2
    <3> HIDE DEF x, y
    <3>4. Len(up) + 1 \in 1..Len(up') /\ up'[Len(up) + 1] = x
      <4>1. up' = Append(up, x)
        BY <2>1 DEF x
      <4> QED
        BY <1>0, <4>1
    <3> QED
      BY <2>1, <3>1, <3>4 DEF Wants
  <2> QED
    BY <2>3, <2>4
<1>3. CASE ui.sending /\ ui'.room = ui.room /\ ~(\E r \in Rooms : EnterRoom(r))
  <2> DEFINE r == ui.room
  <2>1. r \in Rooms /\ ui'.room = r
    BY <1>0, <1>3 DEF Typed, PageOf, Bare, AnyPage
  <2>2. r \notin gone \union missed /\ r \notin gone' \union missed'
    BY <1>3, MissedSteps, GoneGrows
  <2>3. Wants(up, r) \/ Working(r) \/ Closes(down, r)
    BY <1>1, <1>3, <2>2 DEF SendInv
  <2>4. HandleEvent => ~Ender(Event, r)
    BY EventFlags DEF EventText
  <2> HIDE DEF r
  <2>5. CASE Closes(down, r)
    <3>1. HandleEvent => Closes(down', r)
      BY <1>0, <2>4, <2>5, HandleFrame, ClosesSteps DEF Event
    <3>2. ASSUME NEW t, EventsOf(db', t), down' = down \o t PROVE Closes(down', r)
      BY <1>0, <2>5, <3>2, ClosesSteps DEF EventsOf
    <3>3. UNCHANGED down => Closes(down', r)
      BY <2>5
    <3> QED
      BY <1>1, <2>1, <3>1, <3>2, <3>3, DownSteps
  <2>6. CASE Working(r)
    <3>1. CASE run'[r] = run[r]
      BY <2>1, <2>6, <3>1 DEF Working
    <3>2. CASE Room = r /\ (ReceiveSend \/ ReceiveRetry \/ ReceiveResponse \/ ReceiveStop)
      <4>1. CASE ReceiveStop
        <5>1. run'[r].phase = run[r].phase
          BY <1>0, <2>1, <3>2, <4>1 DEF ReceiveStop, AnyRun
        <5> QED
          BY <2>1, <2>6, <5>1 DEF Working
      <4>2. CASE ReceiveSend \/ ReceiveRetry \/ ReceiveResponse
        BY <2>6, <3>2, <4>2 DEF ReceiveSend, ReceiveRetry, ReceiveResponse, Busy, Working
      <4> QED
        BY <3>2, <4>1, <4>2
    <3>3. CASE Start(r)
      <4>1. run'[r].phase = "streaming"
        BY <1>0, <2>1, <3>3 DEF Start, AnyRun
      <4> QED
        BY <2>1, <4>1
    <3>4. CASE Delta(r)
      <4>1. run'[r].phase = "streaming"
        BY <1>0, <2>1, <3>4 DEF Delta, Runs, AnyRun
      <4> QED
        BY <2>1, <4>1
    <3>5. CASE Finish(r)
      <4>1. PICK t \in Seq(AnyEvent) : down' = down \o t /\ Closes(t, r)
        BY <1>1, <2>1, <2>2, <2>6, <3>5, StreamEnds DEF Working
      <4> QED
        BY <1>0, <2>1, <4>1, ClosesSteps
    <3> QED
      BY <1>1, <2>1, <3>1, <3>2, <3>3, <3>4, <3>5, RunSteps
  <2>7. CASE Wants(up, r)
    <3>1. CASE ~Receive
      <4>1. CASE UNCHANGED up
        BY <2>1, <2>7, <4>1
      <4>2. ASSUME NEW s, RequestsOf(db, s), up' = up \o s PROVE Wants(up', r)
        BY <1>0, <2>7, <4>2, WantsSteps DEF RequestsOf
      <4> QED
        BY <1>1, <2>1, <3>1, <4>1, <4>2, UpSteps
    <3>2. CASE Receive
      <4>1. up # <<>> /\ up' = Tail(up)
        BY <3>2 DEF Receive, JoinBegins, LeaveRoom, ReceiveRetry, ReceiveResponse, ReceiveStop, Refuse,
              ReceiveSend, Arrived
      <4>2. Wants(up', r) \/ (Room = r /\ Head(up).op \in {"send", "retry", "respond"})
        BY <1>0, <2>7, <4>1, WantsSteps DEF Room
      <4>3. CASE Room = r /\ Head(up).op \in {"send", "retry", "respond"}
        <5>1. CASE JoinBegins \/ LeaveRoom \/ ReceiveStop
          BY <4>3, <5>1 DEF JoinBegins, LeaveRoom, ReceiveStop, Arrived
        <5>2. CASE ReceiveSend \/ ReceiveRetry \/ ReceiveResponse
          <6>1. run'[r].phase = "accepted"
            BY <1>0, <2>1, <4>3, <5>2 DEF ReceiveSend, ReceiveRetry, ReceiveResponse, Accepted
          <6> QED
            BY <2>1, <6>1
        <5>3. ASSUME NEW op, NEW refused, Refuse(op, refused) PROVE Closes(down', r)
          <6>1. down' = down \o <<Error(Room)>> /\ Room \in Rooms
            BY <2>1, <4>3, <5>3, TalksBack DEF SaysBack
          <6>2. <<Error(Room)>> \in Seq(AnyEvent)
            BY <6>1, NewsMade, EventSequences DEF EventsOf
          <6>3. Closes(<<Error(Room)>>, r)
            BY ClosingNews
          <6> QED
            BY <1>0, <6>1, <6>2, <6>3, ClosesSteps
        <5> QED
          BY <2>1, <3>2, <5>1, <5>2, <5>3 DEF Receive
      <4> QED
        BY <2>1, <4>2, <4>3
    <3> QED
      BY <3>1, <3>2
  <2> QED
    BY <2>3, <2>5, <2>6, <2>7
<1> QED
  BY <1>2, <1>3, WaitSteps

LEMMA WaitAlways == Spec => [](LoadInv /\ SendInv)
<1>1. Init => LoadInv /\ SendInv
  <2>1. \A r, k : ~Fresh(r, k).sending /\ ~Fresh(r, k).older /\ (Fresh(r, k).loading => r # None)
    BY DEF Fresh
  <2> QED
    BY <2>1 DEF Init, LoadInv, SendInv
<1>2. Typed /\ StreamInv /\ LoadInv /\ SendInv /\ [Next]_vars => LoadInv' /\ SendInv'
  BY LoadNext, SendNext
<1> QED
  BY <1>1, <1>2, TypedAlways, StreamAlways, PTL DEF Spec

(* ChatPage.tsx, every handler that ends a wait: once nothing is under way *)
(* nothing spins and the input is free, for any number of rooms and runs,  *)
(* if the connection held and no run of the room ended unheard.            *)
THEOREM FlagsSettleHolds == Spec => []FlagsSettle
<1>1. Typed /\ StreamInv /\ LoadInv /\ SendInv => FlagsSettle
  <2> SUFFICES ASSUME Typed, StreamInv, LoadInv, SendInv, Quiet, ~dropped, ui.room \notin gone \union missed
               PROVE  ~(ui.sending \/ ui.streaming \/ ui.loading \/ ui.older)
    BY DEF FlagsSettle
  <2> DEFINE r == ui.room
  <2>1. ~ui.loading /\ ~ui.older
    BY DEF Quiet, LoadInv
  <2>2. CASE r = None
    BY <2>2 DEF Typed, PageOf, Bare
  <2>3. CASE r # None
    <3>1. r \in Rooms
      BY <2>3 DEF Typed, PageOf, AnyPage
    <3>2. up = <<>> /\ down = <<>> /\ run[r].phase = "idle"
      BY <3>1 DEF Quiet, Busy
    <3>3. ~ui.sending
      BY <3>2 DEF SendInv, Wants, Working, Closes
    <3>4. ~Open(r)
      BY <3>2 DEF Open
    <3>5. PageStream(down, r, run[r].no, Open(r), ui.text, ui.streaming)
      BY <3>1 DEF StreamInv
    <3>6. ~EnderIn(down, r, 1, Len(down))
      BY <3>2 DEF EnderIn
    <3>7. ~ui.streaming
      BY <3>4, <3>5, <3>6 DEF PageStream
    <3> QED
      BY <2>1, <3>3, <3>7
  <2> QED
    BY <2>2, <2>3
<1> QED
  BY <1>1, TypedAlways, StreamAlways, WaitAlways, PTL

(***************************************************************************)
(* The messages on their way.  Brings carries a new message, Updates a new *)
(* status; a step that changes the messages of a room tells it both, or    *)
(* the socket is not in the room.                                          *)
(***************************************************************************)
Brings(e, r)     == Carries(e) /\ e.room = r /\ e.type # "message_updated"
Updates(e, r, n) == e.type = "message_updated" /\ e.room = r /\ e.body.id = n
Silent(t, r)     == \A i \in 1..Len(t) : ~(Carries(t[i]) /\ t[i].room = r)

Tells(t, r) ==
    /\ \A i \in 1..Len(t) : Carries(t[i]) /\ t[i].room = r => t[i].body = db'[r][t[i].body.id]
    /\ \A i \in 1..Len(t) : Brings(t[i], r) => t[i].body.id = Len(db[r]) + 1
    /\ \A i, j \in 1..Len(t) : Brings(t[i], r) /\ Brings(t[j], r) => i = j
Covers(t, r) ==
    /\ \A n \in 1..Len(db[r]) : db'[r][n] = db[r][n] \/ \E j \in 1..Len(t) : Updates(t[j], r, n)
    /\ \A n \in 1..Len(db'[r]) : n \in 1..Len(db[r]) \/ \E j \in 1..Len(t) : Brings(t[j], r) /\ t[j].body.id = n
SameOld(r) == \A n \in 1..Len(db[r]) : db'[r][n] = db[r][n]

LEMMA SaveMade ==
    ASSUME Typed, NEW r \in Rooms, NEW m \in AnyMessage, m.id = Len(db[r]) + 1, Save(r, m)
    PROVE  /\ Len(db'[r]) = Len(db[r]) + 1 /\ db'[r][Len(db[r]) + 1] = m
           /\ SameOld(r) /\ \A q \in Rooms : q # r => db'[q] = db[q]
<1>1. db \in [Rooms -> Seq(AnyMessage)] /\ db[r] \in Seq(AnyMessage) /\ Len(db[r]) \in Nat
  BY DEF Typed, DbType
<1>2. db'[r] = Append(db[r], m) /\ \A q \in Rooms : q # r => db'[q] = db[q]
  BY <1>1 DEF Save
<1> QED
  BY <1>1, <1>2, AppendProperties DEF SameOld

LEMMA SaveWithMade ==
    ASSUME Typed, NEW r \in Rooms, Busy(r), NEW s \in {"completed", "failed", "cancelled"},
           NEW t \in {"completed", "failed", "cancelled"},
           \/ SaveWith(r, s, Said(r, t))
           \/ db' = [db EXCEPT ![r][run[r].user].status = s]
    PROVE  /\ SaveWith(r, s, Said(r, t)) => /\ Len(db'[r]) = Len(db[r]) + 1
                                            /\ db'[r][Len(db[r]) + 1] = Said(r, t)
           /\ db' = [db EXCEPT ![r][run[r].user].status = s] => Len(db'[r]) = Len(db[r])
           /\ db'[r][run[r].user] = WithStatus(db[r][run[r].user], s)
           /\ \A k \in 1..Len(db[r]) : k # run[r].user => db'[r][k] = db[r][k]
           /\ \A q \in Rooms : q # r => db'[q] = db[q]
<1> DEFINE n == run[r].user
           old == Restated(db[r], n, s)
           m == Said(r, t)
<1>1. db \in [Rooms -> Seq(AnyMessage)] /\ db[r] \in Seq(AnyMessage) /\ Len(db[r]) \in Nat /\ n \in 1..Len(db[r])
  BY RunTypes DEF Typed, DbType
<1>2. /\ old \in Seq(AnyMessage) /\ Len(old) = Len(db[r])
      /\ old[n] = WithStatus(db[r][n], s) /\ \A k \in 1..Len(db[r]) : k # n => old[k] = db[r][k]
  <2> HIDE DEF n
  <2>1. /\ SameMessages(db[r], Restated(db[r], n, s))
        /\ Restated(db[r], n, s)[n] = WithStatus(db[r][n], s)
        /\ \A k \in 1..Len(db[r]) : k # n => Restated(db[r], n, s)[k] = db[r][k]
    BY <1>1, StatusChanged
  <2> QED
    BY <2>1 DEF SameMessages
<1>3. SaveWith(r, s, m) => db' = [db EXCEPT ![r] = Append(old, m)]
  BY DEF SaveWith, Restated
<1>4. db' = [db EXCEPT ![r][run[r].user].status = s] => db' = [db EXCEPT ![r] = old]
  BY DEF Restated
<1>5. m \in AnyMessage
  BY SaidMade
<1> HIDE DEF old, n, m
<1>6. CASE SaveWith(r, s, m)
  <2>1. db'[r] = Append(old, m) /\ \A q \in Rooms : q # r => db'[q] = db[q]
    BY <1>1, <1>3, <1>6
  <2>2. /\ Len(Append(old, m)) = Len(db[r]) + 1 /\ Append(old, m)[Len(db[r]) + 1] = m
        /\ \A k \in 1..Len(db[r]) : Append(old, m)[k] = old[k]
    BY <1>2, <1>5, AppendProperties
  <2>3. db' = [db EXCEPT ![r][run[r].user].status = s] => FALSE
    <3>1. db' = [db EXCEPT ![r] = old] => db'[r] = old
      BY <1>1
    <3> QED
      BY <1>1, <1>2, <1>4, <2>1, <2>2, <3>1
  <2> QED
    BY <1>1, <1>2, <2>1, <2>2, <2>3 DEF m, n
<1>7. CASE ~SaveWith(r, s, m)
  <2>1. db'[r] = old /\ \A q \in Rooms : q # r => db'[q] = db[q]
    BY <1>1, <1>4, <1>7 DEF m
  <2> QED
    BY <1>2, <1>7, <2>1 DEF m, n
<1> QED
  BY <1>6, <1>7

(* An event that brings the new message, one that updates an old one.      *)
LEMMA ToldNews ==
    ASSUME NEW r, NEW e, NEW f, Len(db[r]) \in Nat, Len(db'[r]) = Len(db[r]) + 1,
           Brings(f, r), f.body = db'[r][Len(db[r]) + 1], f.body.id = Len(db[r]) + 1
    PROVE  /\ SameOld(r) => Tells(<<f>>, r) /\ Covers(<<f>>, r)
           /\ SameOld(r) /\ ~Carries(e) => Tells(<<f, e>>, r) /\ Covers(<<f, e>>, r)
           /\ \A n \in 1..Len(db[r]) :
                 /\ Updates(e, r, n) /\ e.body = db'[r][n]
                 /\ \A k \in 1..Len(db[r]) : k # n => db'[r][k] = db[r][k]
                 => Tells(<<e, f>>, r) /\ Covers(<<e, f>>, r)
<1>0. \A n \in 1..Len(db'[r]) : n \in 1..Len(db[r]) \/ n = Len(db[r]) + 1
  OBVIOUS
<1>1. ASSUME SameOld(r) PROVE Tells(<<f>>, r) /\ Covers(<<f>>, r)
  <2>1. 1 \in 1..Len(<<f>>) /\ \A i \in 1..Len(<<f>>) : i = 1 /\ <<f>>[i] = f
    OBVIOUS
  <2> QED
    BY <1>0, <1>1, <2>1 DEF Tells, Covers, SameOld
<1>2. ASSUME SameOld(r), ~Carries(e) PROVE Tells(<<f, e>>, r) /\ Covers(<<f, e>>, r)
  <2>1. /\ 1 \in 1..Len(<<f, e>>) /\ <<f, e>>[1] = f
        /\ \A i \in 1..Len(<<f, e>>) : (i = 1 /\ <<f, e>>[i] = f) \/ (i = 2 /\ <<f, e>>[i] = e)
    OBVIOUS
  <2>2. ~Brings(e, r)
    BY <1>2 DEF Brings
  <2> QED
    BY <1>0, <1>2, <2>1, <2>2 DEF Tells, Covers, SameOld
<1>3. ASSUME NEW n \in 1..Len(db[r]), Updates(e, r, n), e.body = db'[r][n],
             \A k \in 1..Len(db[r]) : k # n => db'[r][k] = db[r][k]
      PROVE  Tells(<<e, f>>, r) /\ Covers(<<e, f>>, r)
  <2>1. /\ 1 \in 1..Len(<<e, f>>) /\ <<e, f>>[1] = e /\ 2 \in 1..Len(<<e, f>>) /\ <<e, f>>[2] = f
        /\ \A i \in 1..Len(<<e, f>>) : (i = 1 /\ <<e, f>>[i] = e) \/ (i = 2 /\ <<e, f>>[i] = f)
    OBVIOUS
  <2>2. ~Brings(e, r) /\ e.body.id = n
    BY <1>3 DEF Brings, Updates
  <2>3. Tells(<<e, f>>, r)
    BY <1>3, <2>1, <2>2 DEF Tells
  <2>4. Covers(<<e, f>>, r)
    BY <1>0, <1>3, <2>1 DEF Covers
  <2> QED
    BY <2>3, <2>4
<1> QED
  BY <1>1, <1>2, <1>3

LEMMA ToldUpdate ==
    ASSUME NEW r, NEW e, NEW n \in 1..Len(db[r]), Len(db'[r]) = Len(db[r]),
           Updates(e, r, n), e.body = db'[r][n],
           \A k \in 1..Len(db[r]) : k # n => db'[r][k] = db[r][k]
    PROVE  Tells(<<e>>, r) /\ Covers(<<e>>, r)
<1>1. 1 \in 1..Len(<<e>>) /\ \A i \in 1..Len(<<e>>) : i = 1 /\ <<e>>[i] = e
  OBVIOUS
<1>2. ~Brings(e, r) /\ e.body.id = n
  BY DEF Brings, Updates
<1> QED
  BY <1>1, <1>2 DEF Tells, Covers

LEMMA SilentTells ==
    ASSUME NEW t, NEW r, Silent(t, r)
    PROVE  Tells(t, r) /\ (db'[r] = db[r] => Covers(t, r))
<1>1. \A i \in 1..Len(t) : ~Brings(t[i], r)
  BY DEF Silent, Brings
<1> QED
  BY <1>1 DEF Silent, Tells, Covers

LEMMA SilentNews ==
    ASSUME NEW q, NEW r
    PROVE  /\ Silent(<<>>, r) /\ Silent(<<Error(q)>>, r) /\ Silent(Replies(q), r)
           /\ \A c : Silent(RequiredNews(q, c), r)
           /\ Silent(<<News("assistant_message_cancelled", q, None)>>, r)
           /\ Silent(StartNews(q), r) /\ Silent(DeltaNews(q), r)
           /\ q # r => /\ Silent(CompleteNews(q), r) /\ Silent(CancelNews(q), r) /\ Silent(FailNews(q), r)
                       /\ Silent(AskNews(q), r) /\ Silent(SendNews(q), r) /\ Silent(CloseNews(q), r)
           /\ \A news : Silent(news, r) => Silent(Heard(q, news), r)
<1> DEFINE Quiet1(e) == ~(Carries(e) /\ e.room = r)
<1>1. \A type, body : /\ q # r => Quiet1(News(type, q, body))
                      /\ type \in {"assistant_message_started", "assistant_message_delta", "chat_error",
                                   "assistant_approval_required", "assistant_approval_resolved"} =>
                            Quiet1(News(type, q, body))
                      /\ Quiet1(News("assistant_message_cancelled", q, None))
  BY DEF News, Carries, Ends
<1>2. /\ Silent(<<>>, r) /\ \A e : Quiet1(e) => Silent(<<e>>, r)
      /\ \A e, f : Quiet1(e) /\ Quiet1(f) => Silent(<<e, f>>, r)
  BY DEF Silent
<1> HIDE DEF Quiet1
<1>3. Silent(<<Error(q)>>, r) /\ Silent(Replies(q), r)
  BY <1>1, <1>2 DEF Error, Replies
<1>4. /\ \A c : Silent(RequiredNews(q, c), r)
      /\ Silent(<<News("assistant_message_cancelled", q, None)>>, r) /\ Silent(DeltaNews(q), r)
  BY <1>1, <1>2 DEF RequiredNews, DeltaNews
<1>5. Silent(StartNews(q), r)
  <2> DEFINE e == News("assistant_message_started", q, None)
             f == News("assistant_approval_resolved", q, run[q].card)
  <2>1. StartNews(q) = <<>> \o <<e>> \/ StartNews(q) = <<f>> \o <<e>>
    BY DEF StartNews
  <2>2. Quiet1(e) /\ Quiet1(f)
    BY <1>1
  <2> HIDE DEF e, f
  <2>3. <<>> \o <<e>> = <<e>> /\ <<f>> \o <<e>> = <<f, e>>
    BY PairMade
  <2> QED
    BY <1>2, <2>1, <2>2, <2>3
<1>6. ASSUME q # r
      PROVE  /\ Silent(CompleteNews(q), r) /\ Silent(CancelNews(q), r) /\ Silent(FailNews(q), r)
             /\ Silent(AskNews(q), r) /\ Silent(SendNews(q), r) /\ Silent(CloseNews(q), r)
  <2>1. \A type, body : Quiet1(News(type, q, body))
    BY <1>1, <1>6
  <2> QED
    BY <1>2, <2>1 DEF CompleteNews, CancelNews, FailNews, LastNews, AskNews, SendNews, CloseNews, Updated
<1>7. \A news : Silent(news, r) => Silent(Heard(q, news), r)
  BY <1>2 DEF Heard
<1> QED
  BY <1>2, <1>3, <1>4, <1>5, <1>6, <1>7

LEMMA SilentSteps ==
    ASSUME Typed, [Next]_vars, ~Disconnect, ~HandleEvent, NEW r \in Rooms, db' = db, ~ReceiveSend,
           \A q \in Rooms : ~(Complete(q) \/ Cancel(q) \/ FailSend(q) \/ AskApproval(q) \/ Close(q))
    PROVE  \E t \in Seq(AnyEvent) : down' = down \o t /\ Silent(t, r)
<1>0. down \in Seq(AnyEvent) /\ EventsOf(db', <<>>)
  BY EventSequences DEF Typed, DownType
<1>1. ASSUME UNCHANGED down PROVE \E t \in Seq(AnyEvent) : down' = down \o t /\ Silent(t, r)
  <2>1. down \o <<>> = down /\ <<>> \in Seq(AnyEvent)
    BY <1>0, ConcatEmptySeq
  <2> QED
    BY <1>1, <2>1, SilentNews
<1>2. ASSUME NEW q \in Rooms, NEW news, Silent(news, r), Says(q, news) \/ SaysError(q, news)
      PROVE  \E t \in Seq(AnyEvent) : down' = down \o t /\ Silent(t, r)
  <2>1. /\ Heard(q, news) \in Seq(AnyEvent) /\ Replies(q) \in Seq(AnyEvent)
        /\ Heard(q, news) \o Replies(q) \in Seq(AnyEvent)
    BY <1>2, HeardOf DEF EventsOf, Says, SaysError
  <2>2. Silent(Heard(q, news), r) /\ Silent(Replies(q), r)
    BY <1>2, SilentNews
  <2>3. Silent(Heard(q, news) \o Replies(q), r)
    BY <2>1, <2>2, ConcatAt DEF Silent
  <2> QED
    BY <1>2, <2>1, <2>2, <2>3 DEF Says, SaysError
<1>4. ASSUME NEW q \in Rooms, SaysBack(q)
      PROVE  \E t \in Seq(AnyEvent) : down' = down \o t /\ Silent(t, r)
  <2>1. <<Error(q)>> \in Seq(AnyEvent)
    BY NewsMade, EventSequences DEF EventsOf
  <2> QED
    BY <1>4, <2>1, SilentNews DEF SaysBack
<1>5. CASE User
  BY <1>1, <1>5 DEF User, EnterRoom, DeleteRoom, SendMessage, RetryMessage, RespondToApproval,
          StopGeneration, LoadOlder
<1>6. CASE Answers
  BY <1>1, <1>6 DEF Answers, ServeMessages, ApplyFirst, ApplyOlder, ServeDeletion, ApplyDeletion
<1>7. CASE Connect
  BY <1>1, <1>7 DEF Connect
<1>8. CASE Receive
  <2>1. Room \in Rooms
    BY <1>8, ReceivedRoom
  <2>2. CASE JoinBegins \/ LeaveRoom \/ ReceiveRetry \/ ReceiveResponse
    BY <1>1, <2>2 DEF JoinBegins, LeaveRoom, ReceiveRetry, ReceiveResponse
  <2>4. CASE ReceiveStop
    BY <1>2, <2>1, <2>4, TalksBack, SilentNews
  <2>5. ASSUME NEW op, NEW refused, Refuse(op, refused)
        PROVE  \E t \in Seq(AnyEvent) : down' = down \o t /\ Silent(t, r)
    BY <1>4, <2>1, <2>5, TalksBack
  <2> QED
    BY <1>8, <2>2, <2>4, <2>5 DEF Receive
<1>9. ASSUME NEW q \in Rooms, JoinEnds(q)
      PROVE  \E t \in Seq(AnyEvent) : down' = down \o t /\ Silent(t, r)
  <2>1. CASE down' = down \o RequiredNews(q, cards[q]) /\ EventsOf(db', RequiredNews(q, cards[q]))
    BY <2>1, SilentNews DEF EventsOf
  <2> QED
    BY <1>1, <1>4, <1>9, <2>1, Talks
<1>10. ASSUME NEW q \in Rooms, Start(q) \/ Delta(q)
       PROVE  \E t \in Seq(AnyEvent) : down' = down \o t /\ Silent(t, r)
  <2>1. Silent(StartNews(q), r) /\ Silent(DeltaNews(q), r)
    BY <1>10, SilentNews
  <2> QED
    BY <1>2, <1>10, <2>1, Talks
<1>11. ASSUME NEW q \in Rooms, Finish(q)
       PROVE  \E t \in Seq(AnyEvent) : down' = down \o t /\ Silent(t, r)
  <2>1. Silent(<<>>, r) /\ Silent(RequiredNews(q, run[q].card), r)
    BY SilentNews
  <2>3. CASE FailRetry(q) \/ Unclear(q) \/ FailApproval(q)
    BY <1>2, <2>1, <2>3, Talks
  <2>4. CASE Vanish(q)
    BY <1>1, <1>2, <2>1, <2>4, Talks
  <2> QED
    BY <1>11, <2>3, <2>4 DEF Finish
<1>12. CASE UNCHANGED vars
  BY <1>1, <1>12 DEF vars
<1> QED
  BY <1>5, <1>6, <1>7, <1>8, <1>9, <1>10, <1>11, <1>12 DEF Next, Gateway

(* What a step publishes of the messages of a room.                        *)
Publishes(t, r) ==
    /\ Tells(t, r)
    /\ db'[r] = db[r] \/ Changed(r)
    /\ Covers(t, r) \/ (t = <<>> /\ r \notin joined /\ (SameOld(r) \/ r \in missed'))

LEMMA PublishSteps ==
    ASSUME Typed, [Next]_vars, ~Disconnect, ~HandleEvent, NEW r \in Rooms
    PROVE  \E t \in Seq(AnyEvent) : down' = down \o t /\ Publishes(t, r)
<1>0. down \in Seq(AnyEvent) /\ EventsOf(db', <<>>) /\ <<>> \in Seq(AnyEvent) /\ down \o <<>> = down
      /\ Len(db[r]) \in Nat /\ \A q \in Rooms : Ended(q) => q \in joined \/ q \in missed'
  <2>1. down \in Seq(AnyEvent)
    BY DEF Typed, DownType
  <2>2. EventsOf(db', <<>>) /\ <<>> \in Seq(AnyEvent)
    BY EventSequences
  <2>3. down \o <<>> = down
    BY <2>1, ConcatEmptySeq
  <2> QED
    BY <2>1, <2>2, <2>3, RunTypes DEF Ended
<1>1. ASSUME NEW q \in Rooms, NEW news, Says(q, news), q # r, db'[r] = db[r], Silent(news, r)
      PROVE  \E t \in Seq(AnyEvent) : down' = down \o t /\ Publishes(t, r)
  <2>1. Heard(q, news) \in Seq(AnyEvent) /\ Silent(Heard(q, news), r)
    BY <1>1, HeardOf, SilentNews DEF Says, EventsOf
  <2> QED
    BY <1>1, <2>1, SilentTells DEF Says, Publishes
<1>2. ASSUME NEW news, Says(r, news), Tells(news, r), Covers(news, r), Changed(r),
             SameOld(r) \/ Ended(r)
      PROVE  \E t \in Seq(AnyEvent) : down' = down \o t /\ Publishes(t, r)
  <2>1. CASE r \in joined
    BY <1>2, <2>1 DEF Says, Heard, EventsOf, Publishes
  <2>2. CASE r \notin joined
    <3>1. down' = down \o <<>>
      BY <1>2, <2>2 DEF Says, Heard
    <3>2. Tells(<<>>, r)
      BY SilentNews, SilentTells
    <3> QED
      BY <1>0, <1>2, <2>2, <3>1, <3>2 DEF Publishes
  <2> QED
    BY <2>1, <2>2
<1>3. ASSUME ReceiveSend PROVE \E t \in Seq(AnyEvent) : down' = down \o t /\ Publishes(t, r)
  <2> DEFINE q == Room
             m == Message(q, NextId(q), "user", "completed")
  <2>1. q \in Rooms /\ Says(q, SendNews(q)) /\ Save(q, m) /\ Changed(q)
    BY <1>3, ReceivedRoom, TalksBack DEF Receive, ReceiveSend
  <2>2. Len(db[q]) \in Nat /\ NextId(q) = Len(db[q]) + 1 /\ NextId(q) \in Nat
    BY <2>1, RunTypes DEF NextId
  <2>3. m \in AnyMessage /\ m.id = Len(db[q]) + 1 /\ m.room = q
    BY <2>1, <2>2, MessageMade
  <2>4. /\ Len(db'[q]) = Len(db[q]) + 1 /\ db'[q][Len(db[q]) + 1] = m /\ SameOld(q)
        /\ \A p \in Rooms : p # q => db'[p] = db[p]
    BY <2>1, <2>3, SaveMade
  <2>5. SendNews(q) = <<News("message_created", q, m)>>
    BY DEF SendNews
  <2>6. Brings(News("message_created", q, m), q) /\ News("message_created", q, m).body = m
    BY DEF Brings, News, Carries
  <2> HIDE DEF q, m
  <2>7. Tells(SendNews(q), q) /\ Covers(SendNews(q), q)
    BY <2>2, <2>3, <2>4, <2>5, <2>6, ToldNews
  <2>8. CASE q = r
    BY <1>2, <2>1, <2>4, <2>7, <2>8
  <2>9. CASE q # r
    <3>1. Silent(SendNews(q), r)
      BY <2>9, SilentNews
    <3> QED
      BY <1>1, <2>1, <2>4, <2>9, <3>1
  <2> QED
    BY <2>8, <2>9
<1>4. ASSUME NEW q \in Rooms, Complete(q) \/ Cancel(q) \/ FailSend(q) \/ AskApproval(q)
      PROVE  \E t \in Seq(AnyEvent) : down' = down \o t /\ Publishes(t, r)
  <2> DEFINE S == {"completed", "failed", "cancelled"}
  <2>1. Busy(q) /\ Changed(q) /\ Ended(q)
    BY <1>4 DEF Complete, Cancel, FailSend, AskApproval, InRoom, Runs, Busy
  <2>2. Len(db[q]) \in Nat /\ run[q].user \in 1..Len(db[q])
    BY <2>1, RunTypes
  <2>3. \A s \in S : /\ Said(q, s) \in AnyMessage /\ Said(q, s).id = Len(db[q]) + 1
                     /\ Updated(q, s) = News("message_updated", q, WithStatus(db[q][run[q].user], s))
                     /\ WithStatus(db[q][run[q].user], s).id = run[q].user
    BY <2>1, SaidMade
  <2>4. ASSUME NEW s \in S, NEW t \in S, NEW type \in {"assistant_message_completed",
                 "assistant_message_failed", "assistant_message_cancelled"}, SaveWith(q, s, Said(q, t))
        PROVE  LET news == <<Updated(q, s), News(type, q, Said(q, t))>> IN
               /\ Tells(news, q) /\ Covers(news, q)
               /\ \A p \in Rooms : p # q => db'[p] = db[p]
    <3> DEFINE e == Updated(q, s)
               f == News(type, q, Said(q, t))
               n == run[q].user
    <3>1. /\ Len(db'[q]) = Len(db[q]) + 1 /\ db'[q][Len(db[q]) + 1] = Said(q, t)
          /\ db'[q][n] = WithStatus(db[q][n], s) /\ \A k \in 1..Len(db[q]) : k # n => db'[q][k] = db[q][k]
          /\ \A p \in Rooms : p # q => db'[p] = db[p]
      BY <2>1, <2>4, SaveWithMade
    <3>2. Said(q, t) # None
      BY <2>3, PageAssumption
    <3>3. Brings(f, q) /\ f.body = Said(q, t)
      BY <3>2 DEF Brings, News, Carries, Ends
    <3>4. Updates(e, q, n) /\ e.body = WithStatus(db[q][n], s)
      BY <2>3 DEF Updates, News
    <3> HIDE DEF e, f, n
    <3>5. n \in 1..Len(db[q]) /\ Said(q, t).id = Len(db[q]) + 1
      BY <2>2, <2>3 DEF n
    <3>6. Tells(<<e, f>>, q) /\ Covers(<<e, f>>, q)
      BY <2>2, <3>1, <3>3, <3>4, <3>5, ToldNews
    <3> QED
      BY <3>1, <3>6 DEF e, f
  <2>5. ASSUME NEW s \in S, NEW type \in {"message_created", "assistant_message_completed"},
               Save(q, Said(q, s))
        PROVE  /\ Tells(<<News(type, q, Said(q, s))>>, q) /\ Covers(<<News(type, q, Said(q, s))>>, q)
               /\ \A e : ~Carries(e) => /\ Tells(<<News(type, q, Said(q, s)), e>>, q)
                                        /\ Covers(<<News(type, q, Said(q, s)), e>>, q)
               /\ \A p \in Rooms : p # q => db'[p] = db[p]
    <3> DEFINE f == News(type, q, Said(q, s))
    <3>1. /\ Len(db'[q]) = Len(db[q]) + 1 /\ db'[q][Len(db[q]) + 1] = Said(q, s) /\ SameOld(q)
          /\ \A p \in Rooms : p # q => db'[p] = db[p]
      BY <2>3, <2>5, SaveMade
    <3>2. Said(q, s) # None
      BY <2>3, PageAssumption
    <3>3. Brings(f, q) /\ f.body = Said(q, s) /\ Said(q, s).id = Len(db[q]) + 1
      BY <2>3, <3>2 DEF Brings, News, Carries, Ends
    <3> HIDE DEF f
    <3>4. Tells(<<f>>, q) /\ Covers(<<f>>, q)
          /\ \A e : ~Carries(e) => Tells(<<f, e>>, q) /\ Covers(<<f, e>>, q)
      BY <2>2, <3>1, <3>3, ToldNews
    <3> QED
      BY <3>1, <3>4 DEF f
  <2>6. PICK news : /\ Says(q, news) /\ Tells(news, q) /\ Covers(news, q) /\ (q # r => Silent(news, r))
                    /\ \A p \in Rooms : p # q => db'[p] = db[p]
    <3>1. CASE Complete(q)
      <4>1. CASE run[q].kind = "retry"
        BY <2>4, <3>1, <4>1, Talks, SilentNews DEF Complete, CompleteNews, LastNews
      <4>2. CASE run[q].kind # "retry"
        BY <2>5, <3>1, <4>2, Talks, SilentNews DEF Complete, CompleteNews, LastNews
      <4> QED
        BY <4>1, <4>2
    <3>2. CASE Cancel(q)
      BY <2>4, <3>2, Talks, SilentNews DEF Cancel, CancelNews, LastNews
    <3>3. CASE FailSend(q)
      BY <2>4, <3>3, Talks, SilentNews DEF FailSend, FailNews, LastNews
    <3>4. CASE AskApproval(q)
      <4>1. ~Carries(News("assistant_approval_required", q, NewCard(q)))
        BY DEF Carries, News, Ends
      <4> QED
        BY <2>5, <3>4, <4>1, Talks, SilentNews DEF AskApproval, AskNews
    <3> QED
      BY <1>4, <3>1, <3>2, <3>3, <3>4
  <2>7. CASE q = r
    BY <1>2, <2>1, <2>6, <2>7
  <2>8. CASE q # r
    BY <1>1, <2>6, <2>8
  <2> QED
    BY <2>7, <2>8
<1>5. ASSUME db' = db, NEW t \in Seq(AnyEvent), down' = down \o t, Silent(t, r)
      PROVE  \E u \in Seq(AnyEvent) : down' = down \o u /\ Publishes(u, r)
  BY <1>5, SilentTells DEF Publishes
<1>6. ASSUME NEW q \in Rooms, Close(q)
      PROVE  \E t \in Seq(AnyEvent) : down' = down \o t /\ Publishes(t, r)
  <2>1. CASE db' = db /\ down' = down
    BY <1>0, <1>5, <2>1, SilentNews
  <2>2. CASE ~(db' = db /\ down' = down)
    <3> DEFINE n == run[q].user
               e == Updated(q, "completed")
    <3>1. /\ db' = [db EXCEPT ![q][n].status = "completed"] /\ Tell(q, CloseNews(q))
          /\ Changed(q) /\ Ended(q) /\ Busy(q)
      BY <1>6, <2>2 DEF Close, CloseNews, InRoom, Runs, Busy
    <3>2. /\ n \in 1..Len(db[q]) /\ e = News("message_updated", q, WithStatus(db[q][n], "completed"))
          /\ WithStatus(db[q][n], "completed").id = n
      BY <3>1, RunTypes, SaidMade
    <3>3. /\ Len(db'[q]) = Len(db[q]) /\ db'[q][n] = WithStatus(db[q][n], "completed")
          /\ \A k \in 1..Len(db[q]) : k # n => db'[q][k] = db[q][k]
          /\ \A p \in Rooms : p # q => db'[p] = db[p]
      BY <3>1, SaveWithMade
    <3>4. Updates(e, q, n) /\ e.body = db'[q][n]
      BY <3>2, <3>3 DEF Updates, News
    <3> HIDE DEF n
    <3>5. Tells(<<e>>, q) /\ Covers(<<e>>, q)
      BY <3>2, <3>3, <3>4, ToldUpdate
    <3>6. Says(q, CloseNews(q))
      <4>1. MessageOf(db', q, WithStatus(db[q][n], "completed"))
        BY <3>1, SaidMade, DbNext, LongerKeeps DEF Typed, n
      <4>2. EventsOf(db', CloseNews(q))
        BY <3>2, <4>1, NewsMade, EventSequences DEF CloseNews
      <4> QED
        BY <3>1, <4>2, Spoken DEF Says
    <3>7. CASE q = r
      BY <1>2, <3>1, <3>5, <3>6, <3>7 DEF CloseNews
    <3>8. CASE q # r
      BY <1>1, <3>3, <3>6, <3>8, SilentNews
    <3> QED
      BY <3>7, <3>8
  <2> QED
    BY <2>1, <2>2
<1>7. CASE ~ReceiveSend /\ \A q \in Rooms : ~(Complete(q) \/ Cancel(q) \/ FailSend(q) \/ AskApproval(q) \/ Close(q))
  <2>1. db' = db
    BY <1>7, DbSteps
  <2> QED
    BY <1>5, <1>7, <2>1, SilentSteps
<1> QED
  BY <1>3, <1>4, <1>6, <1>7

(* New messages are told in their order, and an old state of a message is  *)
(* followed by its update.                                                 *)
Ordered(q, r) == \A i, j \in 1..Len(q) :
    i < j /\ Brings(q[i], r) /\ Brings(q[j], r) => q[i].body.id < q[j].body.id
UpdatedAfter(q, r, n, i) == \E j \in (i + 1)..Len(q) : Updates(q[j], r, n)
UpToDate(q, r, all) == \A i \in 1..Len(q) : Carries(q[i]) /\ q[i].room = r =>
    q[i].body = all[q[i].body.id] \/ UpdatedAfter(q, r, q[i].body.id, i)
EventInv == \A r \in Rooms :
    /\ Ordered(down, r)
    /\ r \notin missed \/ (calm /\ ui.room = r) => UpToDate(down, r, db[r])

LEMMA OrderedAppend ==
    ASSUME NEW q \in Seq(AnyEvent), NEW t \in Seq(AnyEvent), NEW r, NEW n \in Nat, Ordered(q, r),
           \A i \in 1..Len(q) : Brings(q[i], r) => q[i].body.id \in 1..n,
           \A i \in 1..Len(t) : Brings(t[i], r) => t[i].body.id = n + 1,
           \A i, j \in 1..Len(t) : Brings(t[i], r) /\ Brings(t[j], r) => i = j
    PROVE  Ordered(q \o t, r)
<1> DEFINE u == q \o t
<1>1. /\ Len(q) \in Nat /\ Len(t) \in Nat /\ Len(u) = Len(q) + Len(t)
      /\ \A i \in 1..Len(q) : u[i] = q[i]
      /\ \A i \in 1..Len(u) : i \in 1..Len(q) \/ (i - Len(q) \in 1..Len(t) /\ u[i] = t[i - Len(q)])
  BY ConcatAt
<1> HIDE DEF u
<1> SUFFICES ASSUME NEW i \in 1..Len(u), NEW j \in 1..Len(u), i < j, Brings(u[i], r), Brings(u[j], r)
             PROVE  u[i].body.id < u[j].body.id
  BY DEF Ordered, u
<1>2. CASE i \in 1..Len(q) /\ j \in 1..Len(q)
  BY <1>1, <1>2 DEF Ordered
<1>3. CASE i \in 1..Len(q) /\ j \notin 1..Len(q)
  <2>1. u[i].body.id \in 1..n /\ u[j].body.id = n + 1
    BY <1>1, <1>3
  <2> QED
    BY <2>1
<1>4. CASE i \notin 1..Len(q)
  <2>1. j \notin 1..Len(q)
    BY <1>1, <1>4
  <2>2. i - Len(q) = j - Len(q)
    BY <1>1, <1>4, <2>1
  <2> QED
    BY <1>1, <2>2
<1> QED
  BY <1>2, <1>3, <1>4

LEMMA UpToDateAppend ==
    ASSUME NEW q \in Seq(AnyEvent), NEW t \in Seq(AnyEvent), NEW r, NEW old, NEW new, NEW n \in Nat,
           UpToDate(q, r, old),
           \A i \in 1..Len(q) : Carries(q[i]) /\ q[i].room = r => q[i].body.id \in 1..n,
           \A i \in 1..Len(t) : Carries(t[i]) /\ t[i].room = r => t[i].body = new[t[i].body.id],
           \A k \in 1..n : new[k] = old[k] \/ \E j \in 1..Len(t) : Updates(t[j], r, k)
    PROVE  UpToDate(q \o t, r, new)
<1> DEFINE u == q \o t
<1>1. /\ Len(q) \in Nat /\ Len(t) \in Nat /\ Len(u) = Len(q) + Len(t)
      /\ \A i \in 1..Len(q) : u[i] = q[i]
      /\ \A j \in 1..Len(t) : u[Len(q) + j] = t[j]
      /\ \A i \in 1..Len(u) : i \in 1..Len(q) \/ (i - Len(q) \in 1..Len(t) /\ u[i] = t[i - Len(q)])
  BY ConcatAt
<1> HIDE DEF u
<1> SUFFICES ASSUME NEW i \in 1..Len(u), Carries(u[i]), u[i].room = r
             PROVE  u[i].body = new[u[i].body.id] \/ UpdatedAfter(u, r, u[i].body.id, i)
  BY DEF UpToDate, u
<1>2. CASE i \notin 1..Len(q)
  BY <1>1, <1>2
<1>3. CASE i \in 1..Len(q)
  <2> DEFINE k == u[i].body.id
  <2>1. u[i] = q[i] /\ k \in 1..n
    BY <1>1, <1>3
  <2> HIDE DEF k
  <2>2. ASSUME NEW j \in 1..Len(t), Updates(t[j], r, k) PROVE UpdatedAfter(u, r, k, i)
    <3>1. Len(q) + j \in (i + 1)..Len(u) /\ u[Len(q) + j] = t[j]
      BY <1>1, <1>3
    <3> QED
      BY <2>2, <3>1 DEF UpdatedAfter
  <2>3. ASSUME UpdatedAfter(q, r, k, i) PROVE UpdatedAfter(u, r, k, i)
    <3>1. PICK j \in (i + 1)..Len(q) : Updates(q[j], r, k)
      BY <2>3 DEF UpdatedAfter
    <3>2. j \in (i + 1)..Len(u) /\ u[j] = q[j]
      BY <1>1, <1>3, <3>1
    <3> QED
      BY <3>1, <3>2 DEF UpdatedAfter
  <2>4. u[i].body = old[k] \/ UpdatedAfter(q, r, k, i)
    BY <1>3, <2>1 DEF UpToDate, k
  <2> QED
    BY <2>1, <2>2, <2>3, <2>4 DEF k
<1> QED
  BY <1>2, <1>3

LEMMA EventsTail ==
    ASSUME NEW q \in Seq(AnyEvent), q # <<>>, NEW r, NEW all
    PROVE  /\ Ordered(q, r) => Ordered(Tail(q), r)
           /\ UpToDate(q, r, all) => UpToDate(Tail(q), r, all)
<1> DEFINE u == Tail(q)
<1>1. /\ Len(q) \in Nat /\ Len(q) > 0 /\ Len(u) = Len(q) - 1
      /\ \A i \in 1..Len(u) : i + 1 \in 1..Len(q) /\ u[i] = q[i + 1]
      /\ \A i \in 1..Len(q) : i # 1 => i - 1 \in 1..Len(u) /\ u[i - 1] = q[i]
  BY TailAt
<1> HIDE DEF u
<1>2. ASSUME Ordered(q, r), NEW i \in 1..Len(u), NEW j \in 1..Len(u), i < j, Brings(u[i], r), Brings(u[j], r)
      PROVE  u[i].body.id < u[j].body.id
  <2>1. i + 1 \in 1..Len(q) /\ j + 1 \in 1..Len(q) /\ i + 1 < j + 1 /\ u[i] = q[i + 1] /\ u[j] = q[j + 1]
    BY <1>1, <1>2
  <2> QED
    BY <1>2, <2>1 DEF Ordered
<1>3. ASSUME UpToDate(q, r, all), NEW i \in 1..Len(u), Carries(u[i]), u[i].room = r
      PROVE  u[i].body = all[u[i].body.id] \/ UpdatedAfter(u, r, u[i].body.id, i)
  <2>1. i + 1 \in 1..Len(q) /\ u[i] = q[i + 1]
    BY <1>1
  <2>2. ASSUME NEW j \in ((i + 1) + 1)..Len(q), Updates(q[j], r, u[i].body.id)
        PROVE  UpdatedAfter(u, r, u[i].body.id, i)
    <3>1. j - 1 \in (i + 1)..Len(u) /\ u[j - 1] = q[j]
      BY <1>1, <2>2
    <3> QED
      BY <2>2, <3>1 DEF UpdatedAfter
  <2> QED
    BY <1>3, <2>1, <2>2 DEF UpToDate, UpdatedAfter
<1> QED
  BY <1>2, <1>3 DEF Ordered, UpToDate, u

(* Changed, where the socket is not in the room.                           *)
LEMMA ChangedUnheard ==
    ASSUME calm', NEW r, Changed(r), r = ui.room, r \notin joined
    PROVE  calm /\ ~PageRead(r) /\ ~OnTheWay(r)
BY DEF Changed, PageShown

LEMMA EventNext ==
    ASSUME Typed, EventInv, [Next]_vars
    PROVE  EventInv'
<1> SUFFICES ASSUME NEW r \in Rooms
             PROVE  /\ Ordered(down', r)
                    /\ r \notin missed' \/ (calm' /\ ui'.room = r) => UpToDate(down', r, db'[r])
  BY DEF EventInv
<1>0. /\ down \in Seq(AnyEvent) /\ \A i \in 1..Len(down) : EventOf(db, down[i])
      /\ Ordered(down, r) /\ Len(db[r]) \in Nat
      /\ r \notin missed \/ (calm /\ ui.room = r) => UpToDate(down, r, db[r])
  BY RunTypes DEF Typed, DownType, EventInv
<1>1. ASSUME NEW i \in 1..Len(down), Carries(down[i]), down[i].room = r
      PROVE  down[i].body.id \in 1..Len(db[r])
  BY <1>0, <1>1 DEF EventOf, MessageOf
<1>2. ASSUME \A i \in 1..Len(down') : FALSE
      PROVE  Ordered(down', r) /\ UpToDate(down', r, db'[r])
  BY <1>2 DEF Ordered, UpToDate
<1>3. CASE Disconnect
  <2>1. \A i \in 1..Len(down') : FALSE
    BY <1>3 DEF Disconnect
  <2> QED
    BY <1>2, <2>1
<1>4. CASE HandleEvent
  <2>1. down # <<>> /\ down' = Tail(down) /\ missed' = missed /\ db' = db
    BY <1>4, HandleFrame DEF server
  <2>2. ui'.room = ui.room
    BY <1>4, EventFlags DEF EventText, EventSame
  <2>3. calm' => calm
    BY <1>4 DEF HandleEvent, HandleMessageCreated, HandleMessageUpdated, HandleStarted, HandleDelta,
       HandleEnd, HandleApprovalRequired, HandleApprovalResolved, HandleChatError
  <2> QED
    BY <1>0, <2>1, <2>2, <2>3, EventsTail
<1>5. CASE ~Disconnect /\ ~HandleEvent
  <2>1. PICK t \in Seq(AnyEvent) : down' = down \o t /\ Publishes(t, r)
    BY <1>5, PublishSteps
  <2>2. Ordered(down', r)
    <3>1. \A i \in 1..Len(down) : Brings(down[i], r) => down[i].body.id \in 1..Len(db[r])
      BY <1>1 DEF Brings
    <3> QED
      BY <1>0, <2>1, <3>1, OrderedAppend DEF Publishes, Tells
  <2>3. ASSUME UpToDate(down, r, db[r]), Covers(t, r) \/ SameOld(r) PROVE UpToDate(down', r, db'[r])
    <3>1. \A k \in 1..Len(db[r]) : db'[r][k] = db[r][k] \/ \E j \in 1..Len(t) : Updates(t[j], r, k)
      BY <2>3 DEF Covers, SameOld
    <3>2. \A i \in 1..Len(t) : Carries(t[i]) /\ t[i].room = r => t[i].body = db'[r][t[i].body.id]
      BY <2>1 DEF Publishes, Tells
    <3> QED
      BY <1>0, <1>1, <2>1, <2>3, <3>1, <3>2, UpToDateAppend
  <2>4. ASSUME ~OnTheWay(r), down' = down PROVE UpToDate(down', r, db'[r])
    <3>1. \A i \in 1..Len(down) : down[i].room # r
      BY <1>0, <2>4 DEF OnTheWay
    <3> QED
      BY <2>4, <3>1 DEF UpToDate
  <2>5. ASSUME r \notin missed' \/ (calm' /\ ui'.room = r) PROVE UpToDate(down', r, db'[r])
    <3>1. ASSUME NEW q \in Rooms, EnterRoom(q) PROVE UpToDate(down', r, db'[r])
      <4>1. down' = down /\ db' = db /\ missed' = {p \in missed : OnTheWay(p)} /\ ui'.room = q
            /\ calm' = (q \notin missed')
        BY <3>1 DEF EnterRoom, server, Fresh
      <4>2. r \notin missed'
        BY <2>5, <4>1
      <4>3. CASE r \in missed
        BY <2>4, <4>1, <4>2, <4>3
      <4>4. CASE r \notin missed
        BY <1>0, <4>1, <4>4
      <4> QED
        BY <4>3, <4>4
    <3>2. CASE ~(\E q \in Rooms : EnterRoom(q))
      <4>1. missed \subseteq missed' /\ (calm' => calm)
        BY <3>2, MissedSteps, CalmKept
      <4>2. ui'.room = r => ui.room = r
        BY <3>2, VisitSteps, PageAssumption DEF Fresh
      <4>3. UpToDate(down, r, db[r])
        BY <1>0, <2>5, <4>1, <4>2
      <4>4. CASE Covers(t, r) \/ SameOld(r)
        BY <2>3, <4>3, <4>4
      <4>5. CASE ~Covers(t, r) /\ ~SameOld(r)
        <5>1. t = <<>> /\ r \notin joined /\ r \in missed'
          BY <2>1, <4>5 DEF Publishes
        <5>2. calm' /\ ui.room = r
          BY <2>5, <4>2, <5>1
        <5>3. db'[r] # db[r]
          BY <4>5 DEF SameOld
        <5>4. Changed(r)
          BY <2>1, <5>3 DEF Publishes
        <5>5. ~OnTheWay(r)
          BY <5>1, <5>2, <5>4, ChangedUnheard
        <5>6. down' = down
          BY <1>0, <2>1, <5>1, ConcatEmptySeq
        <5> QED
          BY <2>4, <5>5, <5>6
      <4> QED
        BY <4>4, <4>5
    <3> QED
      BY <3>1, <3>2
  <2> QED
    BY <2>2, <2>5
<1> QED
  BY <1>3, <1>4, <1>5

LEMMA EventAlways == Spec => []EventInv
<1>1. Init => EventInv
  <2> SUFFICES ASSUME Init PROVE EventInv
    OBVIOUS
  <2>1. \A i \in 1..Len(down) : FALSE
    BY DEF Init
  <2> QED
    BY <2>1 DEF EventInv, Ordered, UpToDate
<1>2. Typed /\ EventInv /\ [Next]_vars => EventInv'
  BY EventNext
<1> QED
  BY <1>1, <1>2, TypedAlways, PTL DEF Spec

(***************************************************************************)
(* The messages that are shown.  A page whose cursor is c begins after     *)
(* Low(c).  It fits the messages of the room when it has them without a    *)
(* gap, up to some point; what comes after that, and a new status of what  *)
(* it has, is on its way.                                                  *)
(***************************************************************************)
Low(c)           == IF c = 0 THEN 0 ELSE c - PageSize
Renewed(q, r, n) == \E j \in 1..Len(q) : Updates(q[j], r, n)
Coming(q, r, n)  == \E j \in 1..Len(q) : Brings(q[j], r) /\ q[j].body.id = n

Fits(s, c, all, q, r) ==
    /\ c # 0 => c > PageSize /\ c <= Low(c) + Len(s)
    /\ Low(c) + Len(s) <= Len(all)
    /\ \A i \in 1..Len(s) : /\ s[i].id = Low(c) + i
                            /\ s[i] = all[Low(c) + i] \/ Renewed(q, r, Low(c) + i)
    /\ \A n \in 1..Len(all) : n > Low(c) + Len(s) => Coming(q, r, n)

(* An older page: the one message before those shown, and shown ones.      *)
FitsBefore(page, next, c, all, q, r) ==
    /\ Len(page) = PageSize
    /\ \A i \in 1..Len(page) : page[i].id = Low(c) + i - 1
    /\ page[1] = all[Low(c)] \/ Renewed(q, r, Low(c))
    /\ next = IF c - 1 > PageSize THEN c - 1 ELSE 0

FirstNow(f) == f.kind = "first" /\ f.request = ui.request
OlderNow(f) == f.kind = "older" /\ f.request = ui.request
FetchInv == \A f \in fetches : FirstNow(f) =>
    ui.loading /\ f.room = ui.room /\ f.cursor = 0 /\ \A g \in fetches : FirstNow(g) => g = f
OlderFits(f) ==
    /\ f.room = ui.room /\ f.cursor = ui.cursor /\ ui.cursor # 0 /\ ui.older /\ ~ui.loading
    /\ \A g \in fetches : OlderNow(g) => g = f
    /\ f.status = "answered" => FitsBefore(f.page, f.next, f.cursor, db[ui.room], down, ui.room)
MessagesInv == calm /\ ui.room # None =>
    /\ ~ui.loading => Fits(ui.shown, ui.cursor, db[ui.room], down, ui.room)
    /\ \A f \in fetches : FirstNow(f) /\ f.status = "answered" =>
          Fits(f.page, f.next, db[ui.room], <<>>, ui.room)
    /\ \A f \in fetches : OlderNow(f) => OlderFits(f)

SameView(p, q) == EventSame(p, q) /\ q.shown = p.shown

LEMMA ViewSteps ==
    ASSUME Typed, [Next]_vars, ~HandleEvent
    PROVE  \/ SameView(ui, ui') /\ fetches' = fetches
           \/ \E r \in Rooms : EnterRoom(r)
           \/ ApplyDeletion /\ ui' = Fresh(None, NextRequest) /\ fetches' = fetches
           \/ LoadOlder
           \/ \E f \in fetches : ServeMessages(f) \/ ApplyFirst(f) \/ ApplyOlder(f)
<1>0. ui \in AnyPage /\ SameView(ui, ui)
  BY DEF Typed, PageOf, SameView, EventSame
<1>1. CASE User
  BY <1>0, <1>1 DEF User, DeleteRoom, SendMessage, RetryMessage, RespondToApproval, StopGeneration,
                    AnyPage, SameView, EventSame
<1>2. CASE Answers
  <2>1. ServeDeletion => ui' = ui /\ fetches' = fetches
    BY DEF ServeDeletion
  <2>2. ApplyDeletion => (ui' = ui \/ ui' = Fresh(None, NextRequest)) /\ fetches' = fetches
    BY DEF ApplyDeletion
  <2> QED
    BY <1>0, <1>2, <2>1, <2>2 DEF Answers
<1>3. CASE Disconnect \/ Connect
  BY <1>0, <1>3 DEF Disconnect, Connect, client
<1>4. CASE Receive
  BY <1>0, <1>4 DEF Receive, JoinBegins, LeaveRoom, ReceiveRetry, ReceiveResponse, ReceiveStop, Refuse,
              ReceiveSend, Arrived, client
<1>5. ASSUME NEW r \in Rooms, JoinEnds(r) \/ Start(r) \/ Delta(r) \/ Finish(r)
      PROVE  ui' = ui /\ fetches' = fetches
  BY <1>5 DEF JoinEnds, Start, Delta, Finish, Complete, Cancel, FailSend, FailRetry, FailApproval,
              Unclear, AskApproval, Close, Vanish, InRoom, Runs, client
<1>6. CASE UNCHANGED vars
  BY <1>0, <1>6 DEF vars, client
<1> QED
  BY <1>0, <1>1, <1>2, <1>3, <1>4, <1>5, <1>6 DEF Next, Gateway

(* A request that is served becomes another.                               *)
ServedAs(f, g) ==
    /\ fetches' = (fetches \ {f}) \union {g}
    /\ g.kind = f.kind /\ g.room = f.room /\ g.request = f.request /\ g.cursor = f.cursor
    /\ \/ g.status = "failed"
       \/ /\ g.status = "answered" /\ g.page = Page(db[f.room], f.cursor).messages
          /\ g.next = Page(db[f.room], f.cursor).next

LEMMA ServedFetch ==
    ASSUME Typed, NEW f \in fetches, ServeMessages(f)
    PROVE  /\ \E g : ServedAs(f, g)
           /\ ui' = ui /\ down' = down /\ db' = db /\ calm' = calm
<1>0. f \in AnyFetch
  BY DEF Typed, FetchesType, FetchOf
<1>1. \A page, next : LET g == Answered(f, page, next) IN
        /\ g.kind = f.kind /\ g.room = f.room /\ g.request = f.request /\ g.cursor = f.cursor
        /\ g.status = "answered" /\ g.page = page /\ g.next = next
  BY <1>0 DEF AnyFetch, Answered
<1>2. LET g == Unanswered(f) IN
        /\ g.kind = f.kind /\ g.room = f.room /\ g.request = f.request /\ g.cursor = f.cursor
        /\ g.status = "failed"
  BY <1>0 DEF AnyFetch, Unanswered
<1>3. \/ fetches' = (fetches \ {f}) \union
                       {Answered(f, Page(db[f.room], f.cursor).messages, Page(db[f.room], f.cursor).next)}
      \/ fetches' = (fetches \ {f}) \union {Unanswered(f)}
  BY Zenon DEF ServeMessages, Answered, Unanswered
<1>4. \E g : ServedAs(f, g)
  BY <1>1, <1>2, <1>3 DEF ServedAs
<1>5. ui' = ui /\ down' = down /\ db' = db /\ calm' = calm
  BY DEF ServeMessages, server, history
<1> QED
  BY <1>4, <1>5

(* What a step makes of the requests for messages.                         *)
LEMMA AppliedFirst ==
    ASSUME Typed, NEW f \in fetches, ApplyFirst(f)
    PROVE  /\ f.kind = "first" /\ fetches' = fetches \ {f} /\ down' = down /\ db' = db
           /\ calm' = (calm /\ ~(f.request = ui.request /\ f.room = ui.room /\ f.status = "failed"))
           /\ EventSame(ui, ui') \/ (FirstNow(f) /\ f.room = ui.room)
           /\ \/ ui' = ui /\ ~(f.request = ui.request /\ f.room = ui.room)
              \/ /\ FirstNow(f) /\ f.room = ui.room /\ f.status \in {"answered", "failed"}
                 /\ ui'.room = ui.room /\ ui'.request = ui.request /\ ui'.older = ui.older /\ ~ui'.loading
                 /\ f.status = "answered" => ui'.shown = f.page /\ ui'.cursor = f.next
<1>0. ui \in AnyPage /\ f \in AnyFetch
  BY DEF Typed, PageOf, FetchesType, FetchOf
<1> QED
  BY <1>0 DEF ApplyFirst, AnyPage, AnyFetch, server, FirstNow, EventSame

LEMMA AppliedOlder ==
    ASSUME Typed, NEW f \in fetches, ApplyOlder(f)
    PROVE  /\ f.kind = "older" /\ fetches' = fetches \ {f} /\ down' = down /\ db' = db
           /\ calm' = (calm /\ (f.room # ui.room \/ f.request = ui.request))
           /\ \/ ui' = ui /\ f.room # ui.room
              \/ /\ f.room = ui.room /\ f.status \in {"answered", "failed"}
                 /\ ui'.room = ui.room /\ ui'.request = ui.request /\ ui'.loading = ui.loading
                 /\ f.status = "answered" =>
                       ui'.shown = Unshown(f.page) \o ui.shown /\ ui'.cursor = f.next
                 /\ f.status = "failed" => ui'.shown = ui.shown /\ ui'.cursor = ui.cursor
<1>0. ui \in AnyPage /\ f \in AnyFetch
  BY DEF Typed, PageOf, FetchesType, FetchOf
<1> QED
  BY <1>0 DEF ApplyOlder, AnyPage, AnyFetch, server

LEMMA FetchAlways == Spec => []FetchInv
<1>1. Init => FetchInv
  BY DEF Init, FetchInv
<1>2. ASSUME Typed, FetchInv, [Next]_vars PROVE FetchInv'
  <2>0. ui \in AnyPage /\ ui.request \in Nat /\ \A f \in fetches : f.request \in 1..ui.request /\ f \in AnyFetch
    BY <1>2 DEF Typed, PageOf, AnyPage, FetchesType, FetchOf
  <2>1. CASE SameView(ui, ui') /\ fetches' = fetches
    BY <1>2, <2>1 DEF SameView, EventSame, FetchInv, FirstNow
  <2>2. CASE HandleEvent
    <3>1. EventSame(ui, ui') /\ fetches' = fetches
      BY <1>2, <2>2, EventFlags, HandleFrame DEF EventText
    <3> QED
      BY <1>2, <3>1 DEF EventSame, FetchInv, FirstNow
  <2>3. ASSUME NEW r \in Rooms, EnterRoom(r) PROVE FetchInv'
    <3> DEFINE new == [kind |-> "first", room |-> r, request |-> NextRequest, cursor |-> 0,
                       status |-> "sent", page |-> <<>>, next |-> 0]
    <3>1. fetches' = fetches \union {new} /\ ui' = Fresh(r, NextRequest)
      BY <2>3 DEF EnterRoom
    <3>2. ui'.request = NextRequest /\ ui'.room = r /\ ui'.loading
      BY <3>1, PageAssumption DEF Fresh
    <3>3. new.room = r /\ new.cursor = 0
      OBVIOUS
    <3> HIDE DEF new
    <3>4. \A f \in fetches' : FirstNow(f)' => f = new
      BY <2>0, <3>1, <3>2 DEF FirstNow, NextRequest
    <3> QED
      BY <3>2, <3>3, <3>4 DEF FetchInv
  <2>4. CASE ApplyDeletion /\ ui' = Fresh(None, NextRequest) /\ fetches' = fetches
    <3>1. ui'.request = ui.request + 1
      BY <2>4 DEF Fresh, NextRequest
    <3> QED
      BY <2>0, <2>4, <3>1 DEF FetchInv, FirstNow
  <2>5. CASE LoadOlder
    <3>1. ui'.room = ui.room /\ ui'.request = ui.request /\ ui'.loading = ui.loading
      BY <2>0, <2>5 DEF LoadOlder, AnyPage
    <3>2. \A f \in fetches' : f \in fetches \/ f.kind = "older"
      BY <2>5 DEF LoadOlder
    <3> QED
      BY <1>2, <3>1, <3>2 DEF FetchInv, FirstNow
  <2>6. ASSUME NEW f \in fetches, ServeMessages(f) PROVE FetchInv'
    <3>1. PICK g : ServedAs(f, g)
      BY <1>2, <2>6, ServedFetch
    <3>2. ui' = ui
      BY <1>2, <2>6, ServedFetch
    <3> QED
      BY <1>2, <3>1, <3>2 DEF ServedAs, FetchInv, FirstNow
  <2>7. ASSUME NEW f \in fetches, ApplyFirst(f) PROVE FetchInv'
    BY <1>2, <2>7, AppliedFirst DEF FetchInv, FirstNow
  <2>8. ASSUME NEW f \in fetches, ApplyOlder(f) PROVE FetchInv'
    <3>1. ui'.room = ui.room /\ ui'.request = ui.request /\ ui'.loading = ui.loading
      BY <1>2, <2>8, AppliedOlder
    <3>2. fetches' = fetches \ {f}
      BY <1>2, <2>8, AppliedOlder
    <3> QED
      BY <1>2, <3>1, <3>2 DEF FetchInv, FirstNow
  <2> QED
    BY <1>2, <2>1, <2>2, <2>3, <2>4, <2>5, <2>6, <2>7, <2>8, ViewSteps
<1> QED
  BY <1>1, <1>2, TypedAlways, PTL DEF Spec

(* How a page fits after an event of the room has been handled.            *)
LEMMA FitsTail ==
    ASSUME NEW q \in Seq(AnyEvent), q # <<>>, NEW r, NEW n
    PROVE  /\ Renewed(q, r, n) /\ ~Updates(q[1], r, n) => Renewed(Tail(q), r, n)
           /\ Coming(q, r, n) /\ ~(Brings(q[1], r) /\ q[1].body.id = n) => Coming(Tail(q), r, n)
           /\ UpdatedAfter(q, r, n, 1) => Renewed(Tail(q), r, n)
<1> DEFINE u == Tail(q)
<1>1. /\ Len(q) \in Nat /\ Len(q) > 0 /\ Len(u) = Len(q) - 1
      /\ \A i \in 1..Len(q) : i # 1 => i - 1 \in 1..Len(u) /\ u[i - 1] = q[i]
  BY TailAt
<1> HIDE DEF u
<1>2. UpdatedAfter(q, r, n, 1) => Renewed(u, r, n)
  BY <1>1 DEF UpdatedAfter, Renewed
<1>3. Renewed(q, r, n) /\ ~Updates(q[1], r, n) => Renewed(u, r, n)
  BY <1>1 DEF Renewed
<1>4. Coming(q, r, n) /\ ~(Brings(q[1], r) /\ q[1].body.id = n) => Coming(u, r, n)
  BY <1>1 DEF Coming
<1> QED
  BY <1>2, <1>3, <1>4 DEF u

(* An event that says nothing of what is shown, or that brings a message   *)
(* the page has already.                                                   *)
LEMMA FitsUnchanged ==
    ASSUME NEW q \in Seq(AnyEvent), q # <<>>, NEW r, NEW s \in Seq(AnyMessage), NEW c \in Nat,
           NEW all \in Seq(AnyMessage), Fits(s, c, all, q, r),
           \A i \in 1..Len(s) : ~Updates(q[1], r, s[i].id),
           Brings(q[1], r) => \E i \in 1..Len(s) : s[i].id = q[1].body.id
    PROVE  Fits(s, c, all, Tail(q), r)
<1>0. Low(c) \in Nat /\ Len(s) \in Nat
  BY PageAssumption DEF Fits, Low
<1>1. ASSUME NEW i \in 1..Len(s)
      PROVE  s[i].id = Low(c) + i /\ (s[i] = all[Low(c) + i] \/ Renewed(Tail(q), r, Low(c) + i))
  BY <1>1, FitsTail DEF Fits
<1>2. ASSUME NEW n \in 1..Len(all), n > Low(c) + Len(s) PROVE Coming(Tail(q), r, n)
  <2>1. \A i \in 1..Len(s) : s[i].id # n
    BY <1>0, <1>2 DEF Fits
  <2> QED
    BY <1>2, <2>1, FitsTail DEF Fits
<1> QED
  BY <1>1, <1>2 DEF Fits

(* The next message of the room arrives.                                   *)
LEMMA FitsAppended ==
    ASSUME NEW q \in Seq(AnyEvent), q # <<>>, NEW r, NEW s \in Seq(AnyMessage), NEW c \in Nat,
           NEW all \in Seq(AnyMessage), Fits(s, c, all, q, r), Ordered(q, r), UpToDate(q, r, all),
           Brings(q[1], r), q[1].body \in AnyMessage, q[1].body.id \in 1..Len(all),
           \A i \in 1..Len(s) : s[i].id # q[1].body.id,
           s # <<>> => s[1].id <= q[1].body.id
    PROVE  Fits(Append(s, q[1].body), c, all, Tail(q), r)
<1> DEFINE m == q[1].body
           k == Low(c)
           h == k + Len(s)
           t == Append(s, m)
<1>0. Low(c) \in Nat /\ Len(s) \in Nat /\ Len(all) \in Nat /\ Len(q) \in Nat /\ Len(q) > 0
  BY PageAssumption, EmptySeq DEF Fits, Low
<1>1. /\ Len(t) = Len(s) + 1 /\ t[Len(s) + 1] = m /\ \A i \in 1..Len(s) : t[i] = s[i]
  BY AppendProperties
<1>2. m.id \in Nat /\ m.id > h
  <2>1. CASE s = <<>>
    <3>1. Len(s) = 0
      BY <2>1
    <3>2. c = 0
      BY <3>1, PageAssumption DEF Fits, Low
    <3> QED
      BY <1>0, <3>1, <3>2 DEF Low
  <2>2. CASE s # <<>>
    <3>1. Len(s) > 0 /\ 1 \in 1..Len(s)
      BY <2>2, <1>0
    <3>2. s[1].id = k + 1
      BY <3>1 DEF Fits
    <3>3. ~(m.id \in (k + 1)..h)
      <4>1. ASSUME m.id \in (k + 1)..h PROVE FALSE
        <5>1. m.id - k \in 1..Len(s)
          BY <1>0, <4>1
        <5>2. s[m.id - k].id = k + (m.id - k)
          BY <5>1 DEF Fits
        <5> QED
          BY <1>0, <4>1, <5>1, <5>2
      <4> QED
        BY <4>1
    <3> QED
      BY <1>0, <2>2, <3>2, <3>3
  <2> QED
    BY <2>1, <2>2
<1>3. m.id = h + 1
  <2>1. h + 1 \in 1..Len(all) /\ h + 1 > Low(c) + Len(s)
    BY <1>0, <1>2
  <2>2. PICK j \in 1..Len(q) : Brings(q[j], r) /\ q[j].body.id = h + 1
    BY <2>1 DEF Fits, Coming
  <2>3. ASSUME j # 1 PROVE m.id < h + 1
    <3>1. 1 \in 1..Len(q) /\ 1 < j
      BY <1>0, <2>3
    <3>2. q[1].body.id < q[j].body.id
      BY <2>2, <3>1 DEF Ordered
    <3> QED
      BY <2>2, <3>2
  <2> QED
    BY <1>0, <1>2, <2>2, <2>3
<1>4. m = all[m.id] \/ Renewed(Tail(q), r, m.id)
  <2>1. 1 \in 1..Len(q) /\ Carries(q[1]) /\ q[1].room = r
    BY <1>0 DEF Brings
  <2>2. m = all[m.id] \/ UpdatedAfter(q, r, m.id, 1)
    BY <2>1 DEF UpToDate
  <2> QED
    BY <2>2, FitsTail
<1>5. ASSUME NEW n PROVE ~Updates(q[1], r, n)
  BY DEF Brings, Updates
<1> HIDE DEF m, k, t
<1>6. ASSUME NEW i \in 1..Len(t) PROVE t[i].id = k + i /\ (t[i] = all[k + i] \/ Renewed(Tail(q), r, k + i))
  <2>1. CASE i \in 1..Len(s)
    BY <1>1, <1>5, <2>1, FitsTail DEF Fits, k
  <2>2. CASE i = Len(s) + 1
    <3>1. k + i = m.id
      BY <1>0, <1>3, <2>2 DEF k
    <3>2. t[i] = m
      BY <1>1, <2>2
    <3> QED
      BY <1>4, <3>1, <3>2 DEF k
  <2> QED
    BY <1>0, <1>1, <2>1, <2>2
<1>7. ASSUME NEW n \in 1..Len(all), n > k + Len(t) PROVE Coming(Tail(q), r, n)
  <2>1. n > Low(c) + Len(s) /\ q[1].body.id # n
    BY <1>0, <1>1, <1>3, <1>7 DEF k, m
  <2> QED
    BY <2>1, FitsTail DEF Fits
<1>8. /\ c # 0 => c > PageSize /\ c <= k + Len(t)
      /\ k + Len(t) <= Len(all)
  BY <1>0, <1>1, <1>2, <1>3, PageAssumption DEF Fits, k, m
<1> QED
  BY <1>6, <1>7, <1>8 DEF Fits, k, t, m

(* A message that is shown gets its new status.                            *)
LEMMA FitsRefreshed ==
    ASSUME NEW q \in Seq(AnyEvent), q # <<>>, NEW r, NEW s \in Seq(AnyMessage), NEW c \in Nat,
           NEW all \in Seq(AnyMessage), Fits(s, c, all, q, r), UpToDate(q, r, all),
           NEW m \in AnyMessage, m = q[1].body, Updates(q[1], r, m.id)
    PROVE  Fits(Refreshed(s, m), c, all, Tail(q), r)
<1> DEFINE t == Refreshed(s, m)
<1>0. Low(c) \in Nat /\ Len(s) \in Nat /\ Len(all) \in Nat /\ Len(q) \in Nat /\ Len(q) > 0
  BY PageAssumption, EmptySeq DEF Fits, Low
<1>1. Len(t) = Len(s) /\ \A i \in 1..Len(s) : t[i] = IF s[i].id = m.id THEN m ELSE s[i]
  BY DEF Refreshed
<1>2. m = all[m.id] \/ Renewed(Tail(q), r, m.id)
  <2>1. 1 \in 1..Len(q) /\ Carries(q[1]) /\ q[1].room = r
    BY <1>0 DEF Updates, Carries
  <2>2. m = all[m.id] \/ UpdatedAfter(q, r, m.id, 1)
    BY <2>1 DEF UpToDate
  <2> QED
    BY <2>2, FitsTail
<1>3. \A n : n # m.id => ~Updates(q[1], r, n)
  BY DEF Updates
<1>4. ~Brings(q[1], r)
  BY DEF Brings, Updates
<1> HIDE DEF t
<1>5. ASSUME NEW i \in 1..Len(t)
      PROVE  t[i].id = Low(c) + i /\ (t[i] = all[Low(c) + i] \/ Renewed(Tail(q), r, Low(c) + i))
  <2>1. s[i].id = Low(c) + i /\ (s[i] = all[Low(c) + i] \/ Renewed(q, r, Low(c) + i)) /\ i \in 1..Len(s)
    BY <1>1 DEF Fits
  <2>2. CASE s[i].id = m.id
    BY <1>1, <1>2, <2>1, <2>2
  <2>3. CASE s[i].id # m.id
    BY <1>1, <1>3, <2>1, <2>3, FitsTail
  <2> QED
    BY <2>2, <2>3
<1>6. ASSUME NEW n \in 1..Len(all), n > Low(c) + Len(t) PROVE Coming(Tail(q), r, n)
  BY <1>1, <1>4, <1>6, FitsTail DEF Fits
<1> QED
  BY <1>1, <1>5, <1>6 DEF Fits, t

(* What a step publishes keeps a page fitting.                             *)
LEMMA FitsPublished ==
    ASSUME Typed, NEW r \in Rooms, Len(db'[r]) \in Nat, Len(db[r]) <= Len(db'[r]),
           NEW t \in Seq(AnyEvent), Covers(t, r)
    PROVE  /\ \A n : Renewed(down, r, n) => Renewed(down \o t, r, n)
           /\ \A n \in 1..Len(db[r]) : db'[r][n] = db[r][n] \/ Renewed(down \o t, r, n)
           /\ \A s \in Seq(AnyMessage), c \in Nat :
                 Fits(s, c, db[r], down, r) => Fits(s, c, db'[r], down \o t, r)
<1> DEFINE u == down \o t
<1>0. down \in Seq(AnyEvent) /\ Len(db[r]) \in Nat
  BY RunTypes DEF Typed, DownType
<1>1. /\ Len(down) \in Nat /\ Len(t) \in Nat /\ Len(u) = Len(down) + Len(t)
      /\ \A i \in 1..Len(down) : i \in 1..Len(u) /\ u[i] = down[i]
      /\ \A j \in 1..Len(t) : Len(down) + j \in 1..Len(u) /\ u[Len(down) + j] = t[j]
  BY <1>0, ConcatAt
<1> HIDE DEF u
<1>2. \A n : /\ Renewed(down, r, n) \/ Renewed(t, r, n) => Renewed(u, r, n)
             /\ Coming(down, r, n) \/ Coming(t, r, n) => Coming(u, r, n)
  BY <1>1 DEF Renewed, Coming
<1>3. \A n \in 1..Len(db[r]) : db'[r][n] = db[r][n] \/ Renewed(u, r, n)
  BY <1>2 DEF Covers, Renewed
<1>4. ASSUME NEW s \in Seq(AnyMessage), NEW c \in Nat, Fits(s, c, db[r], down, r)
      PROVE  Fits(s, c, db'[r], u, r)
  <2>0. Low(c) \in Nat /\ Len(s) \in Nat
    BY <1>4, PageAssumption DEF Fits, Low
  <2>1. ASSUME NEW i \in 1..Len(s)
        PROVE  s[i].id = Low(c) + i /\ (s[i] = db'[r][Low(c) + i] \/ Renewed(u, r, Low(c) + i))
    <3>1. Low(c) + i \in 1..Len(db[r])
      BY <1>0, <1>4, <2>0 DEF Fits
    <3>2. s[i].id = Low(c) + i /\ (s[i] = db[r][Low(c) + i] \/ Renewed(down, r, Low(c) + i))
      BY <1>4 DEF Fits
    <3> QED
      BY <1>2, <1>3, <3>1, <3>2
  <2>2. ASSUME NEW n \in 1..Len(db'[r]), n > Low(c) + Len(s) PROVE Coming(u, r, n)
    <3>1. CASE n \in 1..Len(db[r])
      BY <1>2, <1>4, <2>2, <3>1 DEF Fits
    <3>2. CASE n \notin 1..Len(db[r])
      BY <1>2, <3>2 DEF Covers, Coming
    <3> QED
      BY <3>1, <3>2
  <2> QED
    BY <1>0, <1>4, <2>0, <2>1, <2>2 DEF Fits
<1> QED
  BY <1>2, <1>3, <1>4 DEF u

(* The pages that are served.                                              *)
LEMMA PageElements ==
    ASSUME Typed, NEW r \in Rooms, NEW c \in 0..Len(db[r])
    PROVE  LET p     == Page(db[r], c)
               last  == IF c = 0 THEN Len(db[r]) ELSE c - 1
               first == IF last > PageSize THEN last - PageSize + 1 ELSE 1
           IN  /\ Len(p.messages) = last - first + 1 /\ last <= Len(db[r])
               /\ \A i \in 1..Len(p.messages) : /\ p.messages[i] = db[r][first + i - 1]
                                                /\ p.messages[i].id = first + i - 1
               /\ p.next = IF last > PageSize THEN last ELSE 0
<1> DEFINE last  == IF c = 0 THEN Len(db[r]) ELSE c - 1
           first == IF last > PageSize THEN last - PageSize + 1 ELSE 1
<1>1. /\ db[r] \in Seq(AnyMessage) /\ Len(db[r]) \in Nat
      /\ \A n \in 1..Len(db[r]) : db[r][n] \in AnyMessage /\ db[r][n].id = n
  BY DEF Typed, DbType
<1>2. last \in 0..Len(db[r]) /\ first \in 1..(last + 1)
  BY <1>1, PageAssumption
<1>3. /\ Page(db[r], c).messages = SubSeq(db[r], first, last)
      /\ Page(db[r], c).next = IF last > PageSize THEN last ELSE 0
  BY DEF Page
<1> HIDE DEF last, first
<1>4. /\ Len(SubSeq(db[r], first, last)) = last - first + 1
      /\ \A i \in 1..(last - first + 1) : SubSeq(db[r], first, last)[i] = db[r][first + i - 1]
  <2>1. \A i \in first..last : db[r][i] \in AnyMessage
    BY <1>1, <1>2
  <2>2. /\ Len(SubSeq(db[r], first, last)) = IF first <= last THEN last - first + 1 ELSE 0
        /\ \A i \in 1..(last - first + 1) : SubSeq(db[r], first, last)[i] = db[r][first + i - 1]
    BY <1>1, <1>2, <2>1, SubSeqProperties
  <2> QED
    BY <1>1, <1>2, <2>2
<1>5. ASSUME NEW i \in 1..(last - first + 1) PROVE db[r][first + i - 1].id = first + i - 1
  <2>1. first + i - 1 \in 1..Len(db[r])
    BY <1>1, <1>2
  <2> QED
    BY <1>1, <2>1
<1>6. last <= Len(db[r])
  BY <1>1, <1>2
<1> QED
  BY <1>3, <1>4, <1>5, <1>6 DEF last, first

LEMMA FirstFits ==
    ASSUME Typed, NEW r \in Rooms
    PROVE  Fits(Page(db[r], 0).messages, Page(db[r], 0).next, db[r], <<>>, r)
<1> DEFINE s == Page(db[r], 0).messages
           c == Page(db[r], 0).next
           L == Len(db[r])
           first == IF L > PageSize THEN L - PageSize + 1 ELSE 1
<1>1. L \in Nat /\ 0 \in 0..L
  BY RunTypes
<1>2. /\ Len(s) = L - first + 1
      /\ \A i \in 1..Len(s) : s[i] = db[r][first + i - 1] /\ s[i].id = first + i - 1
      /\ c = IF L > PageSize THEN L ELSE 0
  BY <1>1, PageElements
<1> HIDE DEF s, c
<1>3. Low(c) = first - 1 /\ Low(c) \in Nat /\ Low(c) + Len(s) = L
  <2>0. PageSize \in Nat /\ PageSize > 0
    BY PageAssumption
  <2>1. CASE L > PageSize
    <3>1. c = L /\ c # 0 /\ first = L - PageSize + 1
      BY <1>1, <1>2, <2>0, <2>1
    <3>2. Low(c) = L - PageSize
      BY <3>1 DEF Low
    <3>3. Len(s) = L - first + 1
      BY <1>2
    <3> HIDE DEF first, L
    <3> QED
      BY <1>1, <2>0, <2>1, <3>1, <3>2, <3>3
  <2>2. CASE ~(L > PageSize)
    <3>1. c = 0 /\ first = 1
      BY <1>2, <2>2
    <3>2. Low(c) = 0
      BY <3>1 DEF Low
    <3> QED
      BY <1>1, <1>2, <3>1, <3>2
  <2> QED
    BY <2>1, <2>2
<1>4. ASSUME NEW i \in 1..Len(s) PROVE s[i].id = Low(c) + i /\ s[i] = db[r][Low(c) + i]
  <2>1. first + i - 1 = Low(c) + i
    BY <1>1, <1>2, <1>3, PageAssumption
  <2> QED
    BY <1>2, <2>1
<1>5. c # 0 => c > PageSize /\ c <= Low(c) + Len(s)
  BY <1>1, <1>2, <1>3
<1>6. \A n \in 1..L : ~(n > Low(c) + Len(s))
  BY <1>1, <1>3
<1> QED
  BY <1>1, <1>3, <1>4, <1>5, <1>6 DEF Fits, s, c

LEMMA OlderFitsBefore ==
    ASSUME Typed, NEW r \in Rooms, NEW s \in Seq(AnyMessage), NEW c \in Nat, c # 0,
           Fits(s, c, db[r], down, r)
    PROVE  FitsBefore(Page(db[r], c).messages, Page(db[r], c).next, c, db[r], down, r)
<1> DEFINE p == Page(db[r], c).messages
           next == Page(db[r], c).next
           last == c - 1
           first == IF last > PageSize THEN last - PageSize + 1 ELSE 1
<1>1. Len(db[r]) \in Nat /\ c \in 0..Len(db[r]) /\ c > PageSize
  BY RunTypes, PageAssumption DEF Fits, Low
<1>2. /\ Len(p) = last - first + 1
      /\ \A i \in 1..Len(p) : p[i] = db[r][first + i - 1] /\ p[i].id = first + i - 1
      /\ next = IF last > PageSize THEN last ELSE 0
  BY <1>1, PageElements
<1> HIDE DEF p, next
<1>3. first = Low(c) /\ Len(p) = PageSize /\ first \in Nat
  <2>1. PageSize \in Nat \ {0}
    BY PageAssumption
  <2>2. Low(c) = c - PageSize
    BY DEF Low
  <2>3. first = c - PageSize
    BY <1>1, <2>1
  <2> QED
    BY <1>1, <1>2, <2>1, <2>2, <2>3
<1>4. 1 \in 1..Len(p) /\ first + 1 - 1 = first
  BY <1>3, PageAssumption
<1>5. p[1] = db[r][Low(c)]
  BY <1>2, <1>3, <1>4
<1> QED
  BY <1>2, <1>3, <1>5 DEF FitsBefore, p, next

(* An older page puts the one message before those shown in front of them. *)
LEMMA OlderApplied ==
    ASSUME Typed, NEW page \in Seq(AnyMessage), NEW next \in Nat, ui.cursor # 0,
           NEW all, Fits(ui.shown, ui.cursor, all, down, ui.room),
           FitsBefore(page, next, ui.cursor, all, down, ui.room)
    PROVE  Fits(Unshown(page) \o ui.shown, next, all, down, ui.room)
<1> DEFINE s == ui.shown
           c == ui.cursor
           k == Low(c)
           P == Places(page)
           u == Unshown(page)
           t == u \o s
<1>1. s \in Seq(AnyMessage) /\ Len(s) \in Nat /\ c \in Nat
  BY DEF Typed, PageOf, AnyPage
<1>2. c > PageSize /\ k = c - PageSize /\ k \in Nat /\ k > 0 /\ c <= k + Len(s) /\ PageSize \in Nat \ {0}
  BY <1>1, PageAssumption DEF Fits, Low
<1>3. Len(page) = PageSize /\ \A i \in 1..Len(page) : page[i].id = k + i - 1
  BY DEF FitsBefore
<1>a. \A i \in 1..Len(s) : s[i].id = k + i
  BY DEF Fits
<1>b. next = IF c - 1 > PageSize THEN c - 1 ELSE 0
  BY DEF FitsBefore
<1>c. Ids = {s[i].id : i \in 1..Len(s)}
  BY <1>1 DEF Ids
<1> HIDE DEF s, c, k
<1>4. P = {1}
  <2>1. 1 \in 1..Len(page) /\ page[1].id = k
    BY <1>2, <1>3
  <2>2. \A i \in 1..Len(s) : s[i].id # k
    BY <1>1, <1>2, <1>a
  <2>3. k \notin Ids
    BY <2>2, <1>c
  <2>4. ASSUME NEW i \in 1..Len(page), i # 1 PROVE page[i].id \in Ids
    <3>1. i - 1 \in 1..Len(s)
      BY <1>1, <1>2, <1>3, <2>4
    <3>2. s[i - 1].id = k + (i - 1)
      BY <3>1, <1>a
    <3>3. page[i].id = s[i - 1].id
      BY <1>2, <1>3, <2>4, <3>1, <3>2
    <3> QED
      BY <1>c, <3>1, <3>3
  <2>5. DOMAIN page = 1..Len(page)
    OBVIOUS
  <2> QED
    BY <2>1, <2>3, <2>4, <2>5 DEF Places
<1>5. u \in Seq(AnyMessage) /\ Len(u) = 1 /\ u[1] = page[1]
  <2>1. Cardinality(P) = 1
    BY <1>4, FS_Singleton
  <2>2. /\ u \in Seq(AnyMessage) /\ Len(u) = Cardinality(P)
        /\ \A i \in 1..Len(u) : \E j \in P : u[i] = page[j]
    BY UnshownElements
  <2>3. 1 \in 1..Len(u)
    BY <2>1, <2>2
  <2> QED
    BY <1>4, <2>1, <2>2, <2>3
<1> HIDE DEF u
<1>6. /\ Len(t) = Len(s) + 1 /\ t[1] = page[1]
      /\ \A i \in 1..Len(s) : t[i + 1] = s[i]
  <2>0. /\ Len(t) = Len(u) + Len(s)
        /\ \A i \in 1..(Len(u) + Len(s)) : t[i] = IF i <= Len(u) THEN u[i] ELSE s[i - Len(u)]
    BY <1>1, <1>5, ConcatProperties
  <2> HIDE DEF t
  <2>1. Len(t) = 1 + Len(s) /\ \A i \in 1..(1 + Len(s)) : t[i] = IF i <= 1 THEN u[i] ELSE s[i - 1]
    BY <1>1, <1>5, <2>0
  <2>2. \A i \in 1..Len(s) : i + 1 \in 1..(1 + Len(s)) /\ ~(i + 1 <= 1) /\ (i + 1) - 1 = i
    BY <1>1
  <2> QED
    BY <1>1, <1>5, <2>1, <2>2
<1> HIDE DEF t, P
<1>7. /\ Low(next) = k - 1 /\ k - 1 \in Nat
      /\ next # 0 => next > PageSize /\ next < c
  <2>1. CASE c - 1 > PageSize
    BY <1>1, <1>2, <1>b, <2>1 DEF Low
  <2>2. CASE ~(c - 1 > PageSize)
    <3>1. c = PageSize + 1 /\ next = 0
      BY <1>1, <1>2, <1>b, <2>2
    <3> QED
      BY <1>2, <3>1 DEF Low
  <2> QED
    BY <2>1, <2>2
<1>8. ASSUME NEW i \in 1..Len(t)
      PROVE  /\ t[i].id = Low(next) + i
             /\ t[i] = all[Low(next) + i] \/ Renewed(down, ui.room, Low(next) + i)
  <2>1. CASE i = 1
    <3>1. t[i] = page[1] /\ Low(next) + i = k
      BY <1>2, <1>6, <1>7, <2>1
    <3>2. page[1].id = k
      <4>1. 1 \in 1..Len(page) /\ k + 1 - 1 = k
        BY <1>2, <1>3
      <4> QED
        BY <1>3, <4>1
    <3>3. page[1] = all[k] \/ Renewed(down, ui.room, k)
      BY DEF FitsBefore, k, c
    <3> QED
      BY <3>1, <3>2, <3>3
  <2>2. CASE i # 1
    <3>1. i - 1 \in 1..Len(s) /\ t[i] = s[i - 1] /\ Low(next) + i = k + (i - 1)
      <4>1. i - 1 \in 1..Len(s) /\ (i - 1) + 1 = i
        BY <1>1, <1>6, <2>2
      <4>2. t[i] = s[i - 1]
        BY <1>6, <4>1
      <4>3. Low(next) + i = k + (i - 1)
        BY <1>2, <1>7
      <4> QED
        BY <4>1, <4>2, <4>3
    <3>2. s[i - 1].id = k + (i - 1) /\ (s[i - 1] = all[k + (i - 1)] \/ Renewed(down, ui.room, k + (i - 1)))
      BY <3>1 DEF Fits, s, c, k
    <3> QED
      BY <3>1, <3>2
  <2> QED
    BY <2>1, <2>2
<1>9. Low(next) + Len(t) = k + Len(s)
  BY <1>1, <1>2, <1>6, <1>7
<1>10. /\ k + Len(s) <= Len(all)
       /\ \A n \in 1..Len(all) : n > k + Len(s) => Coming(down, ui.room, n)
  BY DEF Fits, s, c, k
<1>11. next # 0 => next > PageSize /\ next <= Low(next) + Len(t)
  BY <1>1, <1>2, <1>7, <1>9
<1> QED
  BY <1>8, <1>9, <1>10, <1>11 DEF Fits, t, u, s

(* What the handling of an event makes of what is shown.                   *)
LEMMA EventView ==
    ASSUME Typed, HandleEvent
    PROVE  LET e == Event
               r == ui.room
           IN
           \/ /\ ui'.shown = ui.shown
              /\ ~(Carries(e) /\ e.room = r) \/ (Brings(e, r) /\ e.body.id \in Ids)
           \/ /\ Brings(e, r) /\ e.body.id \notin Ids
              /\ ui'.shown = Append(ui.shown, e.body) /\ (calm' => ~Behind(e.body))
           \/ Updates(e, r, e.body.id) /\ e.body.id \in Ids /\ ui'.shown = Refreshed(ui.shown, e.body)
           \/ calm' => ui.loading
<1>0. ui \in AnyPage
  BY DEF Typed, PageOf
<1>1. ASSUME NEW p \in AnyPage, NEW m, p.shown = ui.shown
      PROVE  Appended(p, m).shown = IF m.id \in Ids THEN ui.shown ELSE Append(ui.shown, m)
  BY <1>1 DEF Appended, AnyPage
<1>2. CASE HandleMessageCreated
  <2>1. Event.type = "message_created" /\ calm' = (calm /\ ~(Here /\ Behind(Event.body)))
        /\ ui' = IF Here THEN Appended(ui, Event.body) ELSE ui
    BY <1>2 DEF HandleMessageCreated, Incoming, Event
  <2>2. Here => Brings(Event, ui.room)
    BY <2>1 DEF Here, Brings, Carries
  <2> QED
    BY <1>0, <1>1, <2>1, <2>2 DEF Here
<1>3. CASE HandleMessageUpdated
  <2>1. Event.type = "message_updated"
    BY <1>3 DEF HandleMessageUpdated, Incoming, Event
  <2>2. CASE ~Here
    BY <1>3, <2>2 DEF HandleMessageUpdated, Here
  <2>3. CASE Here /\ Event.body.id \in Ids
    <3>1. ui'.shown = Refreshed(ui.shown, Event.body)
      BY <1>0, <1>3, <2>3 DEF HandleMessageUpdated, Refreshed, AnyPage
    <3> QED
      BY <2>1, <2>3, <3>1 DEF Updates, Here
  <2>4. CASE Here /\ Event.body.id \notin Ids
    BY <1>3, <2>4 DEF HandleMessageUpdated
  <2> QED
    BY <2>2, <2>3, <2>4
<1>4. CASE HandleEnd
  <2> DEFINE x == [Quieted(ui) EXCEPT !.card = None]
  <2>1. x \in AnyPage /\ x.shown = ui.shown
    BY <1>0, QuietedFlags
  <2>2. /\ ui' = IF ~Here THEN ui ELSE IF Event.body = None THEN x ELSE Appended(x, Event.body)
        /\ calm' = (calm /\ ~(Here /\ Event.body # None /\ Behind(Event.body)))
    BY <1>4 DEF HandleEnd
  <2>3. Here => (Carries(Event) <=> Event.body # None) /\ (Event.body # None => Brings(Event, ui.room))
    BY <1>4 DEF HandleEnd, Incoming, Event, Here, Brings, Carries, Ends
  <2> HIDE DEF x
  <2>4. CASE ~Here
    BY <2>2, <2>4 DEF Here
  <2>5. CASE Here /\ Event.body = None
    BY <2>1, <2>2, <2>3, <2>5
  <2>6. CASE Here /\ Event.body # None
    <3>1. ui' = Appended(x, Event.body) /\ (calm' => ~Behind(Event.body)) /\ Brings(Event, ui.room)
      BY <2>2, <2>3, <2>6
    <3>2. ui'.shown = IF Event.body.id \in Ids THEN ui.shown ELSE Append(ui.shown, Event.body)
      BY <1>1, <2>1, <3>1
    <3> QED
      BY <3>1, <3>2
  <2> QED
    BY <2>4, <2>5, <2>6
<1>5. CASE HandleStarted \/ HandleDelta \/ HandleApprovalRequired \/ HandleApprovalResolved \/ HandleChatError
  <2>1. ui'.shown = ui.shown
    BY <1>0, <1>5 DEF HandleStarted, HandleDelta, HandleApprovalRequired, HandleApprovalResolved,
       HandleChatError, Quieted, AnyPage
  <2>2. ~Carries(Event)
    BY <1>5 DEF HandleStarted, HandleDelta, HandleApprovalRequired, HandleApprovalResolved,
       HandleChatError, Incoming, Event, Carries, Ends
  <2> QED
    BY <2>1, <2>2
<1> QED
  BY <1>2, <1>3, <1>4, <1>5 DEF HandleEvent

LEMMA FitsHandled ==
    ASSUME Typed, EventInv, HandleEvent, calm, calm', ~ui.loading, ui.room \in Rooms,
           Fits(ui.shown, ui.cursor, db[ui.room], down, ui.room)
    PROVE  /\ Fits(ui'.shown, ui.cursor, db[ui.room], Tail(down), ui.room)
           /\ \A n : ~(\E i \in 1..Len(ui.shown) : ui.shown[i].id = n) /\ Renewed(down, ui.room, n)
                 => Renewed(Tail(down), ui.room, n)
<1> DEFINE s == ui.shown
           c == ui.cursor
           r == ui.room
           all == db[r]
           e == Event
<1>1. /\ s \in Seq(AnyMessage) /\ c \in Nat /\ all \in Seq(AnyMessage) /\ down \in Seq(AnyEvent)
      /\ Len(s) \in Nat /\ Ids = {s[i].id : i \in 1..Len(s)}
  <2>1. s \in Seq(AnyMessage) /\ c \in Nat
    BY DEF Typed, PageOf, AnyPage
  <2>2. all \in Seq(AnyMessage) /\ down \in Seq(AnyEvent)
    BY DEF Typed, DbType, DownType
  <2> QED
    BY <2>1, <2>2 DEF Ids
<1>2. down # <<>> /\ Event = down[1] /\ EventOf(db, e)
  BY HandleFrame, EventType
<1>3. Ordered(down, r) /\ UpToDate(down, r, all)
  BY DEF EventInv
<1>4. Carries(e) /\ e.room = r => e.body \in AnyMessage /\ e.body.id \in 1..Len(all)
  BY <1>2 DEF EventOf, MessageOf
<1>5. Fits(s, c, all, down, r)
  OBVIOUS
<1>6. \/ ui'.shown = s /\ (~(Carries(e) /\ e.room = r) \/ (Brings(e, r) /\ e.body.id \in Ids))
      \/ /\ Brings(e, r) /\ e.body.id \notin Ids
         /\ ui'.shown = Append(s, e.body) /\ ~Behind(e.body)
      \/ Updates(e, r, e.body.id) /\ e.body.id \in Ids /\ ui'.shown = Refreshed(s, e.body)
  BY EventView
<1>7. s # <<>> => Head(s) = s[1]
  BY <1>1
<1>8. \A m : ~Behind(m) => (s # <<>> => ~(m.id < s[1].id))
  BY <1>7 DEF Behind
<1> HIDE DEF s, c, all, e, r
<1>9. CASE ui'.shown = s /\ (~(Carries(e) /\ e.room = r) \/ (Brings(e, r) /\ e.body.id \in Ids))
  <2>1. \A n : ~Updates(e, r, n)
    BY <1>9 DEF Updates, Brings, Carries
  <2>2. Brings(e, r) => \E i \in 1..Len(s) : s[i].id = e.body.id
    BY <1>1, <1>9 DEF Brings
  <2>3. Fits(s, c, all, Tail(down), r)
    BY <1>1, <1>2, <1>5, <2>1, <2>2, FitsUnchanged DEF e
  <2> QED
    BY <1>1, <1>2, <1>9, <2>1, <2>3, FitsTail DEF s, c, all, e, r
<1>10. CASE Brings(e, r) /\ e.body.id \notin Ids /\ ui'.shown = Append(s, e.body) /\ ~Behind(e.body)
  <2>1. \A n : ~Updates(e, r, n)
    BY <1>10 DEF Updates, Brings
  <2>2. e.body \in AnyMessage /\ e.body.id \in 1..Len(all)
    BY <1>4, <1>10 DEF Brings
  <2>3. \A i \in 1..Len(s) : s[i].id # e.body.id
    BY <1>1, <1>10
  <2>4. s # <<>> => s[1].id <= e.body.id
    <3>1. s # <<>> => s[1].id \in Nat
      <4>1. s # <<>> => s[1] \in AnyMessage
        BY <1>1
      <4> QED
        BY <4>1 DEF AnyMessage
    <3>2. e.body.id \in Nat
      BY <1>1, <2>2
    <3> QED
      BY <1>8, <1>10, <3>1, <3>2
  <2>5. Fits(Append(s, e.body), c, all, Tail(down), r)
    BY <1>1, <1>2, <1>3, <1>5, <1>10, <2>2, <2>3, <2>4, FitsAppended DEF e
  <2> QED
    BY <1>1, <1>2, <1>10, <2>1, <2>5, FitsTail DEF s, c, all, e, r
<1>11. CASE Updates(e, r, e.body.id) /\ e.body.id \in Ids /\ ui'.shown = Refreshed(s, e.body)
  <2>1. e.body \in AnyMessage
    BY <1>4, <1>11 DEF Updates, Carries
  <2>2. Fits(Refreshed(s, e.body), c, all, Tail(down), r)
    BY <1>1, <1>2, <1>3, <1>5, <1>11, <2>1, FitsRefreshed DEF e
  <2>3. \A n : ~(\E i \in 1..Len(s) : s[i].id = n) => ~Updates(e, r, n)
    BY <1>1, <1>11 DEF Updates
  <2> QED
    BY <1>1, <1>2, <1>11, <2>2, <2>3, FitsTail DEF s, c, all, e, r
<1> QED
  BY <1>6, <1>9, <1>10, <1>11

(* A change of the messages leaves no page that was read and not applied.  *)
LEMMA ChangedWhileRead ==
    ASSUME FetchInv, calm', Changed(ui.room), NEW f \in fetches, FirstNow(f), f.status # "sent"
    PROVE  FALSE
<1>1. f.room = ui.room /\ \A g \in fetches : FirstNow(g) => g = f
  BY DEF FetchInv
<1>2. PageRead(ui.room)
  BY <1>1 DEF PageRead, FirstNow
<1>3. ~PageShown(ui.room)
  BY <1>1 DEF PageShown, FirstNow
<1> QED
  BY <1>2, <1>3 DEF Changed

LEMMA ChangedWhileShown ==
    ASSUME FetchInv, calm', Changed(ui.room), ~ui.loading
    PROVE  ui.room \in joined
<1>1. PageRead(ui.room)
  BY DEF PageRead, FetchInv, FirstNow
<1> QED
  BY <1>1 DEF Changed, PageShown

LEMMA MessagesNext ==
    ASSUME Typed, FetchInv, EventInv, MessagesInv, [Next]_vars
    PROVE  MessagesInv'
<1> SUFFICES ASSUME calm', ui'.room # None
             PROVE  /\ ~ui'.loading => Fits(ui'.shown, ui'.cursor, db'[ui'.room], down', ui'.room)
                    /\ \A f \in fetches' : FirstNow(f)' /\ f.status = "answered" =>
                          Fits(f.page, f.next, db'[ui'.room], <<>>, ui'.room)
                    /\ \A f \in fetches' : OlderNow(f)' => OlderFits(f)'
  BY DEF MessagesInv
<1>0. /\ ui \in AnyPage /\ ui.request \in Nat /\ ui.room \in Rooms \union {None}
      /\ ui.shown \in Seq(AnyMessage) /\ ui.cursor \in Nat
      /\ \A f \in fetches : f.request \in 1..ui.request /\ f \in AnyFetch
  BY DEF Typed, PageOf, AnyPage, FetchesType, FetchOf
<1>1. ASSUME NEW r \in Rooms, EnterRoom(r)
      PROVE  /\ ui'.loading
             /\ \A f \in fetches' : (FirstNow(f)' => f.status # "answered") /\ ~OlderNow(f)'
  <2> DEFINE new == [kind |-> "first", room |-> r, request |-> NextRequest, cursor |-> 0,
                     status |-> "sent", page |-> <<>>, next |-> 0]
  <2>1. fetches' = fetches \union {new} /\ ui' = Fresh(r, NextRequest)
    BY <1>1 DEF EnterRoom
  <2>2. ui'.request = ui.request + 1 /\ ui'.loading
    BY <2>1, PageAssumption DEF Fresh, NextRequest
  <2>3. new.kind = "first" /\ new.status = "sent"
    OBVIOUS
  <2> HIDE DEF new
  <2>4. \A f \in fetches' : f.request = ui'.request => f = new
    BY <1>0, <2>1, <2>2
  <2> QED
    BY <2>2, <2>3, <2>4 DEF FirstNow, OlderNow
<1>2. CASE \E r \in Rooms : EnterRoom(r)
  BY <1>1, <1>2
<1>3. CASE ui'.room = ui.room /\ ui'.request = ui.request /\ calm
  <2> DEFINE r == ui.room
  <2>0. /\ r \in Rooms /\ ui'.room = r /\ r # None
        /\ ~ui.loading => Fits(ui.shown, ui.cursor, db[r], down, r)
        /\ \A f \in fetches : FirstNow(f) /\ f.status = "answered" => Fits(f.page, f.next, db[r], <<>>, r)
        /\ \A f \in fetches : OlderNow(f) => OlderFits(f)
        /\ \A f : (FirstNow(f)' <=> FirstNow(f)) /\ (OlderNow(f)' <=> OlderNow(f))
    BY <1>0, <1>3 DEF MessagesInv, FirstNow, OlderNow
  <2> HIDE DEF r
  <2>1. CASE HandleEvent
    <3>1. EventSame(ui, ui') /\ fetches' = fetches /\ db' = db /\ down' = Tail(down)
      BY <2>1, EventFlags, HandleFrame DEF EventText, server
    <3>2. ~ui.loading =>
             /\ Fits(ui'.shown, ui.cursor, db[r], Tail(down), r)
             /\ \A n : ~(\E i \in 1..Len(ui.shown) : ui.shown[i].id = n) /\ Renewed(down, r, n)
                   => Renewed(Tail(down), r, n)
      BY <1>3, <2>0, <2>1, FitsHandled DEF r
    <3>3. ASSUME NEW f \in fetches, OlderNow(f) PROVE OlderFits(f)'
      <4>1. OlderFits(f) /\ ~ui.loading /\ ui.cursor # 0
        BY <2>0, <3>3 DEF OlderFits
      <4>2. ASSUME NEW i \in 1..Len(ui.shown) PROVE ui.shown[i].id # Low(ui.cursor)
        <5>1. ui.shown[i].id = Low(ui.cursor) + i /\ Low(ui.cursor) \in Nat
          BY <1>0, <2>0, <4>1, PageAssumption DEF Fits, Low
        <5> QED
          BY <5>1
      <4>3. Renewed(down, r, Low(ui.cursor)) => Renewed(Tail(down), r, Low(ui.cursor))
        BY <3>2, <4>1, <4>2
      <4>4. FitsBefore(f.page, f.next, f.cursor, db[r], down, r) /\ f.cursor = ui.cursor
            => FitsBefore(f.page, f.next, f.cursor, db[r], Tail(down), r)
        BY <4>3 DEF FitsBefore
      <4> QED
        BY <2>0, <3>1, <4>1, <4>4 DEF OlderFits, EventSame, r
    <3> QED
      BY <2>0, <3>1, <3>2, <3>3 DEF EventSame
  <2>2. CASE SameView(ui, ui') /\ fetches' = fetches /\ ~HandleEvent
    <3>0. ~Disconnect
      BY DEF Disconnect
    <3>1. PICK t \in Seq(AnyEvent) : down' = down \o t /\ Publishes(t, r)
      BY <2>0, <2>2, <3>0, PublishSteps
    <3>2. Len(db'[r]) \in Nat /\ Len(db[r]) <= Len(db'[r])
      BY <2>0, DbNext DEF Typed, Longer, DbType
    <3>3. ~ui.loading => Covers(t, r)
      <4>1. db'[r] = db[r] => Covers(<<>>, r)
        BY DEF Covers
      <4> QED
        BY <3>1, <4>1, ChangedWhileShown DEF Publishes, r
    <3>4. ASSUME NEW f \in fetches, FirstNow(f), f.status = "answered" PROVE db'[r] = db[r]
      BY <3>1, <3>4, ChangedWhileRead DEF Publishes, r
    <3>5. ~ui.loading => Fits(ui.shown, ui.cursor, db'[r], down', r)
      BY <1>0, <2>0, <3>1, <3>2, <3>3, FitsPublished
    <3>6. ASSUME NEW f \in fetches, OlderNow(f) PROVE OlderFits(f)'
      <4>1. OlderFits(f) /\ ~ui.loading /\ ui.cursor # 0 /\ f.cursor = ui.cursor
        BY <2>0, <3>6 DEF OlderFits
      <4>2. Low(ui.cursor) \in 1..Len(db[r])
        <5>1. /\ ui.cursor > PageSize /\ ui.cursor <= Low(ui.cursor) + Len(ui.shown)
              /\ Low(ui.cursor) + Len(ui.shown) <= Len(db[r]) /\ Low(ui.cursor) = ui.cursor - PageSize
          BY <2>0, <4>1 DEF Fits, Low
        <5>2. PageSize \in Nat \ {0} /\ Len(db[r]) \in Nat /\ Len(ui.shown) \in Nat
          BY <1>0, <2>0, RunTypes, PageAssumption
        <5> QED
          BY <1>0, <5>1, <5>2
      <4>3. /\ Renewed(down, r, Low(ui.cursor)) => Renewed(down', r, Low(ui.cursor))
            /\ db'[r][Low(ui.cursor)] = db[r][Low(ui.cursor)] \/ Renewed(down', r, Low(ui.cursor))
        BY <2>0, <3>1, <3>2, <3>3, <4>1, <4>2, FitsPublished
      <4>4. FitsBefore(f.page, f.next, f.cursor, db[r], down, r)
            => FitsBefore(f.page, f.next, f.cursor, db'[r], down', r)
        BY <4>1, <4>3 DEF FitsBefore
      <4> QED
        BY <2>0, <2>2, <4>1, <4>4 DEF OlderFits, SameView, EventSame, r
    <3> QED
      BY <2>0, <2>2, <3>4, <3>5, <3>6 DEF SameView, EventSame
  <2>3. CASE LoadOlder
    <3>1. /\ down' = down /\ db' = db
          /\ ~ui.older /\ ~ui.loading /\ ui.cursor # 0
          /\ ui'.shown = ui.shown /\ ui'.cursor = ui.cursor /\ ui'.loading = ui.loading /\ ui'.older = TRUE
      BY <1>0, <2>3 DEF LoadOlder, server, AnyPage
    <3>2. PICK new : /\ fetches' = fetches \union {new} /\ new.kind = "older" /\ new.room = r
                     /\ new.cursor = ui.cursor /\ new.status = "sent"
      <4> DEFINE new == [kind |-> "older", room |-> ui.room, request |-> ui.request,
                         cursor |-> ui.cursor, status |-> "sent", page |-> <<>>, next |-> 0]
      <4>1. fetches' = fetches \union {new}
        BY <2>3 DEF LoadOlder
      <4>2. new.kind = "older" /\ new.room = r /\ new.cursor = ui.cursor /\ new.status = "sent"
        BY DEF r
      <4> HIDE DEF new
      <4> QED
        BY <4>1, <4>2
    <3>3. \A f \in fetches : ~OlderNow(f)
      BY <2>0, <3>1 DEF OlderFits
    <3>4. \A f \in fetches' : OlderNow(f) => f = new
      BY <3>2, <3>3
    <3>5. OlderFits(new)'
      BY <2>0, <3>1, <3>2, <3>4 DEF OlderFits
    <3>6. \A f \in fetches' : FirstNow(f) => f \in fetches
      BY <3>2 DEF FirstNow
    <3> QED
      BY <2>0, <3>1, <3>4, <3>5, <3>6
  <2>4. ASSUME NEW f \in fetches, ServeMessages(f)
        PROVE  /\ ~ui'.loading => Fits(ui'.shown, ui'.cursor, db'[r], down', r)
               /\ \A h \in fetches' : FirstNow(h) /\ h.status = "answered" =>
                     Fits(h.page, h.next, db'[r], <<>>, r)
               /\ \A h \in fetches' : OlderNow(h) => OlderFits(h)'
    <3>1. PICK g : ServedAs(f, g)
      BY <2>4, ServedFetch
    <3>2. ui' = ui /\ down' = down /\ db' = db
      BY <2>4, ServedFetch
    <3>3. FirstNow(g) /\ g.status = "answered" => Fits(g.page, g.next, db[r], <<>>, r)
      <4>1. ASSUME FirstNow(g), g.status = "answered" PROVE Fits(g.page, g.next, db[r], <<>>, r)
        <5>1. FirstNow(f)
          BY <3>1, <4>1 DEF ServedAs, FirstNow
        <5>2. f.room = r /\ f.cursor = 0
          BY <5>1 DEF FetchInv, r
        <5>3. g.page = Page(db[r], 0).messages /\ g.next = Page(db[r], 0).next
          BY <3>1, <4>1, <5>1, <5>2 DEF ServedAs
        <5> QED
          BY <2>0, <5>3, FirstFits
      <4> QED
        BY <4>1
    <3>4. ASSUME NEW h \in fetches', OlderNow(h) PROVE OlderFits(h)'
      <4>1. CASE h # g
        <5>1. h \in fetches /\ h # f
          BY <3>1, <3>4, <4>1 DEF ServedAs
        <5>2. OlderFits(h) /\ ~OlderNow(f)
          BY <2>0, <3>4, <5>1 DEF OlderFits
        <5>3. ~OlderNow(g)
          BY <3>1, <5>2 DEF ServedAs, OlderNow
        <5>4. \A x \in fetches' : OlderNow(x) => x \in fetches
          BY <3>1, <5>3 DEF ServedAs
        <5> QED
          BY <2>0, <3>2, <5>2, <5>4 DEF OlderFits
      <4>2. CASE h = g
        <5>1. OlderNow(f) /\ g.room = f.room /\ g.cursor = f.cursor
          BY <3>1, <3>4, <4>2 DEF ServedAs, OlderNow
        <5>2. OlderFits(f)
          BY <2>0, <5>1
        <5>3. \A x \in fetches' : OlderNow(x) => x = g
          BY <3>1, <5>2 DEF ServedAs, OlderFits
        <5>4. g.status = "answered" => FitsBefore(g.page, g.next, g.cursor, db[r], down, r)
          <6>1. ASSUME g.status = "answered" PROVE FitsBefore(g.page, g.next, g.cursor, db[r], down, r)
            <7>1. g.page = Page(db[r], ui.cursor).messages /\ g.next = Page(db[r], ui.cursor).next
                  /\ g.cursor = ui.cursor
              BY <3>1, <5>1, <5>2, <6>1 DEF ServedAs, OlderFits, r
            <7>2. Fits(ui.shown, ui.cursor, db[r], down, r) /\ ui.cursor # 0
              BY <2>0, <5>2 DEF OlderFits
            <7> QED
              BY <1>0, <2>0, <7>1, <7>2, OlderFitsBefore
          <6> QED
            BY <6>1
        <5> QED
          BY <2>0, <3>2, <4>2, <5>1, <5>2, <5>3, <5>4 DEF OlderFits, r
      <4> QED
        BY <4>1, <4>2
    <3>5. \A h \in fetches' : h = g \/ h \in fetches
      BY <3>1 DEF ServedAs
    <3> QED
      BY <2>0, <3>2, <3>3, <3>4, <3>5
  <2>5. ASSUME NEW f \in fetches, ApplyFirst(f) \/ ApplyOlder(f), ui' = ui
        PROVE  /\ ~ui'.loading => Fits(ui'.shown, ui'.cursor, db'[r], down', r)
               /\ \A h \in fetches' : FirstNow(h) /\ h.status = "answered" =>
                     Fits(h.page, h.next, db'[r], <<>>, r)
               /\ \A h \in fetches' : OlderNow(h) => OlderFits(h)'
    <3>1. fetches' \subseteq fetches /\ down' = down /\ db' = db
      BY <2>5, AppliedFirst, AppliedOlder
    <3>2. ASSUME NEW h \in fetches', OlderNow(h) PROVE OlderFits(h)'
      BY <2>0, <2>5, <3>1, <3>2 DEF OlderFits
    <3> QED
      BY <2>0, <2>5, <3>1, <3>2
  <2>6. ASSUME NEW f \in fetches, ApplyFirst(f), ui' # ui
        PROVE  /\ ~ui'.loading => Fits(ui'.shown, ui'.cursor, db'[r], down', r)
               /\ \A h \in fetches' : FirstNow(h) /\ h.status = "answered" =>
                     Fits(h.page, h.next, db'[r], <<>>, r)
               /\ \A h \in fetches' : OlderNow(h) => OlderFits(h)'
    <3>1. /\ fetches' = fetches \ {f} /\ down' = down /\ db' = db
          /\ FirstNow(f) /\ f.room = ui.room /\ f.status = "answered"
          /\ ui'.shown = f.page /\ ui'.cursor = f.next
      BY <2>6, AppliedFirst DEF FirstNow
    <3>2. ui.loading /\ \A g \in fetches : FirstNow(g) => g = f
      BY <3>1 DEF FetchInv
    <3>3. \A h \in fetches' : ~FirstNow(h) /\ ~OlderNow(h)
      BY <2>0, <3>1, <3>2 DEF OlderFits
    <3>4. Fits(f.page, f.next, db[r], <<>>, r)
      BY <2>0, <3>1
    <3>5. Fits(f.page, f.next, db[r], down, r)
      <4>1. \A n : ~Renewed(<<>>, r, n) /\ ~Coming(<<>>, r, n)
        BY DEF Renewed, Coming
      <4> QED
        BY <3>4, <4>1 DEF Fits
    <3> QED
      BY <3>1, <3>3, <3>5
  <2>7. ASSUME NEW f \in fetches, ApplyOlder(f), ui' # ui
        PROVE  /\ ~ui'.loading => Fits(ui'.shown, ui'.cursor, db'[r], down', r)
               /\ \A h \in fetches' : FirstNow(h) /\ h.status = "answered" =>
                     Fits(h.page, h.next, db'[r], <<>>, r)
               /\ \A h \in fetches' : OlderNow(h) => OlderFits(h)'
    <3>1. /\ fetches' = fetches \ {f} /\ down' = down /\ db' = db /\ f.kind = "older"
          /\ f.room = ui.room /\ f.status \in {"answered", "failed"} /\ f.request = ui.request
      BY <2>7, AppliedOlder
    <3>2. OlderNow(f) /\ OlderFits(f)
      BY <2>0, <3>1 DEF OlderNow
    <3>3. ~ui.loading /\ \A g \in fetches : OlderNow(g) => g = f
      BY <3>2 DEF OlderFits
    <3>4. \A h \in fetches' : ~FirstNow(h) /\ ~OlderNow(h)
      BY <3>1, <3>3 DEF FetchInv
    <3>5. Fits(ui.shown, ui.cursor, db[r], down, r)
      BY <2>0, <3>3
    <3>6. CASE f.status = "failed"
      <4>1. ui'.shown = ui.shown /\ ui'.cursor = ui.cursor
        BY <2>7, <3>6, AppliedOlder
      <4> QED
        BY <3>1, <3>4, <3>5, <4>1
    <3>7. CASE f.status = "answered"
      <4>1. ui'.shown = Unshown(f.page) \o ui.shown /\ ui'.cursor = f.next
        BY <2>7, <3>7, AppliedOlder
      <4>2. /\ FitsBefore(f.page, f.next, ui.cursor, db[r], down, r) /\ ui.cursor # 0
            /\ f.page \in Seq(AnyMessage) /\ f.next \in Nat
        BY <1>0, <3>2, <3>7 DEF OlderFits, AnyFetch, r
      <4>3. Fits(Unshown(f.page) \o ui.shown, f.next, db[r], down, r)
        BY <3>5, <4>2, OlderApplied DEF r
      <4> QED
        BY <3>1, <3>4, <4>1, <4>3
    <3> QED
      BY <3>1, <3>6, <3>7
  <2>8. \/ HandleEvent
        \/ SameView(ui, ui') /\ fetches' = fetches /\ ~HandleEvent
        \/ LoadOlder \/ \E f \in fetches : ServeMessages(f) \/ ApplyFirst(f) \/ ApplyOlder(f)
    <3>1. ASSUME NEW q \in Rooms, EnterRoom(q) PROVE ui'.request = ui.request + 1
      BY <3>1 DEF EnterRoom, Fresh, NextRequest
    <3>2. ui' # Fresh(None, NextRequest)
      BY DEF Fresh
    <3>3. ~(\E q \in Rooms : EnterRoom(q))
      BY <1>0, <1>3, <3>1
    <3>4. CASE ~HandleEvent
      <4>1. \/ SameView(ui, ui') /\ fetches' = fetches
            \/ LoadOlder \/ \E f \in fetches : ServeMessages(f) \/ ApplyFirst(f) \/ ApplyOlder(f)
        BY <3>2, <3>3, <3>4, ViewSteps
      <4> QED
        BY <3>4, <4>1
    <3>5. CASE HandleEvent
      BY <3>5
    <3> QED
      BY <3>4, <3>5
  <2> QED
    BY <2>0, <2>1, <2>2, <2>3, <2>4, <2>5, <2>6, <2>7, <2>8
<1> QED
  <2>1. ~(\E r \in Rooms : EnterRoom(r)) => ui'.room = ui.room /\ ui'.request = ui.request /\ calm
    <3>1. ui' # Fresh(None, NextRequest)
      BY DEF Fresh
    <3> QED
      BY <3>1, VisitSteps, CalmKept
  <2> QED
    BY <1>2, <1>3, <2>1

LEMMA MessagesAlways == Spec => []MessagesInv
<1>1. Init => MessagesInv
  BY DEF Init, MessagesInv, Fresh
<1>2. Typed /\ FetchInv /\ EventInv /\ MessagesInv /\ [Next]_vars => MessagesInv'
  BY MessagesNext
<1> QED
  BY <1>1, <1>2, TypedAlways, FetchAlways, EventAlways, PTL DEF Spec

(***************************************************************************)
(* The card that waits.  A run that is not an answer to a card runs while  *)
(* none waits; the page shows the card of its room or is being told it,    *)
(* and nothing after that takes it away, unless a run is about to settle   *)
(* it, or the room is joined first, which tells it again.                  *)
(***************************************************************************)
Required(e, r, c) == e.type = "assistant_approval_required" /\ e.room = r /\ e.body = c
Drops(e, r, c) ==
    /\ e.room = r
    /\ \/ Ends(e)
       \/ e.type = "assistant_approval_resolved" /\ e.body = c
       \/ e.type = "assistant_approval_required" /\ e.body # c
Tame(q, r, c)   == \A i \in 1..Len(q) : ~Drops(q[i], r, c)
Renews(q, r, c) == \E i \in 1..Len(q) : Required(q[i], r, c)
                                        /\ \A j \in (i + 1)..Len(q) : ~Drops(q[j], r, c)
Told(q, card, r, c) == (card = c /\ Tame(q, r, c)) \/ Renews(q, r, c)

Answering(r) == run[r].kind = "approval" /\ (\/ run[r].phase = "streaming"
                                             \/ run[r].phase = "accepted" /\ run[r].stop)
Awaited(r)   == r \in joining \/ \E i \in 1..Len(up) : up[i].op = "join" /\ up[i].room = r

RunCards == \A r \in Rooms :
    /\ run[r].phase \in {"accepted", "streaming"} /\ run[r].kind # "approval" => cards[r] = None
    /\ run[r].phase = "accepted" /\ run[r].kind = "approval" => cards[r] = run[r].card
    /\ run[r].phase = "streaming" /\ run[r].kind = "approval" => cards[r] \in {None, run[r].card}
CardShown == calm /\ Kept /\ cards[ui.room] # None =>
    Answering(ui.room) \/ Awaited(ui.room) \/ Told(down, ui.card, ui.room, cards[ui.room])

LEMMA ToldSteps ==
    ASSUME NEW q \in Seq(AnyEvent), NEW r, NEW c
    PROVE  /\ \A t \in Seq(AnyEvent) : \A card : Told(q, card, r, c) /\ Tame(t, r, c) => Told(q \o t, card, r, c)
           /\ \A t \in Seq(AnyEvent) : \A card : Renews(t, r, c) => Told(q \o t, card, r, c)
           /\ \A old, new : /\ q # <<>> /\ Told(q, old, r, c)
                            /\ old = c /\ ~Drops(q[1], r, c) => new = c
                            /\ Required(q[1], r, c) => new = c
                            => Told(Tail(q), new, r, c)
<1>1. ASSUME NEW t \in Seq(AnyEvent)
      PROVE  /\ Tame(q, r, c) /\ Tame(t, r, c) => Tame(q \o t, r, c)
             /\ Renews(q, r, c) /\ Tame(t, r, c) => Renews(q \o t, r, c)
             /\ Renews(t, r, c) => Renews(q \o t, r, c)
  <2> DEFINE u == q \o t
  <2>1. /\ Len(q) \in Nat /\ Len(t) \in Nat /\ Len(u) = Len(q) + Len(t)
        /\ \A i \in 1..Len(q) : i \in 1..Len(u) /\ u[i] = q[i]
        /\ \A j \in 1..Len(t) : Len(q) + j \in 1..Len(u) /\ u[Len(q) + j] = t[j]
        /\ \A i \in 1..Len(u) : i \in 1..Len(q) \/ (i - Len(q) \in 1..Len(t) /\ u[i] = t[i - Len(q)])
    BY ConcatAt
  <2> HIDE DEF u
  <2>2. Tame(q, r, c) /\ Tame(t, r, c) => Tame(u, r, c)
    BY <2>1 DEF Tame
  <2>3. ASSUME Renews(q, r, c), Tame(t, r, c) PROVE Renews(u, r, c)
    <3>1. PICK i \in 1..Len(q) : Required(q[i], r, c) /\ \A j \in (i + 1)..Len(q) : ~Drops(q[j], r, c)
      BY <2>3 DEF Renews
    <3>2. ASSUME NEW j \in (i + 1)..Len(u) PROVE ~Drops(u[j], r, c)
      <4>1. j \in 1..Len(u)
        BY <2>1, <3>1
      <4>2. CASE j \in 1..Len(q)
        <5>1. j \in (i + 1)..Len(q)
          BY <2>1, <3>1, <4>2
        <5> QED
          BY <2>1, <3>1, <4>2, <5>1
      <4>3. CASE j \notin 1..Len(q)
        BY <2>1, <2>3, <4>1, <4>3 DEF Tame
      <4> QED
        BY <4>2, <4>3
    <3>3. i \in 1..Len(u) /\ u[i] = q[i]
      BY <2>1
    <3> QED
      BY <3>1, <3>2, <3>3 DEF Renews
  <2>4. ASSUME Renews(t, r, c) PROVE Renews(u, r, c)
    <3>1. PICK i \in 1..Len(t) : Required(t[i], r, c) /\ \A j \in (i + 1)..Len(t) : ~Drops(t[j], r, c)
      BY <2>4 DEF Renews
    <3>2. ASSUME NEW j \in (Len(q) + i + 1)..Len(u) PROVE ~Drops(u[j], r, c)
      <4>1. j \in 1..Len(u) /\ j \notin 1..Len(q) /\ j - Len(q) \in (i + 1)..Len(t)
        BY <2>1, <3>1
      <4> QED
        BY <2>1, <3>1, <4>1
    <3>3. Len(q) + i \in 1..Len(u) /\ u[Len(q) + i] = t[i]
      BY <2>1
    <3> QED
      BY <3>1, <3>2, <3>3 DEF Renews
  <2> QED
    BY <2>2, <2>3, <2>4 DEF u
<1>2. ASSUME NEW old, NEW new, q # <<>>, Told(q, old, r, c),
             old = c /\ ~Drops(q[1], r, c) => new = c,
             Required(q[1], r, c) => new = c
      PROVE  Told(Tail(q), new, r, c)
  <2> DEFINE u == Tail(q)
  <2>1. /\ Len(q) \in Nat /\ Len(q) > 0 /\ Len(u) = Len(q) - 1
        /\ \A i \in 1..Len(u) : i + 1 \in 1..Len(q) /\ u[i] = q[i + 1]
        /\ \A i \in 1..Len(q) : i # 1 => i - 1 \in 1..Len(u) /\ u[i - 1] = q[i]
    BY <1>2, TailAt
  <2> HIDE DEF u
  <2>2. CASE old = c /\ Tame(q, r, c)
    <3>1. 1 \in 1..Len(q)
      BY <2>1
    <3>2. new = c /\ Tame(u, r, c)
      BY <1>2, <2>1, <2>2, <3>1 DEF Tame
    <3> QED
      BY <3>2 DEF Told, u
  <2>3. CASE Renews(q, r, c)
    <3>1. PICK i \in 1..Len(q) : Required(q[i], r, c) /\ \A j \in (i + 1)..Len(q) : ~Drops(q[j], r, c)
      BY <2>3 DEF Renews
    <3>2. CASE i = 1
      <4>1. ASSUME NEW j \in 1..Len(u) PROVE ~Drops(u[j], r, c)
        <5>1. j + 1 \in (i + 1)..Len(q) /\ u[j] = q[j + 1]
          BY <2>1, <3>2
        <5> QED
          BY <3>1, <5>1
      <4>2. new = c
        BY <1>2, <3>1, <3>2
      <4> QED
        BY <4>1, <4>2 DEF Told, Tame, u
    <3>3. CASE i # 1
      <4>1. i - 1 \in 1..Len(u) /\ u[i - 1] = q[i]
        BY <2>1, <3>3
      <4>2. ASSUME NEW j \in ((i - 1) + 1)..Len(u) PROVE ~Drops(u[j], r, c)
        <5>1. j \in 1..Len(u) /\ j + 1 \in (i + 1)..Len(q)
          BY <2>1, <3>1, <3>3
        <5> QED
          BY <2>1, <3>1, <5>1
      <4> QED
        BY <3>1, <4>1, <4>2 DEF Told, Renews, u
    <3> QED
      BY <3>2, <3>3
  <2> QED
    BY <1>2, <2>2, <2>3 DEF Told
<1> QED
  BY <1>1, <1>2 DEF Told

(* Which steps change the card of a room.                                  *)
LEMMA CardSteps ==
    ASSUME Typed, [Next]_vars, NEW r \in Rooms
    PROVE  \/ cards'[r] = cards[r]
           \/ JoinEnds(r) /\ cards'[r] = None
           \/ Complete(r) \/ Cancel(r) \/ FailApproval(r) \/ AskApproval(r)
<1>0. cards \in [Rooms -> AnyCard \union {None}]
  BY RunTypes
<1>1. CASE User
  BY <1>1 DEF User, EnterRoom, DeleteRoom, SendMessage, RetryMessage, RespondToApproval,
          StopGeneration, LoadOlder, server
<1>2. CASE Answers
  BY <1>2 DEF Answers, ServeMessages, ApplyFirst, ApplyOlder, ServeDeletion, ApplyDeletion, server
<1>3. CASE HandleEvent \/ Connect \/ Disconnect
  BY <1>3, HandleFrame DEF Connect, Disconnect, server
<1>4. CASE Receive
  BY <1>4 DEF Receive, JoinBegins, LeaveRoom, ReceiveRetry, ReceiveResponse, ReceiveStop, Refuse, ReceiveSend
<1>5. ASSUME NEW q \in Rooms, JoinEnds(q) \/ Start(q) \/ Delta(q) \/ Finish(q)
      PROVE  \/ cards'[r] = cards[r]
             \/ JoinEnds(r) /\ cards'[r] = None
             \/ Complete(r) \/ Cancel(r) \/ FailApproval(r) \/ AskApproval(r)
  <2>1. CASE JoinEnds(q)
    <3>1. cards' = cards \/ cards' = [cards EXCEPT ![q] = None]
      BY <2>1 DEF JoinEnds
    <3> QED
      BY <1>0, <2>1, <3>1
  <2>2. CASE Start(q) \/ Delta(q) \/ FailSend(q) \/ FailRetry(q) \/ Unclear(q) \/ Close(q) \/ Vanish(q)
    BY <2>2 DEF Start, Delta, FailSend, FailRetry, Unclear, Close, Vanish
  <2>3. CASE Complete(q) \/ Cancel(q) \/ FailApproval(q) \/ AskApproval(q)
    <3>1. CASE q = r
      BY <2>3, <3>1
    <3>2. CASE q # r
      <4>1. \E c : cards' = [cards EXCEPT ![q] = c]
        BY <2>3 DEF Complete, Cancel, FailApproval, AskApproval
      <4> QED
        BY <1>0, <3>2, <4>1
    <3> QED
      BY <3>1, <3>2
  <2> QED
    BY <1>5, <2>1, <2>2, <2>3 DEF Finish
<1>6. CASE UNCHANGED vars
  BY <1>6 DEF vars, server
<1> QED
  BY <1>1, <1>2, <1>3, <1>4, <1>5, <1>6 DEF Next, Gateway

LEMMA RunCardsNext ==
    ASSUME Typed, RunCards, [Next]_vars
    PROVE  RunCards'
<1> DEFINE Suits(x, c) == /\ x.phase \in {"accepted", "streaming"} /\ x.kind # "approval" => c = None
                          /\ x.phase = "accepted" /\ x.kind = "approval" => c = x.card
                          /\ x.phase = "streaming" /\ x.kind = "approval" => c \in {None, x.card}
<1> SUFFICES ASSUME NEW r \in Rooms PROVE Suits(run'[r], cards'[r])
  BY DEF RunCards
<1>0. Suits(run[r], cards[r]) /\ run \in [Rooms -> AnyRun] /\ run[r] \in AnyRun
  BY RunTypes DEF RunCards
<1>1. CASE Disconnect
  <2>1. cards' = cards /\ run'[r].phase = run[r].phase /\ run'[r].kind = run[r].kind
        /\ run'[r].card = run[r].card
    BY <1>0, <1>1 DEF Disconnect, AnyRun
  <2> QED
    BY <1>0, <2>1
<1>2. CASE ~Disconnect
  <2>1. CASE Finish(r)
    <3>1. Over(r) => run'[r].phase = "idle"
      BY <1>0 DEF Over, Idle
    <3>2. AskApproval(r) => run'[r].phase = "closing"
      BY <1>0 DEF AskApproval, AnyRun
    <3>3. run'[r].phase \in {"idle", "closing"}
      BY <2>1, <3>1, <3>2 DEF Finish, Complete, Cancel, FailSend, FailRetry, FailApproval, Unclear,
         Close, Vanish
    <3> QED
      BY <3>3
  <2>2. CASE Start(r)
    <3>1. /\ run'[r].phase = "streaming" /\ run'[r].kind = run[r].kind /\ run'[r].card = run[r].card
          /\ cards' = cards /\ run[r].phase = "accepted"
      BY <1>0, <2>2 DEF Start, InRoom, Runs, AnyRun
    <3> QED
      BY <1>0, <3>1
  <2>3. CASE Delta(r)
    <3>1. /\ run'[r].phase = run[r].phase /\ run'[r].kind = run[r].kind /\ run'[r].card = run[r].card
          /\ cards' = cards
      BY <1>0, <2>3 DEF Delta, AnyRun
    <3> QED
      BY <1>0, <3>1
  <2>4. CASE Room = r /\ (ReceiveSend \/ ReceiveRetry \/ ReceiveResponse \/ ReceiveStop)
    <3>1. CASE ReceiveStop
      <4>1. /\ run'[r].phase = run[r].phase /\ run'[r].kind = run[r].kind /\ run'[r].card = run[r].card
            /\ cards' = cards
        BY <1>0, <2>4, <3>1 DEF ReceiveStop, AnyRun
      <4> QED
        BY <1>0, <4>1
    <3>2. ASSUME NEW kind, NEW user, NEW card, Accepted(r, kind, user, card)
          PROVE  run'[r].phase = "accepted" /\ run'[r].kind = kind /\ run'[r].card = card
      BY <1>0, <3>2 DEF Accepted
    <3>3. CASE ReceiveSend
      <4>1. /\ \E user : Accepted(r, IF cards[r] = None THEN "send" ELSE "approval", user, cards[r])
            /\ cards' = cards
        BY <2>4, <3>3 DEF ReceiveSend
      <4> QED
        BY <3>2, <4>1
    <3>4. CASE ReceiveRetry
      <4>1. (\E user : Accepted(r, "retry", user, None)) /\ cards' = cards /\ cards[r] = None
        BY <2>4, <3>4 DEF ReceiveRetry
      <4> QED
        BY <3>2, <4>1
    <3>5. CASE ReceiveResponse
      <4>1. (\E user : Accepted(r, "approval", user, cards[r])) /\ cards' = cards
        BY <2>4, <3>5 DEF ReceiveResponse
      <4> QED
        BY <3>2, <4>1
    <3> QED
      BY <2>4, <3>1, <3>3, <3>4, <3>5
  <2>5. CASE run'[r] = run[r] /\ ~Finish(r)
    <3>1. cards'[r] = cards[r] \/ (JoinEnds(r) /\ cards'[r] = None)
      BY <2>5, CardSteps DEF Finish
    <3>2. JoinEnds(r) /\ cards'[r] = None /\ cards'[r] # cards[r] =>
              run[r].kind = "approval" /\ run[r].phase = "streaming"
      BY DEF JoinEnds
    <3> QED
      BY <1>0, <2>5, <3>1, <3>2
  <2> QED
    BY <1>2, <2>1, <2>2, <2>3, <2>4, <2>5, RunSteps
<1> QED
  BY <1>1, <1>2

(* A join that is awaited goes on until the room is joined.                *)
LEMMA AwaitedSteps ==
    ASSUME Typed, [Next]_vars, ~Disconnect, NEW r \in Rooms, ~JoinEnds(r), Awaited(r)
    PROVE  Awaited(r)'
<1>0. up \in Seq(AnyRequest)
  BY DEF Typed, UpType
<1>1. r \in joining => r \in joining'
  <2>1. CASE User
    BY <2>1 DEF User, EnterRoom, DeleteRoom, SendMessage, RetryMessage, RespondToApproval,
            StopGeneration, LoadOlder, server
  <2>2. CASE Answers
    BY <2>2 DEF Answers, ServeMessages, ApplyFirst, ApplyOlder, ServeDeletion, ApplyDeletion, server
  <2>3. CASE HandleEvent \/ Connect
    BY <2>3, HandleFrame DEF Connect, server
  <2>4. CASE Receive
    BY <2>4 DEF Receive, JoinBegins, LeaveRoom, ReceiveRetry, ReceiveResponse, ReceiveStop, Refuse,
                ReceiveSend, Arrived
  <2>5. ASSUME NEW q \in Rooms, JoinEnds(q) \/ Start(q) \/ Delta(q) \/ Finish(q)
        PROVE  r \in joining => r \in joining'
    <3>1. CASE JoinEnds(q)
      BY <3>1 DEF JoinEnds
    <3>2. CASE Start(q) \/ Delta(q) \/ Finish(q)
      BY <3>2 DEF Start, Delta, Finish, Complete, Cancel, FailSend, FailRetry, FailApproval,
                  Unclear, AskApproval, Close, Vanish, InRoom, Runs
    <3> QED
      BY <2>5, <3>1, <3>2
  <2>6. CASE UNCHANGED vars
    BY <2>6 DEF vars, server
  <2> QED
    BY <2>1, <2>2, <2>3, <2>4, <2>5, <2>6 DEF Next, Gateway
<1>2. ASSUME NEW i \in 1..Len(up), up[i].op = "join", up[i].room = r PROVE Awaited(r)'
  <2>1. CASE up' = up
    BY <1>2, <2>1 DEF Awaited
  <2>2. CASE Receive /\ up # <<>> /\ up' = Tail(up)
    <3>1. /\ Len(up) \in Nat \ {0} /\ Head(up) = up[1] /\ Len(Tail(up)) = Len(up) - 1
          /\ \A k \in 1..Len(Tail(up)) : Tail(up)[k] = up[k + 1]
      BY <1>0, <2>2, HeadTailProperties
    <3>2. CASE i = 1
      <4>1. Head(up).op = "join" /\ Room = r
        BY <1>2, <3>1, <3>2 DEF Room
      <4>2. JoinBegins
        BY <2>2, <4>1 DEF Receive, LeaveRoom, ReceiveRetry, ReceiveResponse, ReceiveStop, Refuse,
                ReceiveSend, Arrived
      <4>3. r \in joining'
        BY <4>1, <4>2 DEF JoinBegins
      <4> QED
        BY <4>3 DEF Awaited
    <3>3. CASE i # 1
      <4>1. i - 1 \in 1..Len(Tail(up)) /\ Tail(up)[i - 1] = up[i]
        BY <3>1, <3>3
      <4> QED
        BY <1>2, <2>2, <4>1 DEF Awaited
    <3> QED
      BY <3>2, <3>3
  <2>3. ASSUME NEW s, RequestsOf(db, s), up' = up \o s PROVE Awaited(r)'
    <3>1. s \in Seq(AnyRequest)
      BY <2>3 DEF RequestsOf
    <3>2. /\ Len(up \o s) = Len(up) + Len(s) /\ Len(s) \in Nat /\ Len(up) \in Nat
          /\ \A k \in 1..(Len(up) + Len(s)) : (up \o s)[k] = IF k <= Len(up) THEN up[k] ELSE s[k - Len(up)]
      BY <1>0, <3>1, ConcatProperties
    <3>3. i \in 1..Len(up \o s) /\ (up \o s)[i] = up[i]
      BY <3>2
    <3> QED
      BY <1>2, <2>3, <3>3 DEF Awaited
  <2> QED
    BY <2>1, <2>2, <2>3, UpSteps
<1> QED
  BY <1>1, <1>2 DEF Awaited

(* An event handled, and every other step, leave the card of the page as   *)
(* Drops and Required say.                                                 *)
LEMMA CardHandled ==
    ASSUME Typed, HandleEvent, ui.room \in Rooms, NEW c \in AnyCard
    PROVE  /\ ui.card = c /\ ~Drops(Event, ui.room, c) => ui'.card = c
           /\ Required(Event, ui.room, c) => ui'.card = c
<1> DEFINE Same == ui'.card = ui.card /\ ~Required(Event, ui.room, c)
<1>0. ui \in AnyPage /\ c # None
  BY PageAssumption DEF Typed, PageOf
<1>1. HandleMessageCreated => Same
  BY <1>0, AppendedFlags DEF HandleMessageCreated, Incoming, Required, Event
<1>2. HandleMessageUpdated => Same
  <2> DEFINE x == [ui EXCEPT !.shown = [i \in DOMAIN ui.shown |->
                      IF ui.shown[i].id = Event.body.id THEN Event.body ELSE ui.shown[i]]]
  <2>1. x.card = ui.card
    BY <1>0 DEF AnyPage
  <2>2. HandleMessageUpdated => ui' = ui \/ ui' = Appended(ui, Event.body) \/ ui' = x
    BY DEF HandleMessageUpdated
  <2>3. HandleMessageUpdated => ~Required(Event, ui.room, c)
    BY DEF HandleMessageUpdated, Incoming, Required, Event
  <2> HIDE DEF x
  <2> QED
    BY <1>0, <2>1, <2>2, <2>3, AppendedFlags
<1>3. HandleStarted \/ HandleDelta => Same
  BY <1>0 DEF HandleStarted, HandleDelta, Incoming, Required, Event, AnyPage
<1>4. HandleChatError => Same
  BY <1>0, QuietedFlags DEF HandleChatError, Incoming, Required, Event
<1>5. HandleEnd => (~Drops(Event, ui.room, c) => ui' = ui) /\ ~Required(Event, ui.room, c)
  BY DEF HandleEnd, Incoming, Required, Drops, Ends, Event, Here
<1>6. HandleApprovalRequired => IF Here THEN ui'.card = Event.body ELSE ui' = ui
  BY <1>0 DEF HandleApprovalRequired, Quieted, AnyPage
<1>7. HandleApprovalRequired => Event.type = "assistant_approval_required"
  BY DEF HandleApprovalRequired, Incoming, Event
<1>8. HandleApprovalResolved => IF Here /\ ui.card = Event.body THEN ui'.card = None ELSE ui'.card = ui.card
  BY <1>0 DEF HandleApprovalResolved, AnyPage
<1>9. HandleApprovalResolved => Event.type = "assistant_approval_resolved"
  BY DEF HandleApprovalResolved, Incoming, Event
<1>10. HandleApprovalRequired \/ HandleApprovalResolved
         => /\ ui.card = c /\ ~Drops(Event, ui.room, c) => ui'.card = c
            /\ Required(Event, ui.room, c) => ui'.card = c
  BY <1>6, <1>7, <1>8, <1>9 DEF Drops, Required, Here
<1> QED
  BY <1>1, <1>2, <1>3, <1>4, <1>5, <1>10 DEF HandleEvent

LEMMA CardKept ==
    ASSUME Typed, [Next]_vars, ~HandleEvent, ui'.room = ui.room, ui.room \in Rooms,
           ~(\E r \in Rooms : EnterRoom(r))
    PROVE  ui'.card = ui.card
<1>0. ui \in AnyPage
  BY DEF Typed, PageOf
<1>1. CASE SendMessage \/ RespondToApproval \/ LoadOlder \/ RetryMessage \/ StopGeneration
  BY <1>0, <1>1 DEF SendMessage, RespondToApproval, LoadOlder, RetryMessage, StopGeneration, AnyPage
<1>2. CASE ApplyDeletion
  <2>1. Fresh(None, NextRequest).room = None
    BY DEF Fresh
  <2>2. ui' = ui
    BY <1>2, <2>1, PageAssumption DEF ApplyDeletion
  <2> QED
    BY <2>2
<1>3. ASSUME NEW f \in fetches, ApplyFirst(f) \/ ApplyOlder(f)
      PROVE  ui'.card = ui.card
  BY <1>0, <1>3 DEF ApplyFirst, ApplyOlder, AnyPage
<1> QED
  BY <1>1, <1>2, <1>3, UiSteps

LEMMA TameNews ==
    ASSUME NEW q, NEW r, NEW c
    PROVE  /\ Tame(<<>>, r, c) /\ Tame(<<Error(q)>>, r, c) /\ Tame(Replies(q), r, c)
           /\ Tame(DeltaNews(q), r, c) /\ Tame(SendNews(q), r, c) /\ Tame(CloseNews(q), r, c)
           /\ q # r => /\ Tame(CompleteNews(q), r, c) /\ Tame(CancelNews(q), r, c) /\ Tame(FailNews(q), r, c)
                       /\ Tame(AskNews(q), r, c) /\ Tame(StartNews(q), r, c)
                       /\ Tame(<<News("assistant_message_cancelled", q, None)>>, r, c)
                       /\ \A d : Tame(RequiredNews(q, d), r, c)
           /\ \A news : Tame(news, r, c) => Tame(Heard(q, news), r, c)
<1> DEFINE Mild(e) == ~Drops(e, r, c)
<1>1. \A type, body : /\ q # r => Mild(News(type, q, body))
                      /\ type \in {"message_created", "message_updated", "assistant_message_delta",
                                   "chat_error"} => Mild(News(type, q, body))
  BY DEF News, Drops, Ends
<1>2. /\ Tame(<<>>, r, c) /\ \A e : Mild(e) => Tame(<<e>>, r, c)
      /\ \A e, f : Mild(e) /\ Mild(f) => Tame(<<e, f>>, r, c)
  BY DEF Tame
<1> HIDE DEF Mild
<1>3. Tame(<<Error(q)>>, r, c) /\ Tame(Replies(q), r, c)
  BY <1>1, <1>2 DEF Error, Replies
<1>4. Tame(DeltaNews(q), r, c) /\ Tame(SendNews(q), r, c) /\ Tame(CloseNews(q), r, c)
  BY <1>1, <1>2 DEF DeltaNews, SendNews, CloseNews, Updated
<1>5. ASSUME q # r
      PROVE  /\ Tame(CompleteNews(q), r, c) /\ Tame(CancelNews(q), r, c) /\ Tame(FailNews(q), r, c)
             /\ Tame(AskNews(q), r, c) /\ Tame(StartNews(q), r, c)
             /\ Tame(<<News("assistant_message_cancelled", q, None)>>, r, c)
             /\ \A d : Tame(RequiredNews(q, d), r, c)
  <2>1. \A type, body : Mild(News(type, q, body))
    BY <1>1, <1>5
  <2>2. Tame(StartNews(q), r, c)
    <3> DEFINE e == News("assistant_message_started", q, None)
               f == News("assistant_approval_resolved", q, run[q].card)
    <3>1. StartNews(q) = <<>> \o <<e>> \/ StartNews(q) = <<f>> \o <<e>>
      BY DEF StartNews
    <3>2. Mild(e) /\ Mild(f)
      BY <2>1
    <3> HIDE DEF e, f
    <3>3. <<>> \o <<e>> = <<e>> /\ <<f>> \o <<e>> = <<f, e>>
      BY PairMade
    <3> QED
      BY <1>2, <3>1, <3>2, <3>3
  <2>3. /\ Tame(CompleteNews(q), r, c) /\ Tame(CancelNews(q), r, c) /\ Tame(FailNews(q), r, c)
        /\ Tame(AskNews(q), r, c) /\ Tame(<<News("assistant_message_cancelled", q, None)>>, r, c)
        /\ \A d : Tame(RequiredNews(q, d), r, c)
    BY <1>2, <2>1 DEF CompleteNews, CancelNews, FailNews, LastNews, AskNews, RequiredNews, Updated
  <2> QED
    BY <2>2, <2>3
<1>6. \A news : Tame(news, r, c) => Tame(Heard(q, news), r, c)
  BY <1>2 DEF Heard
<1> QED
  BY <1>2, <1>3, <1>4, <1>5, <1>6

(* The steps that can take a card away from a page that shows it, or tell  *)
(* it again.                                                               *)
Settles(r) == \/ Start(r) \/ Complete(r) \/ Cancel(r) \/ FailSend(r) \/ FailApproval(r)
              \/ AskApproval(r) \/ JoinEnds(r) \/ (ReceiveStop /\ Room = r)

LEMMA TameSteps ==
    ASSUME Typed, [Next]_vars, ~Disconnect, ~HandleEvent, NEW r \in Rooms, NEW c, ~Settles(r)
    PROVE  \E t \in Seq(AnyEvent) : down' = down \o t /\ Tame(t, r, c)
<1> DEFINE Goal == \E t \in Seq(AnyEvent) : down' = down \o t /\ Tame(t, r, c)
<1>0. down \in Seq(AnyEvent) /\ EventsOf(db', <<>>)
  BY EventSequences DEF Typed, DownType
<1>1. ASSUME UNCHANGED down PROVE Goal
  <2>1. down \o <<>> = down /\ <<>> \in Seq(AnyEvent)
    BY <1>0, ConcatEmptySeq
  <2> QED
    BY <1>1, <2>1, TameNews
<1>2. ASSUME NEW q \in Rooms, NEW news, Tame(news, r, c), Says(q, news) \/ SaysError(q, news)
      PROVE  Goal
  <2>1. /\ Heard(q, news) \in Seq(AnyEvent) /\ Replies(q) \in Seq(AnyEvent)
        /\ Heard(q, news) \o Replies(q) \in Seq(AnyEvent)
    BY <1>2, HeardOf DEF EventsOf, Says, SaysError
  <2>2. Tame(Heard(q, news), r, c) /\ Tame(Replies(q), r, c)
    BY <1>2, TameNews
  <2>3. Tame(Heard(q, news) \o Replies(q), r, c)
    BY <2>1, <2>2, ConcatAt DEF Tame
  <2> QED
    BY <1>2, <2>1, <2>2, <2>3 DEF Says, SaysError
<1>4. ASSUME NEW q \in Rooms, SaysBack(q) PROVE Goal
  <2>1. <<Error(q)>> \in Seq(AnyEvent)
    BY NewsMade, EventSequences DEF EventsOf
  <2> QED
    BY <1>4, <2>1, TameNews DEF SaysBack
<1> SUFFICES Goal
  OBVIOUS
<1> HIDE DEF Goal
<1>5. CASE User
  BY <1>1, <1>5 DEF User, EnterRoom, DeleteRoom, SendMessage, RetryMessage, RespondToApproval,
          StopGeneration, LoadOlder
<1>6. CASE Answers
  BY <1>1, <1>6 DEF Answers, ServeMessages, ApplyFirst, ApplyOlder, ServeDeletion, ApplyDeletion
<1>7. CASE Connect
  BY <1>1, <1>7 DEF Connect
<1>8. CASE Receive
  <2>1. Room \in Rooms
    BY <1>8, ReceivedRoom
  <2>2. CASE JoinBegins \/ LeaveRoom \/ ReceiveRetry \/ ReceiveResponse
    BY <1>1, <2>2 DEF JoinBegins, LeaveRoom, ReceiveRetry, ReceiveResponse
  <2>3. CASE ReceiveSend
    BY <1>2, <2>1, <2>3, TalksBack, TameNews
  <2>4. CASE ReceiveStop
    <3>1. Room # r
      BY <2>4 DEF Settles
    <3> QED
      BY <1>2, <2>1, <2>4, <3>1, TalksBack, TameNews
  <2>5. ASSUME NEW op, NEW refused, Refuse(op, refused) PROVE Goal
    BY <1>4, <2>1, <2>5, TalksBack
  <2> QED
    BY <1>8, <2>2, <2>3, <2>4, <2>5 DEF Receive
<1>9. ASSUME NEW q \in Rooms, JoinEnds(q) PROVE Goal
  <2>0. q # r
    BY <1>9 DEF Settles
  <2>1. CASE down' = down \o RequiredNews(q, cards[q]) /\ EventsOf(db', RequiredNews(q, cards[q]))
    <3>1. RequiredNews(q, cards[q]) \in Seq(AnyEvent) /\ Tame(RequiredNews(q, cards[q]), r, c)
      BY <2>0, <2>1, TameNews DEF EventsOf
    <3> QED
      BY <2>1, <3>1 DEF Goal
  <2> QED
    BY <1>1, <1>4, <1>9, <2>1, Talks
<1>10. ASSUME NEW q \in Rooms, Start(q) PROVE Goal
  <2>0. q # r
    BY <1>10 DEF Settles
  <2>1. Tame(StartNews(q), r, c)
    BY <2>0, TameNews
  <2> QED
    BY <1>2, <1>10, <2>1, Talks
<1>11. ASSUME NEW q \in Rooms, Delta(q) PROVE Goal
  BY <1>2, <1>11, TameNews, Talks
<1>12. ASSUME NEW q \in Rooms, Finish(q) PROVE Goal
  <2>1. CASE Complete(q) \/ Cancel(q) \/ FailSend(q) \/ AskApproval(q)
    <3>1. q # r
      BY <2>1 DEF Settles
    <3>2. /\ Tame(CompleteNews(q), r, c) /\ Tame(CancelNews(q), r, c) /\ Tame(FailNews(q), r, c)
          /\ Tame(AskNews(q), r, c)
      BY <3>1, TameNews
    <3> QED
      BY <1>2, <2>1, <3>2, Talks
  <2>2. CASE FailApproval(q)
    <3>1. q # r
      BY <2>2 DEF Settles
    <3>2. Tame(RequiredNews(q, run[q].card), r, c) /\ Tame(<<>>, r, c)
      BY <3>1, TameNews
    <3> QED
      BY <1>2, <2>2, <3>2, Talks
  <2>3. CASE FailRetry(q) \/ Unclear(q) \/ Close(q) \/ Vanish(q)
    <3>1. Tame(<<>>, r, c) /\ Tame(CloseNews(q), r, c)
      BY TameNews
    <3> QED
      BY <1>1, <1>2, <2>3, <3>1, Talks
  <2> QED
    BY <1>12, <2>1, <2>2, <2>3 DEF Finish
<1>13. CASE UNCHANGED vars
  BY <1>1, <1>13 DEF vars
<1> QED
  BY <1>5, <1>6, <1>7, <1>8, <1>9, <1>10, <1>11, <1>12, <1>13 DEF Next, Gateway

LEMMA CardToldAgain ==
    ASSUME Typed, NEW r \in Rooms, NEW c, NEW card
    PROVE  /\ Renews(RequiredNews(r, c), r, c)
           /\ c = NewCard(r) => Renews(AskNews(r), r, c)
           /\ \A news \in Seq(AnyEvent) : Renews(news, r, c) /\ down' = down \o news
                 => Told(down', card, r, c)
           /\ \A news \in Seq(AnyEvent) : Renews(news, r, c) /\ down' = (down \o news) \o Replies(r)
                 => Told(down', card, r, c)
<1>0. down \in Seq(AnyEvent)
  BY DEF Typed, DownType
<1>1. Renews(RequiredNews(r, c), r, c)
  <2> DEFINE e == News("assistant_approval_required", r, c)
  <2>1. Required(e, r, c) /\ RequiredNews(r, c) = <<e>>
    BY DEF Required, News, RequiredNews
  <2> HIDE DEF e
  <2>2. 1 \in 1..Len(<<e>>) /\ <<e>>[1] = e /\ \A j \in 2..Len(<<e>>) : FALSE
    OBVIOUS
  <2> QED
    BY <2>1, <2>2 DEF Renews
<1>2. ASSUME c = NewCard(r) PROVE Renews(AskNews(r), r, c)
  <2> DEFINE e == News("assistant_approval_required", r, c)
             f == News("message_created", r, Said(r, "completed"))
  <2>1. Required(e, r, c) /\ AskNews(r) = <<f, e>>
    BY <1>2 DEF Required, News, AskNews
  <2> HIDE DEF e, f
  <2>2. 2 \in 1..Len(<<f, e>>) /\ <<f, e>>[2] = e /\ \A j \in 3..Len(<<f, e>>) : FALSE
    OBVIOUS
  <2> QED
    BY <2>1, <2>2 DEF Renews
<1>3. ASSUME NEW news \in Seq(AnyEvent), Renews(news, r, c) PROVE Told(down \o news, card, r, c)
  BY <1>0, <1>3, ToldSteps
<1>4. ASSUME NEW news \in Seq(AnyEvent), Renews(news, r, c)
      PROVE  Told((down \o news) \o Replies(r), card, r, c)
  <2>1. down \o news \in Seq(AnyEvent)
    BY <1>0, <1>4, ConcatProperties
  <2>2. EventsOf(db, <<>>)
    BY EventSequences
  <2>3. Replies(r) \in Seq(AnyEvent) /\ Tame(Replies(r), r, c)
    BY <2>2, HeardOf, TameNews DEF EventsOf
  <2> QED
    BY <1>3, <1>4, <2>1, <2>3, ToldSteps
<1> QED
  BY <1>1, <1>2, <1>3, <1>4

(* An answer to the card that the page has not met yet goes on.            *)
LEMMA AnsweringNext ==
    ASSUME Typed, [Next]_vars, ~Disconnect, NEW r \in Rooms, r = ui.room, r \notin gone, calm',
           ~Settles(r), Answering(r)
    PROVE  Answering(r)'
<1>0. run \in [Rooms -> AnyRun] /\ run[r] \in AnyRun
  BY RunTypes
<1>1. Busy(r) /\ run[r].kind = "approval" /\ run[r].phase # "closing"
      /\ (run[r].phase = "accepted" => run[r].stop)
  BY DEF Answering, Busy
<1>2. CASE run'[r] = run[r]
  BY <1>2 DEF Answering
<1>3. ~(Room = r /\ (ReceiveSend \/ ReceiveRetry \/ ReceiveResponse \/ ReceiveStop))
  BY <1>1 DEF ReceiveSend, ReceiveRetry, ReceiveResponse, Settles
<1>4. CASE Delta(r)
  <2>1. run'[r].phase = "streaming" /\ run'[r].kind = run[r].kind
    BY <1>0, <1>4 DEF Delta, Runs, AnyRun
  <2> QED
    BY <1>1, <2>1 DEF Answering
<1>5. ~Finish(r)
  <2>1. ~FailRetry(r)
    BY <1>1 DEF FailRetry
  <2>2. ~Unclear(r)
    BY <1>1 DEF Unclear, InRoom, Runs
  <2>3. ~Close(r) /\ ~Vanish(r)
    BY <1>1 DEF Close, Vanish, InRoom, Runs
  <2> QED
    BY <2>1, <2>2, <2>3 DEF Finish, Settles
<1> QED
  BY <1>2, <1>3, <1>4, <1>5, RunSteps DEF Settles

LEMMA CardStays ==
    ASSUME Typed, RunCards, [Next]_vars, ~Disconnect, ~(\E q \in Rooms : EnterRoom(q)),
           NEW r \in Rooms, r = ui.room, ui'.room = r, r \notin gone, calm',
           Joins(up, joining \union joined, r), cards'[r] # None,
           cards[r] # None => Answering(r) \/ Awaited(r) \/ Told(down, ui.card, r, cards[r])
    PROVE  Answering(r)' \/ Awaited(r)' \/ Told(down', ui'.card, r, cards'[r])
<1>0. /\ run \in [Rooms -> AnyRun] /\ run[r] \in AnyRun /\ down \in Seq(AnyEvent)
      /\ cards \in [Rooms -> AnyCard \union {None}]
  BY RunTypes DEF Typed, DownType
<1>1. /\ run[r].phase \in {"accepted", "streaming"} /\ run[r].kind # "approval" => cards[r] = None
      /\ Busy(r) <=> run[r].phase \in {"accepted", "streaming", "closing"}
  BY <1>0 DEF RunCards, Busy, AnyRun
<1>2. r \notin joined => Awaited(r)
  BY DEF Joins, Asked, Awaited
<1>3. CASE HandleEvent
  <2>1. /\ down # <<>> /\ down' = Tail(down) /\ run' = run /\ joining' = joining /\ up' = up
        /\ cards' = cards
    BY <1>3, HandleFrame DEF server
  <2>2. Event = down[1]
    BY <2>1, EventType
  <2>3. cards[r] \in AnyCard
    BY <1>0, <2>1
  <2>4. /\ ui.card = cards[r] /\ ~Drops(down[1], r, cards[r]) => ui'.card = cards[r]
        /\ Required(down[1], r, cards[r]) => ui'.card = cards[r]
    BY <1>3, <2>2, <2>3, CardHandled
  <2>5. Told(down, ui.card, r, cards[r]) => Told(down', ui'.card, r, cards[r])
    BY <1>0, <2>1, <2>4, ToldSteps
  <2>6. (Answering(r) => Answering(r)') /\ (Awaited(r) => Awaited(r)')
    BY <2>1 DEF Answering, Awaited
  <2> QED
    BY <2>1, <2>5, <2>6
<1>4. CASE Start(r)
  <2>1. cards' = cards /\ run[r].kind = "approval"
    BY <1>1, <1>4 DEF Start, InRoom, Runs
  <2>2. run'[r].phase = "streaming" /\ run'[r].kind = run[r].kind
    BY <1>0, <1>4 DEF Start, AnyRun
  <2> QED
    BY <2>1, <2>2 DEF Answering
<1>5. ~Complete(r) /\ ~Cancel(r) /\ ~FailSend(r)
  <2>1. Complete(r) \/ Cancel(r) => /\ run[r].phase \in {"accepted", "streaming"}
                                   /\ cards'[r] = IF run[r].kind = "approval" THEN None ELSE cards[r]
    BY <1>0 DEF Complete, Cancel, InRoom, Runs
  <2>2. FailSend(r) => run[r].phase \in {"accepted", "streaming"} /\ run[r].kind # "approval" /\ cards' = cards
    BY DEF FailSend, InRoom, Runs
  <2> QED
    BY <1>1, <2>1, <2>2
<1>6. CASE FailApproval(r)
  <2>1. cards'[r] = run[r].card /\ TellError(r, RequiredNews(r, run[r].card))
    BY <1>0, <1>6 DEF FailApproval, RequiredNews
  <2>2. CASE r \in joined
    <3>1. CardOf(db, r, run[r].card)
      BY <1>6, RunTypes DEF FailApproval, InRoom, Runs, Busy
    <3>2. RequiredNews(r, run[r].card) \in Seq(AnyEvent)
      BY <3>1, NewsMade, EventSequences DEF RequiredNews, EventsOf
    <3>3. down' = (down \o RequiredNews(r, run[r].card)) \o Replies(r)
      BY <2>1, <2>2, Spoken DEF Heard
    <3> QED
      BY <2>1, <3>2, <3>3, CardToldAgain
  <2>3. CASE r \notin joined
    <3>1. ~JoinEnds(r)
      BY <1>6 DEF JoinEnds, FailApproval, InRoom, Runs
    <3> QED
      BY <1>2, <2>3, <3>1, AwaitedSteps
  <2> QED
    BY <2>2, <2>3
<1>7. CASE AskApproval(r)
  <2>1. cards'[r] = NewCard(r)
    BY <1>0, <1>7 DEF AskApproval, NewCard, Asker
  <2>2. Says(r, AskNews(r))
    BY <1>7, Talks
  <2>3. CASE r \in joined
    BY <2>1, <2>2, <2>3, CardToldAgain DEF Says, Heard, EventsOf
  <2>4. CASE r \notin joined
    <3>1. ~JoinEnds(r)
      BY <1>7 DEF JoinEnds, AskApproval, InRoom, Runs
    <3> QED
      BY <1>2, <2>4, <3>1, AwaitedSteps
  <2> QED
    BY <2>3, <2>4
<1>8. CASE JoinEnds(r)
  <2>1. cards' = cards /\ down' = Append(down, News("assistant_approval_required", r, cards[r]))
    BY <1>0, <1>8 DEF JoinEnds
  <2> DEFINE e == News("assistant_approval_required", r, cards[r])
  <2>2. CardOf(db, r, cards[r])
    BY <2>1, RunTypes
  <2>3. e \in AnyEvent /\ RequiredNews(r, cards[r]) = <<e>> /\ RequiredNews(r, cards[r]) \in Seq(AnyEvent)
    BY <2>2, NewsMade, EventSequences DEF RequiredNews, EventsOf, EventOf
  <2> HIDE DEF e
  <2>4. Append(down, e) = down \o RequiredNews(r, cards[r])
    BY <1>0, <2>3, AppendIsConcat
  <2> QED
    BY <2>1, <2>3, <2>4, CardToldAgain DEF e
<1>9. CASE ReceiveStop /\ Room = r
  <2>1. run[r].phase \in {"accepted", "streaming"} /\ cards' = cards
    BY <1>1, <1>9 DEF ReceiveStop
  <2>2. run'[r].phase = run[r].phase /\ run'[r].kind = run[r].kind /\ run'[r].stop
    BY <1>0, <1>9 DEF ReceiveStop, AnyRun
  <2> QED
    BY <1>1, <2>1, <2>2 DEF Answering
<1>10. CASE ~HandleEvent /\ ~Settles(r)
  <2>1. cards'[r] = cards[r]
    BY <1>10, CardSteps DEF Settles
  <2>2. Answering(r) => Answering(r)'
    BY <1>10, AnsweringNext
  <2>3. Awaited(r) => Awaited(r)'
    BY <1>10, AwaitedSteps DEF Settles
  <2>4. ui'.card = ui.card
    BY <1>10, CardKept
  <2>5. PICK t \in Seq(AnyEvent) : down' = down \o t /\ Tame(t, r, cards[r])
    BY <1>10, TameSteps
  <2>6. Told(down, ui.card, r, cards[r]) => Told(down', ui'.card, r, cards'[r])
    BY <1>0, <2>1, <2>4, <2>5, ToldSteps
  <2> QED
    BY <2>1, <2>2, <2>3, <2>6
<1> QED
  BY <1>3, <1>4, <1>5, <1>6, <1>7, <1>8, <1>9, <1>10 DEF Settles

LEMMA CardNext ==
    ASSUME Typed, RunCards, JoinInv, CardShown, [Next]_vars
    PROVE  CardShown'
<1>0. SUFFICES ASSUME NEW r, r = ui'.room, calm', Kept', cards'[r] # None
               PROVE  Answering(r)' \/ Awaited(r)' \/ Told(down', ui'.card, r, cards'[r])
  BY DEF CardShown, Answering, Awaited
<1>1. ASSUME r \in Rooms, EnterRoom(r) PROVE Awaited(r)'
  <2> DEFINE s == IF ui.room \in {None, r} THEN <<>> ELSE <<Request("leave", ui.room, None)>>
             j == Request("join", r, None)
  <2>1. up' = up \o (s \o <<j>>)
    BY <1>1 DEF EnterRoom, Emit
  <2>2. s \in Seq(AnyRequest) /\ j \in AnyRequest
    <3>1. ui.room \in {None, r} \/ ui.room \in Rooms
      BY DEF Typed, PageOf, AnyPage
    <3>2. RequestsOf(db, s) /\ RequestOf(db, j)
      BY <1>1, <3>1, RequestSequences, RequestMade
    <3> QED
      BY <3>2 DEF RequestsOf, RequestOf
  <2>3. j.op = "join" /\ j.room = r
    BY DEF Request
  <2> HIDE DEF s, j
  <2>4. Asked(<<j>>, r) /\ <<j>> \in Seq(AnyRequest)
    BY <1>1, <2>3, JoinRequested DEF j
  <2>5. Asked(s \o <<j>>, r) /\ s \o <<j>> \in Seq(AnyRequest)
    BY <2>2, <2>4, AskedSteps, ConcatProperties
  <2>6. up \in Seq(AnyRequest)
    BY DEF Typed, UpType
  <2>7. Asked(up', r)
    BY <2>1, <2>5, <2>6, AskedSteps
  <2> QED
    BY <2>1, <2>7 DEF Asked, Awaited
<1>2. CASE ~(\E q \in Rooms : EnterRoom(q))
  <2>1. Followed /\ ui'.room = ui.room /\ ui.room \in Rooms /\ ~Disconnect /\ calm
    <3>1. CASE Connect
      <4>1. calm /\ Kept /\ ui' = ui
        BY <1>0, <3>1 DEF Connect, Kept, client, server, history
      <4>2. ui.room \in Rooms
        BY <4>1 DEF Typed, PageOf, AnyPage, Kept
      <4> QED
        BY <3>1, <4>1, <4>2 DEF Connect, Disconnect, Followed
    <3>2. CASE ~Connect
      <4>1. Followed'
        BY <1>0 DEF Followed
      <4>2. calm
        BY <1>0, <1>2, CalmKept
      <4> QED
        BY <1>2, <3>2, <4>1, <4>2, FollowedBefore
    <3> QED
      BY <3>1, <3>2
  <2>2. Kept /\ ui.room \notin gone /\ Joins(up, joining \union joined, ui.room)
    BY <2>1 DEF Followed, Kept, JoinInv
  <2>3. cards[ui.room] # None => Answering(ui.room) \/ Awaited(ui.room) \/ Told(down, ui.card, ui.room, cards[ui.room])
    BY <2>1, <2>2 DEF CardShown
  <2>4. /\ r \in Rooms /\ r = ui.room /\ ui'.room = r /\ r \notin gone /\ cards'[r] # None
        /\ Joins(up, joining \union joined, r)
        /\ cards[r] # None => Answering(r) \/ Awaited(r) \/ Told(down, ui.card, r, cards[r])
    BY <1>0, <2>1, <2>2, <2>3
  <2> QED
    BY <1>0, <1>2, <2>1, <2>4, CardStays
<1>3. \A q \in Rooms : EnterRoom(q) => q = r
  BY <1>0 DEF EnterRoom, Fresh
<1> QED
  BY <1>1, <1>2, <1>3

LEMMA CardAlways == Spec => [](RunCards /\ CardShown)
<1>1. Init => RunCards /\ CardShown
  <2>1. \A r, k : Fresh(r, k).room = r
    BY DEF Fresh
  <2>2. Idle.phase = "idle"
    BY DEF Idle
  <2> QED
    BY <2>1, <2>2 DEF Init, RunCards, CardShown, Kept
<1>2. Typed /\ JoinInv /\ RunCards /\ CardShown /\ [Next]_vars => RunCards' /\ CardShown'
  BY RunCardsNext, CardNext
<1> QED
  BY <1>1, <1>2, TypedAlways, JoinAlways, PTL DEF Spec

(* ChatPage.tsx:145, 155-179, 504-509, 618-679 with chat.gateway.ts: what  *)
(* the pages and the events bring fits together.  A visit that nothing     *)
(* disturbed ends up showing the newest messages of its room as they are   *)
(* stored, all of them when no older page is left, and the card that waits.*)
THEOREM NothingMissingHolds == Spec => []NothingMissing
<1>1. Typed /\ LoadInv /\ MessagesInv /\ CardShown => NothingMissing
  <2> SUFFICES ASSUME Typed, LoadInv, MessagesInv, CardShown,
                      Quiet, calm, ui.room \notin gone \union {None}
               PROVE  LET all == db[ui.room]
                          k   == Len(all) - Len(ui.shown)
                      IN  /\ k >= 0 /\ ui.shown = SubSeq(all, k + 1, Len(all))
                          /\ (ui.cursor = 0) = (k = 0)
                          /\ cards[ui.room] # None => ui.card = cards[ui.room]
    BY DEF NothingMissing
  <2> DEFINE r   == ui.room
             s   == ui.shown
             c   == ui.cursor
             all == db[ui.room]
             k   == Len(all) - Len(s)
  <2>1. /\ ui \in AnyPage /\ r \in Rooms /\ all \in Seq(AnyMessage) /\ Len(all) \in Nat
        /\ s \in Seq(AnyMessage) /\ Len(s) \in Nat /\ c \in Nat /\ PageSize \in Nat \ {0}
    BY PageAssumption DEF Typed, PageOf, AnyPage, DbType
  <2>2. down = <<>> /\ up = <<>> /\ joining = {} /\ fetches = {} /\ run[r].phase = "idle"
        /\ deletion.stage # "sent"
    BY <2>1 DEF Quiet, Busy
  <2>3. Fits(s, c, all, <<>>, r)
    BY <2>2 DEF LoadInv, MessagesInv
  <2>4. cards[r] # None => ui.card = cards[r]
    <3>1. Kept
      BY <2>2 DEF Kept
    <3>2. ~Answering(r) /\ ~Awaited(r)
      BY <2>2 DEF Answering, Awaited
    <3>3. cards[r] # None => Told(<<>>, ui.card, r, cards[r])
      BY <2>2, <3>1, <3>2 DEF CardShown
    <3> QED
      BY <3>3 DEF Told, Renews
  <2> HIDE DEF r, s, c, all
  <2>5. \A n : ~Renewed(<<>>, r, n) /\ ~Coming(<<>>, r, n)
    BY DEF Renewed, Coming
  <2>6. /\ c # 0 => c > PageSize
        /\ Low(c) + Len(s) <= Len(all)
        /\ \A i \in 1..Len(s) : s[i] = all[Low(c) + i]
        /\ \A n \in 1..Len(all) : ~(n > Low(c) + Len(s))
    BY <2>3, <2>5 DEF Fits
  <2>7. Low(c) \in Nat /\ (c = 0 <=> Low(c) = 0)
    BY <2>1, <2>6 DEF Low
  <2>8. Low(c) + Len(s) = Len(all)
    <3>1. CASE Len(all) = 0
      BY <2>1, <2>6, <2>7, <3>1
    <3>2. CASE Len(all) # 0
      <4>1. Len(all) \in 1..Len(all)
        BY <2>1, <3>2
      <4> QED
        BY <2>1, <2>6, <2>7, <4>1
    <3> QED
      BY <3>1, <3>2
  <2>9. k = Low(c) /\ k \in Nat
    BY <2>1, <2>7, <2>8
  <2> HIDE DEF k
  <2>10. s = SubSeq(all, k + 1, Len(all))
    <3> DEFINE t == SubSeq(all, k + 1, Len(all))
    <3>1. \A i \in (k + 1)..Len(all) : all[i] \in AnyMessage
      BY <2>1, <2>9
    <3>2. /\ t \in Seq(AnyMessage)
          /\ Len(t) = IF k + 1 <= Len(all) THEN Len(all) - (k + 1) + 1 ELSE 0
          /\ \A i \in 1..(Len(all) - (k + 1) + 1) : t[i] = all[(k + 1) + i - 1]
      BY <2>1, <2>9, <3>1, SubSeqProperties
    <3> HIDE DEF t
    <3>3. Len(t) = Len(s)
      BY <2>1, <2>8, <2>9, <3>2
    <3>4. ASSUME NEW i \in 1..Len(s) PROVE s[i] = t[i]
      <4>1. i \in 1..(Len(all) - (k + 1) + 1) /\ (k + 1) + i - 1 = Low(c) + i
        BY <2>1, <2>8, <2>9
      <4> QED
        BY <2>6, <3>2, <4>1
    <3>5. s = t
      BY <2>1, <3>2, <3>3, <3>4, SeqEqual
    <3> QED
      BY <3>5 DEF t
  <2>11. k >= 0 /\ ((c = 0) = (k = 0))
    BY <2>7, <2>9
  <2> QED
    BY <2>4, <2>10, <2>11 DEF r, s, c, all, k
<1> QED
  BY <1>1, TypedAlways, WaitAlways, MessagesAlways, CardAlways, PTL
=============================================================================
