------------------------------ MODULE ChatPage ------------------------------
(***************************************************************************)
(* The chat page of apps/web (ChatPage.tsx, chatSocket.ts, chatApi.ts) in  *)
(* one tab, and as much of the gateway as it sees: the rooms its socket    *)
(* has joined, the messages in the database, one run per room, the card    *)
(* that waits there, and the events that are emitted.  ChatGateway says    *)
(* what happens inside a run.                                              *)
(*                                                                         *)
(* Socket events keep their order (up, down); the answers of HTTP requests *)
(* overtake them and each other.  What the socket had under way is lost    *)
(* when it drops; what the page emits while it is down is kept.            *)
(***************************************************************************)
EXTENDS Naturals, Sequences, FiniteSets

CONSTANTS
    Rooms,
    Stored,      \* the messages each room has at first: <<role, status>>
    Waiting,     \* rooms whose last message is a card's, and the card waits
    PageSize,    \* MESSAGE_PAGE_SIZE (10 in the code)
    Acts,        \* what the user does: a subset of Ops
    MaxActs,     \* bound on it
    MaxFaults,   \* bound on disconnections, refusals and failures
    MaxDeltas,   \* bound on the deltas of a run
    None

Ops == {"enter", "delete", "send", "retry", "respond", "stop", "older"}

AnyMessage == [room : Rooms, id : Nat, role : {"user", "assistant"},
               status : {"completed", "failed", "cancelled"}]
AnyCard    == [room : Rooms, id : Nat, user : Nat]

ASSUME PageAssumption ==
    /\ Stored \in [Rooms -> Seq({"user", "assistant"} \X {"completed", "failed"})]
    /\ Waiting \subseteq Rooms /\ \A r \in Waiting : Len(Stored[r]) >= 2
    /\ PageSize \in Nat \ {0}
    /\ Acts \subseteq Ops
    /\ {MaxActs, MaxFaults, MaxDeltas} \subseteq Nat
    /\ None \notin Rooms \union Nat \union AnyMessage \union AnyCard

VARIABLES
    ui,        \* the state and the refs of the page
    fetches,   \* requests for messages that are under way
    deletion,  \* the request to delete a room
    up,        \* emitted by the page, not yet received
    down,      \* emitted to the socket, not yet handled
    connected,
    joining,   \* rooms whose join_room waits for assertRoomOwner
    joined,    \* rooms of the server's socket
    db,        \* the messages of a room, by id
    gone,      \* rooms deleted in the database
    run,       \* processingRooms, and the handler of the room's run
    cards,     \* pendingApprovals: a card, or None
    acts, faults,
    calm,      \* history: nothing known has disturbed this visit of the room
    dropped,   \* history: the connection has dropped
    missed     \* history: rooms whose run ended unheard by the socket

client  == <<ui, fetches, deletion>>
server  == <<joining, joined, db, gone, run, cards>>
bounds  == <<acts, faults>>
history == <<calm, dropped, missed>>
vars    == <<client, up, down, connected, server, bounds, history>>

-----------------------------------------------------------------------------
(* Messages, cards and runs.  A failed message of the user can be retried. *)

Message(r, n, role, status) == [room |-> r, id |-> n, role |-> role, status |-> status]
Card(r, n, user)            == [room |-> r, id |-> n, user |-> user]

Idle == [phase |-> "idle", kind |-> "send", user |-> 0, card |-> None,
         mine |-> FALSE, stop |-> FALSE, deltas |-> 0, no |-> 0]

(* A room just entered (r # None), or the page without a room: nothing of  *)
(* the room shown before is left.                                          *)
Fresh(r, k) ==
    [room |-> r, request |-> k, shown |-> <<>>, cursor |-> 0, text |-> {},
     sending |-> FALSE, streaming |-> FALSE, loading |-> r # None,
     older |-> FALSE, card |-> None]

Init ==
    /\ ui = Fresh(None, 0) /\ fetches = {}
    /\ deletion = [room |-> None, stage |-> "none", current |-> FALSE]
    /\ up = <<>> /\ down = <<>> /\ connected = TRUE
    /\ joining = {} /\ joined = {} /\ gone = {}
    /\ db = [r \in Rooms |-> [n \in DOMAIN Stored[r] |->
                  Message(r, n, Stored[r][n][1], Stored[r][n][2])]]
    /\ run = [r \in Rooms |-> Idle]
    /\ cards = [r \in Rooms |-> IF r \notin Waiting THEN None
                                ELSE Card(r, Len(Stored[r]), Len(Stored[r]) - 1)]
    /\ acts = 0 /\ faults = 0 /\ calm = TRUE /\ dropped = FALSE /\ missed = {}

Removed  == IF deletion.stage = "done" THEN {deletion.room} ELSE {}
Busy(r)  == run[r].phase # "idle"
Ids      == {ui.shown[i].id : i \in DOMAIN ui.shown}

-----------------------------------------------------------------------------
(* What the user does.                                                     *)

Emit(messages) == up' = up \o messages
Request(op, r, arg) == [op |-> op, room |-> r, arg |-> arg]

Act(op) == op \in Acts /\ acts < MaxActs /\ acts' = acts + 1 /\ UNCHANGED faults
Fault   == faults < MaxFaults /\ faults' = faults + 1 /\ UNCHANGED acts

(* loadMessagesRequestIdRef.                                               *)
NextRequest == ui.request + 1

OnTheWay(r) == \E i \in DOMAIN down : down[i].room = r

(* enterRoom, up to its await.  An event of the room that is still on its  *)
(* way will be handled in the new visit, even if later ones were missed.   *)
EnterRoom(r) ==
    /\ Act("enter")
    /\ r \notin Removed
    /\ ui' = Fresh(r, NextRequest)
    /\ Emit((IF ui.room \in {None, r} THEN <<>> ELSE <<Request("leave", ui.room, None)>>)
            \o <<Request("join", r, None)>>)
    /\ fetches' = fetches \union
          {[kind |-> "first", room |-> r, request |-> NextRequest, cursor |-> 0,
            status |-> "sent", page |-> <<>>, next |-> 0]}
    /\ missed' = {q \in missed : OnTheWay(q)}
    /\ calm' = (r \notin missed')
    /\ UNCHANGED <<deletion, down, connected, server, dropped>>

SendMessage ==
    /\ Act("send")
    /\ ui.room # None /\ ~ui.sending /\ ~ui.streaming /\ ~ui.loading
    /\ ui' = [ui EXCEPT !.sending = TRUE]
    /\ Emit(<<Request("send", ui.room, None)>>)
    /\ UNCHANGED <<fetches, deletion, down, connected, server, history>>

RetryMessage ==
    /\ Act("retry")
    /\ ~ui.sending /\ ~ui.streaming /\ ~ui.loading /\ ui.card = None
    /\ \E i \in DOMAIN ui.shown :
          /\ ui.shown[i].role = "user" /\ ui.shown[i].status = "failed"
          /\ Emit(<<Request("retry", ui.room, ui.shown[i].id)>>)
    /\ ui' = [ui EXCEPT !.sending = TRUE, !.text = {}]
    /\ UNCHANGED <<fetches, deletion, down, connected, server, history>>

RespondToApproval ==
    /\ Act("respond")
    /\ ui.card # None /\ ~ui.sending /\ ~ui.streaming
    /\ ui' = [ui EXCEPT !.sending = TRUE]
    /\ Emit(<<Request("respond", ui.card.room, ui.card)>>)
    /\ UNCHANGED <<fetches, deletion, down, connected, server, history>>

StopGeneration ==
    /\ Act("stop")
    /\ ui.room # None /\ ui.streaming
    /\ ui' = [ui EXCEPT !.sending = FALSE, !.streaming = FALSE, !.text = {}]
    /\ Emit(<<Request("stop", ui.room, None)>>)
    /\ UNCHANGED <<fetches, deletion, down, connected, server, history>>

LoadOlder ==
    /\ Act("older")
    /\ ui.room # None /\ ui.cursor # 0 /\ ~ui.older /\ ~ui.loading
    /\ ui' = [ui EXCEPT !.older = TRUE]
    /\ fetches' = fetches \union
          {[kind |-> "older", room |-> ui.room, request |-> ui.request,
            cursor |-> ui.cursor, status |-> "sent", page |-> <<>>, next |-> 0]}
    /\ UNCHANGED <<deletion, up, down, connected, server, history>>

(* handleDeleteRoom, up to its await: whether the room is the current one  *)
(* is settled here, and used when the answer comes.                        *)
DeleteRoom(r) ==
    /\ Act("delete")
    /\ deletion.stage = "none"
    /\ deletion' = [room |-> r, stage |-> "sent", current |-> r = ui.room]
    /\ Emit(IF r # ui.room THEN <<>>
            ELSE (IF ui.sending \/ ui.streaming
                  THEN <<Request("stop", r, None)>> ELSE <<>>)
                 \o <<Request("leave", r, None)>>)
    /\ UNCHANGED <<ui, fetches, down, connected, server, history>>

-----------------------------------------------------------------------------
(* The answers of the HTTP requests: a request is served, and later its    *)
(* answer is handled.                                                      *)

(* getMessages: limit + 1 rows below the cursor, newest first.  The answer *)
(* is built from an object literal that reverses the page in place before  *)
(* it reads the last element for the cursor: nextCursor is the newest id.  *)
Page(messages, cursor) ==
    LET last  == IF cursor = 0 THEN Len(messages) ELSE cursor - 1
        more  == last > PageSize
        first == IF more THEN last - PageSize + 1 ELSE 1
    IN  [messages |-> SubSeq(messages, first, last), next |-> IF more THEN last ELSE 0]

ServeMessages(f) ==
    /\ f.status = "sent"
    /\ \/ /\ f.room \notin gone
          /\ LET p == Page(db[f.room], f.cursor)
             IN  fetches' = (fetches \ {f}) \union
                   {[f EXCEPT !.status = "answered", !.page = p.messages, !.next = p.next]}
          /\ UNCHANGED bounds
       \/ /\ IF f.room \in gone THEN UNCHANGED bounds ELSE Fault
          /\ fetches' = (fetches \ {f}) \union {[f EXCEPT !.status = "failed"]}
    /\ UNCHANGED <<ui, deletion, up, down, connected, server, history>>

(* enterRoom after its await: the answer of an earlier request is dropped. *)
ApplyFirst(f) ==
    LET current == f.request = ui.request /\ f.room = ui.room IN
    /\ f.kind = "first" /\ f.status # "sent"
    /\ fetches' = fetches \ {f}
    /\ ui' = IF ~current THEN ui
             ELSE IF f.status = "failed" THEN [ui EXCEPT !.loading = FALSE]
             ELSE [ui EXCEPT !.shown = f.page, !.cursor = f.next, !.loading = FALSE]
    /\ calm' = (calm /\ ~(current /\ f.status = "failed"))
    /\ UNCHANGED <<deletion, up, down, connected, server, bounds, dropped, missed>>

(* What a page has that is not shown, in its order.                        *)
Unshown(page) ==
    LET places   == {i \in DOMAIN page : page[i].id \notin Ids}
        place(k) == CHOOSE i \in places : Cardinality({j \in places : j < i}) = k - 1
    IN  [k \in 1..Cardinality(places) |-> page[place(k)]]

(* handleLoadOlderMessages after its await: only the room is compared, so  *)
(* a visit takes the older messages an earlier visit asked for.            *)
ApplyOlder(f) ==
    /\ f.kind = "older" /\ f.status # "sent"
    /\ fetches' = fetches \ {f}
    /\ ui' = IF f.room # ui.room THEN ui
             ELSE IF f.status = "failed" THEN [ui EXCEPT !.older = FALSE]
             ELSE [ui EXCEPT !.shown = Unshown(f.page) \o @,
                             !.cursor = f.next, !.older = FALSE]
    /\ calm' = (calm /\ (f.room # ui.room \/ f.request = ui.request))
    /\ UNCHANGED <<deletion, up, down, connected, server, bounds, dropped, missed>>

ServeDeletion ==
    /\ deletion.stage = "sent"
    /\ deletion' = [deletion EXCEPT !.stage = "served"]
    /\ gone' = gone \union {deletion.room}
    /\ UNCHANGED <<ui, fetches, up, down, connected, joining, joined, db, run, cards,
                   bounds, history>>

(* handleDeleteRoom after its await; a failed request ends it there, with  *)
(* the room left.                                                          *)
ApplyDeletion ==
    \/ /\ deletion.stage = "served"
       /\ deletion' = [deletion EXCEPT !.stage = "done"]
       /\ ui' = IF deletion.current THEN Fresh(None, NextRequest) ELSE ui
       /\ UNCHANGED <<fetches, up, down, connected, server, bounds, history>>
    \/ /\ deletion.stage \in {"sent", "served"} /\ Fault
       /\ deletion' = [deletion EXCEPT !.stage = "failed"]
       /\ calm' = FALSE
       /\ UNCHANGED <<ui, fetches, up, down, connected, server, dropped, missed>>

-----------------------------------------------------------------------------
(* The events of the socket.                                               *)

Incoming(type) ==
    /\ connected /\ down # <<>> /\ Head(down).type = type
    /\ down' = Tail(down)
    /\ UNCHANGED <<fetches, deletion, up, connected, server, bounds, dropped, missed>>

Event == Head(down)
Here  == Event.room = ui.room

AppendedAlways(page, m) == [page EXCEPT !.shown = Append(@, m)]   \* mutant: no test
Appended(page, m) ==
    IF m.id \in Ids THEN page ELSE [page EXCEPT !.shown = Append(@, m)]

Quieted(page) == [page EXCEPT !.sending = FALSE, !.streaming = FALSE, !.text = {}]

(* A message that came after so many others that the page no longer had it *)
(* is put at the end as well.                                              *)
Behind(m) == ~ui.loading /\ ui.shown # <<>> /\ m.id < Head(ui.shown).id

HandleMessageCreated ==
    /\ Incoming("message_created")
    /\ ui' = IF Here THEN Appended(ui, Event.body) ELSE ui
    /\ calm' = (calm /\ ~(Here /\ Behind(Event.body)))

HandleUpdatedAsNew ==   \* mutant: handled with appendMessage
    /\ Incoming("message_updated")
    /\ ui' = IF Here THEN Appended(ui, Event.body) ELSE ui
    /\ UNCHANGED calm

(* A message the page does not show is put at the end, whatever its id.    *)
HandleMessageUpdated ==
    LET m == Event.body
        updated(old) == IF old.id = m.id THEN m ELSE old
    IN
    /\ Incoming("message_updated")
    /\ ui' = IF ~Here THEN ui
             ELSE IF m.id \notin Ids THEN Appended(ui, m)
             ELSE [ui EXCEPT !.shown = [i \in DOMAIN @ |-> updated(@[i])]]
    /\ calm' = (calm /\ (~Here \/ ui.loading \/ m.id \in Ids))

HandleStarted ==
    /\ Incoming("assistant_message_started")
    /\ ui' = IF Here THEN [ui EXCEPT !.sending = FALSE, !.streaming = TRUE, !.text = {}]
             ELSE ui
    /\ UNCHANGED calm

HandleDeltaAnywhere ==   \* mutant: the room is not compared
    /\ Incoming("assistant_message_delta")
    /\ ui' = [ui EXCEPT !.text = @ \union {Event.body}]
    /\ UNCHANGED calm

HandleDelta ==
    /\ Incoming("assistant_message_delta")
    /\ ui' = IF Here THEN [ui EXCEPT !.text = @ \union {Event.body}] ELSE ui
    /\ UNCHANGED calm

(* assistant_message_completed, _failed and _cancelled: the last of them   *)
(* also comes without a message, when a stop is received.                  *)
HandleEnd ==
    /\ \/ Incoming("assistant_message_completed")
       \/ Incoming("assistant_message_failed")
       \/ Incoming("assistant_message_cancelled")
    /\ LET ended == [Quieted(ui) EXCEPT !.card = None]
       IN  ui' = IF ~Here THEN ui
                 ELSE IF Event.body = None THEN ended
                 ELSE Appended(ended, Event.body)
    /\ calm' = (calm /\ ~(Here /\ Event.body # None /\ Behind(Event.body)))

HandleApprovalRequired ==
    /\ Incoming("assistant_approval_required")
    /\ ui' = IF Here THEN [Quieted(ui) EXCEPT !.card = Event.body] ELSE ui
    /\ UNCHANGED calm

HandleApprovalResolved ==
    /\ Incoming("assistant_approval_resolved")
    /\ ui' = IF ~Here THEN ui
             ELSE [ui EXCEPT !.sending = FALSE,
                             !.card = IF @ = Event.body THEN None ELSE @]
    /\ UNCHANGED calm

HandleChatErrorShown ==   \* mutant: the error is shown, nothing is reset
    /\ Incoming("chat_error")
    /\ UNCHANGED <<ui, calm>>

(* An error names no room: it ends what any room is waiting for.           *)
HandleChatError ==
    /\ Incoming("chat_error")
    /\ ui' = Quieted(ui)
    /\ UNCHANGED calm

HandleEvent ==
    \/ HandleMessageCreated \/ HandleMessageUpdated
    \/ HandleStarted \/ HandleDelta \/ HandleEnd
    \/ HandleApprovalRequired \/ HandleApprovalResolved \/ HandleChatError

(* The connection drops: what was under way in either direction is lost,   *)
(* and the server's socket with its rooms.                                 *)
Disconnect ==
    /\ connected /\ Fault
    /\ connected' = FALSE /\ dropped' = TRUE
    /\ up' = <<>> /\ down' = <<>>
    /\ joining' = {} /\ joined' = {}
    /\ run' = [r \in Rooms |-> [run[r] EXCEPT !.mine = FALSE]]
    /\ calm' = FALSE
    /\ UNCHANGED <<client, db, gone, cards, missed>>

ConnectUnjoined ==   \* mutant: handleConnect does not join again
    /\ ~connected /\ connected' = TRUE
    /\ UNCHANGED <<client, up, down, server, bounds, history>>

(* What was emitted meanwhile is sent, then handleConnect joins the room.  *)
Connect ==
    /\ ~connected /\ connected' = TRUE
    /\ Emit(IF ui.room = None THEN <<>> ELSE <<Request("join", ui.room, None)>>)
    /\ UNCHANGED <<client, down, server, bounds, history>>

-----------------------------------------------------------------------------
(* The gateway.  Tell is server.to(room).emit, Reply is client.emit; a     *)
(* room's last event that finds the socket outside the room is missed.  A  *)
(* change is lost to a page that has been read but not applied, or whose   *)
(* socket has not joined yet; an unheard one makes what is on its way old. *)

News(type, r, body) == [type |-> type, room |-> r, body |-> body]
Error(r) == News("chat_error", r, None)

Tell(r, news)  == down' = IF r \in joined THEN down \o news ELSE down
Reply(r)       == down' = Append(down, Error(r))

(* A run tells the room, and an error to the socket that asked for it.     *)
TellError(r, news) ==
    down' = (IF r \in joined THEN down \o news ELSE down)
            \o (IF run[r].mine THEN <<Error(r)>> ELSE <<>>)

PageRead(r) == \A f \in fetches :
    f.kind = "first" /\ f.room = r /\ f.request = ui.request => f.status # "sent"
PageShown(r) == r \in joined /\ \A f \in fetches :
    ~(f.kind = "first" /\ f.room = r /\ f.request = ui.request)

Changed(r) ==
    calm' = (calm /\ (r = ui.room => IF PageRead(r) THEN PageShown(r)
                                     ELSE r \in joined \/ ~OnTheWay(r)))
Ended(r)   == missed' = IF r \in joined THEN missed ELSE missed \union {r}

Arrived(op) ==
    /\ connected /\ up # <<>> /\ Head(up).op = op
    /\ up' = Tail(up)
    /\ UNCHANGED <<client, connected, gone, joining, dropped>>

Room == Head(up).room

JoinBegins ==
    /\ connected /\ up # <<>> /\ Head(up).op = "join"
    /\ up' = Tail(up) /\ joining' = joining \union {Room}
    /\ UNCHANGED <<client, down, connected, joined, db, gone, run, cards, bounds, history>>

(* The rest of handleJoinRoom and restorePendingApproval: the card is sent *)
(* again, unless its interrupt is gone, as it is once an approval run has  *)
(* resumed it.                                                             *)
JoinEnds(r) ==
    LET resumed == run[r].kind = "approval" /\ run[r].phase = "streaming" IN
    /\ r \in joining
    /\ joining' = joining \ {r}
    /\ IF r \in gone THEN Reply(r) /\ UNCHANGED <<joined, cards>>
       ELSE /\ joined' = joined \union {r}
            /\ \/ /\ cards[r] = None
                  /\ UNCHANGED <<down, cards>>
               \/ /\ cards[r] # None
                  /\ down' = Append(down, News("assistant_approval_required", r, cards[r]))
                  /\ UNCHANGED cards
               \/ /\ cards[r] # None /\ resumed
                  /\ cards' = [cards EXCEPT ![r] = None]
                  /\ UNCHANGED down
    /\ UNCHANGED <<client, up, connected, db, gone, run, bounds, history>>

LeaveRoom ==
    /\ Arrived("leave")
    /\ joined' = joined \ {Room}
    /\ UNCHANGED <<down, db, run, cards, bounds, calm, missed>>

(* A request refused: the room is busy or gone, the rate limit, the lock   *)
(* or the card says no.                                                    *)
Refuse(op, refused) ==
    /\ Arrived(op)
    /\ IF refused \/ Room \in gone THEN UNCHANGED bounds ELSE Fault
    /\ Reply(Room)
    /\ UNCHANGED <<joined, db, run, cards, calm, missed>>

Accepted(r, kind, user, card) ==
    run' = [run EXCEPT ![r] =
              [phase |-> "accepted", kind |-> kind, user |-> user, card |-> card,
               mine |-> TRUE, stop |-> FALSE, deltas |-> 0, no |-> @.no + 1]]

NextId(r) == Len(db[r]) + 1
Said(r, status) == Message(r, NextId(r), "assistant", status)

Save(r, m) == db' = [db EXCEPT ![r] = Append(@, m)]

(* A new message, and a new status of the message that is answered.        *)
SaveWith(r, status, m) ==
    db' = [db EXCEPT ![r] = Append([@ EXCEPT ![run[r].user].status = status], m)]
Updated(r, status) ==
    News("message_updated", r, [db[r][run[r].user] EXCEPT !.status = status])

(* handleSendMessage up to its stream; while a card waits the message is   *)
(* an answer to it (processAgentApproval).                                 *)
ReceiveSend ==
    LET r == Room
        m == Message(r, NextId(r), "user", "completed")
    IN
    /\ Arrived("send")
    /\ ~Busy(r) /\ r \notin gone
    /\ Accepted(r, IF cards[r] = None THEN "send" ELSE "approval", m.id, cards[r])
    /\ Save(r, m)
    /\ Tell(r, <<News("message_created", r, m)>>)
    /\ Changed(r)
    /\ UNCHANGED <<joined, cards, bounds, missed>>

ReceiveRetry ==
    /\ Arrived("retry")
    /\ ~Busy(Room) /\ Room \notin gone /\ cards[Room] = None
    /\ Accepted(Room, "retry", Head(up).arg, None)
    /\ UNCHANGED <<down, joined, db, cards, bounds, calm, missed>>

(* processAgentApproval, of a button: the card must be the one that waits. *)
ReceiveResponse ==
    LET card == Head(up).arg IN
    /\ Arrived("respond")
    /\ ~Busy(Room) /\ Room \notin gone /\ cards[Room] = card
    /\ Accepted(Room, "approval", card.user, card)
    /\ UNCHANGED <<down, joined, db, cards, bounds, calm, missed>>

(* handleStopGeneration.  After a card was told its run is still there for *)
(* a moment: the page then clears a card that goes on waiting.             *)
ReceiveStop ==
    LET r == Room IN
    /\ Arrived("stop")
    /\ Busy(r) /\ r \notin gone
    /\ run' = [run EXCEPT ![r].stop = TRUE]
    /\ Tell(r, <<News("assistant_message_cancelled", r, None)>>)
    /\ calm' = (calm /\ ~(run[r].phase = "closing" /\ r = ui.room))
    /\ UNCHANGED <<joined, db, cards, bounds, missed>>

Receive ==
    \/ JoinBegins \/ LeaveRoom \/ ReceiveSend \/ ReceiveRetry \/ ReceiveResponse \/ ReceiveStop
    \/ Refuse("send", Busy(Room))
    \/ Refuse("retry", Busy(Room) \/ cards[Room] # None)
    \/ Refuse("respond", Busy(Room) \/ cards[Room] # Head(up).arg)
    \/ Refuse("stop", ~Busy(Room))

-----------------------------------------------------------------------------
(* The run of a room.                                                      *)

Runs(r, phases) ==
    /\ run[r].phase \in phases
    /\ UNCHANGED <<client, up, connected, joining, joined, gone, dropped>>

(* A step that asks for the room or saves in it: the room is there.        *)
InRoom(r, phases) == Runs(r, phases) /\ r \notin gone

Over(r) == run' = [run EXCEPT ![r] = [Idle EXCEPT !.no = run[r].no]]

(* assistant_message_started; of a retry only when the message is FAILED,  *)
(* of an approval once its decision is known.                              *)
Start(r) ==
    /\ InRoom(r, {"accepted"})
    /\ run[r].kind = "retry" => db[r][run[r].user].status = "failed"
    /\ run' = [run EXCEPT ![r].phase = "streaming"]
    /\ Tell(r, (IF run[r].kind # "approval" THEN <<>>
                ELSE <<News("assistant_approval_resolved", r, run[r].card)>>)
               \o <<News("assistant_message_started", r, None)>>)
    /\ UNCHANGED <<db, cards, bounds, calm, missed>>

(* A retry does not look at the stop between two events.                   *)
Delta(r) ==
    /\ Runs(r, {"streaming"})
    /\ run[r].deltas < MaxDeltas /\ (run[r].stop => run[r].kind = "retry")
    /\ run' = [run EXCEPT ![r].deltas = @ + 1]
    /\ Tell(r, <<News("assistant_message_delta", r, <<r, run[r].no>>)>>)
    /\ UNCHANGED <<db, cards, bounds, calm, missed>>

Complete(r) ==
    LET m == Said(r, "completed") IN
    /\ InRoom(r, {"streaming"}) /\ run[r].deltas > 0
    /\ IF run[r].kind = "retry"
       THEN /\ SaveWith(r, "completed", m)
            /\ Tell(r, <<Updated(r, "completed"),
                         News("assistant_message_completed", r, m)>>)
       ELSE /\ Save(r, m)
            /\ Tell(r, <<News("assistant_message_completed", r, m)>>)
    /\ cards' = [cards EXCEPT ![r] = IF run[r].kind = "approval" THEN None ELSE @]
    /\ Over(r) /\ Changed(r) /\ Ended(r) /\ UNCHANGED bounds

(* The run meets the stop, or its abort.                                   *)
Cancel(r) ==
    LET m == Said(r, "cancelled") IN
    /\ InRoom(r, {"accepted", "streaming"})
    /\ run[r].stop /\ run[r].kind # "retry"
    /\ SaveWith(r, "cancelled", m)
    /\ Tell(r, <<Updated(r, "cancelled"), News("assistant_message_cancelled", r, m)>>)
    /\ cards' = [cards EXCEPT ![r] = IF run[r].kind = "approval" THEN None ELSE @]
    /\ Over(r) /\ Changed(r) /\ Ended(r) /\ UNCHANGED bounds

FailSend(r) ==
    LET m == Said(r, "failed") IN
    /\ InRoom(r, {"accepted", "streaming"})
    /\ run[r].kind = "send" /\ ~run[r].stop
    /\ SaveWith(r, "failed", m)
    /\ Tell(r, <<Updated(r, "failed"), News("assistant_message_failed", r, m)>>)
    /\ Over(r) /\ Changed(r) /\ Ended(r) /\ Fault
    /\ UNCHANGED cards

FailRetry(r) ==
    /\ InRoom(r, {"accepted", "streaming"}) /\ run[r].kind = "retry"
    /\ IF run[r].stop \/ db[r][run[r].user].status # "failed" THEN UNCHANGED bounds ELSE Fault
    /\ TellError(r, <<>>)
    /\ Over(r)
    /\ UNCHANGED <<db, cards, calm, missed>>

(* The interrupt still waits and the card is kept, or it was resumed and   *)
(* the card is gone: a page that was told it again meanwhile keeps it.     *)
FailApproval(r) ==
    /\ InRoom(r, {"accepted", "streaming"})
    /\ run[r].kind = "approval" /\ ~run[r].stop
    /\ \/ /\ cards' = [cards EXCEPT ![r] = run[r].card]
          /\ TellError(r, <<News("assistant_approval_required", r, run[r].card)>>)
       \/ /\ run[r].phase = "streaming"
          /\ cards' = [cards EXCEPT ![r] = None]
          /\ TellError(r, <<>>)
    /\ Over(r) /\ Changed(r) /\ Ended(r) /\ Fault
    /\ UNCHANGED db

(* A message that neither approves nor cancels nor revises. After a stop   *)
(* the page has cleared a card that goes on waiting.                       *)
Unclear(r) ==
    /\ InRoom(r, {"accepted"})
    /\ run[r].kind = "approval" /\ run[r].user # run[r].card.user
    /\ TellError(r, <<>>)
    /\ Over(r)
    /\ calm' = (calm /\ ~(run[r].stop /\ r = ui.room))
    /\ UNCHANGED <<db, cards, bounds, missed>>

(* setPendingApproval: the card's message, then the card.                  *)
AskApproval(r) ==
    LET m    == Said(r, "completed")
        user == IF run[r].kind = "approval" THEN run[r].card.user ELSE run[r].user
        card == Card(r, m.id, user)
    IN
    /\ InRoom(r, {"streaming"})
    /\ "respond" \in Acts
    /\ Save(r, m)
    /\ cards' = [cards EXCEPT ![r] = card]
    /\ Tell(r, <<News("message_created", r, m),
                 News("assistant_approval_required", r, card)>>)
    /\ run' = [run EXCEPT ![r].phase = "closing"]
    /\ Changed(r) /\ Ended(r) /\ UNCHANGED bounds

(* The run is over; a retried message is COMPLETED first.                  *)
Close(r) ==
    LET failed == run[r].kind = "retry" /\ db[r][run[r].user].status = "failed" IN
    /\ InRoom(r, {"closing"})
    /\ db' = IF failed THEN [db EXCEPT ![r][run[r].user].status = "completed"] ELSE db
    /\ IF failed THEN Tell(r, <<Updated(r, "completed")>>) /\ Changed(r) /\ Ended(r)
                 ELSE UNCHANGED <<down, calm, missed>>
    /\ Over(r)
    /\ UNCHANGED <<cards, bounds>>

(* Nothing of a deleted room can be saved: a retry and an approval may     *)
(* still report an error, the other handlers end in the exception of their *)
(* catch block.                                                            *)
Vanish(r) ==
    /\ Busy(r) /\ r \in gone
    /\ \/ run[r].kind # "send" /\ TellError(r, <<>>)
       \/ run[r].kind # "retry" /\ UNCHANGED down
    /\ Over(r)
    /\ UNCHANGED <<client, up, connected, joining, joined, db, gone, cards, bounds, history>>

Finish(r) ==
    \/ Complete(r) \/ Cancel(r) \/ FailSend(r) \/ FailRetry(r) \/ FailApproval(r)
    \/ Unclear(r) \/ AskApproval(r) \/ Close(r) \/ Vanish(r)

-----------------------------------------------------------------------------
User ==
    \/ \E r \in Rooms : EnterRoom(r) \/ DeleteRoom(r)
    \/ SendMessage \/ RetryMessage \/ RespondToApproval \/ StopGeneration \/ LoadOlder

Answers ==
    \/ \E f \in fetches : ServeMessages(f) \/ ApplyFirst(f) \/ ApplyOlder(f)
    \/ ServeDeletion \/ ApplyDeletion

Gateway == Receive \/ \E r \in Rooms : JoinEnds(r) \/ Start(r) \/ Delta(r) \/ Finish(r)

Next == User \/ Answers \/ HandleEvent \/ Disconnect \/ Connect \/ Gateway

Spec == Init /\ [][Next]_vars

-----------------------------------------------------------------------------
TypeOK ==
    /\ ui.room \in Rooms \union {None} /\ ui.request \in Nat /\ ui.cursor \in Nat
    /\ ui.text \subseteq Rooms \X Nat
    /\ \A flag \in {ui.sending, ui.streaming, ui.loading, ui.older} : flag \in BOOLEAN
    /\ \A i \in DOMAIN ui.shown : ui.shown[i].id \in 1..Len(db[ui.shown[i].room])
    /\ \A f \in fetches : f.kind \in {"first", "older"} /\ f.room \in Rooms
          /\ f.status \in {"sent", "answered", "failed"} /\ f.request \in 1..ui.request
          /\ f.cursor \in 0..Len(db[f.room]) /\ f.next \in 0..Len(db[f.room])
    /\ deletion.stage \in {"none", "sent", "served", "done", "failed"}
    /\ joining \subseteq Rooms /\ joined \subseteq Rooms /\ gone \subseteq Rooms
    /\ \A r \in Rooms : \A n \in DOMAIN db[r] : db[r][n].id = n /\ db[r][n].room = r
    /\ \A r \in Rooms : run[r].phase \in {"idle", "accepted", "streaming", "closing"}
          /\ run[r].kind \in {"send", "retry", "approval"}
          /\ Busy(r) => run[r].user \in DOMAIN db[r]
    /\ {connected, calm, dropped} \subseteq BOOLEAN /\ missed \subseteq Rooms
    /\ acts \in 0..MaxActs /\ faults \in 0..MaxFaults

(* What is shown, the card included, belongs to the selected room, and no  *)
(* message is shown twice.  Guards ChatPage.tsx:145, 504-509, 618-658.     *)
ShownOnce ==
    /\ \A i \in DOMAIN ui.shown : ui.shown[i].room = ui.room
    /\ Cardinality(Ids) = Len(ui.shown)
    /\ ui.card # None => ui.card.room = ui.room

(* The text that streams is of one run of the selected room: deltas of an  *)
(* earlier run or of a room left are not mixed in, unless the connection   *)
(* dropped or the socket was not in the room when a run ended: the next    *)
(* one may have started unheard as well.  ChatPage.tsx:155-179.            *)
OneRunStreamed ==
    ~dropped /\ ui.room \notin missed =>
        \A d, e \in ui.text : d[1] = ui.room /\ d = e

Quiet ==
    /\ connected /\ up = <<>> /\ down = <<>> /\ joining = {}
    /\ fetches = {} /\ deletion.stage \notin {"sent", "served"}
    /\ \A r \in Rooms : ~Busy(r)

(* Once nothing is under way, nothing spins and the input is free, unless  *)
(* the connection dropped or the room's run ended while the socket was not *)
(* in it.  ChatPage.tsx: every handler that ends a wait.                   *)
FlagsSettle ==
    Quiet /\ ~dropped /\ ui.room \notin gone \union missed
        => ~(ui.sending \/ ui.streaming \/ ui.loading \/ ui.older)

(* A visit that nothing disturbed ends up showing the newest messages of   *)
(* the room as they are in the database, without a gap, all of them just   *)
(* when no more can be loaded, and the card that waits: the first page and *)
(* the events, the older pages and the events, fit together.               *)
NothingMissing ==
    Quiet /\ calm /\ ui.room \notin gone \union {None} =>
        LET all == db[ui.room]
            k   == Len(all) - Len(ui.shown)
        IN  /\ k >= 0 /\ ui.shown = SubSeq(all, k + 1, Len(all))
            /\ (ui.cursor = 0) = (k = 0)
            /\ cards[ui.room] # None => ui.card = cards[ui.room]

(* Whatever drops, and however rooms are left and entered meanwhile, the   *)
(* selected room is joined in the end (README: the room is joined again    *)
(* after a reconnection).  Only a deletion has left it.                    *)
Rejoined ==
    Quiet /\ ui.room \notin gone \union {None, deletion.room} => ui.room \in joined

(* An older page brings messages that were not there: the cursor goes back *)
(* by a whole page.                                                        *)
OlderPageIsNew ==
    \A f \in fetches :
        f.kind = "older" /\ f.status = "answered" /\ f.request = ui.request
            => \A i \in DOMAIN f.page : f.page[i].id \notin Ids
=============================================================================
