---------------------------- MODULE ChatSummary ----------------------------
(***************************************************************************)
(* The running summary of a room (chat-summary.service.ts, chat.service.ts *)
(* 190-329) and the context an agent is given: the summary, and the        *)
(* COMPLETED messages after the last one it covers. Every answer starts a  *)
(* summary in the background (chat.gateway.ts:422, 679); they overlap.     *)
(*                                                                         *)
(* A message is its id and its role; a summary, the messages merged in it. *)
(***************************************************************************)
EXTENDS Naturals, Sequences, FiniteSets, SequencesExt

CONSTANTS
    Recent,       \* RECENT_CONTEXT_MESSAGE_LIMIT (20)
    Batch,        \* SUMMARY_MESSAGE_BATCH_LIMIT (40)
    MaxMessages,  \* bound on the messages of the room
    MaxFailures   \* bound on failed generations

ASSUME SummaryAssumption ==
    /\ Recent \in Nat /\ Batch \in Nat \ {0}
    /\ MaxMessages \in Nat /\ MaxFailures \in Nat

Ids == 1..MaxMessages

VARIABLES
    messages,  \* the rows of ChatMessage in the order of their ids
    open,      \* user messages whose generation or approval is under way
    failures,  \* failed generations so far
    summary,   \* ChatRoom.summary
    through,   \* ChatRoom.summaryThroughMessageId, 0 for null
    run        \* the summary started by an answer

vars == <<messages, open, failures, summary, through, run>>

Idle == [at |-> "none", summary |-> <<>>, through |-> 0, take |-> 0, batch |-> <<>>]

Init ==
    /\ messages = <<>> /\ open = {} /\ failures = 0
    /\ summary = <<>> /\ through = 0
    /\ run = [i \in Ids |-> Idle]

-----------------------------------------------------------------------------
(* The conversation.                                                       *)

Row(role, status) == [role |-> role, status |-> status]
Room(n) == Len(messages) + n <= MaxMessages
NextId == Len(messages) + 1

Send ==
    /\ Room(1)
    /\ messages' = Append(messages, Row("USER", "COMPLETED"))
    /\ open' = open \cup {NextId}
    /\ UNCHANGED <<failures, summary, through, run>>

(* An answer to a message; after an approval no summary is started.        *)
Answer(m) ==
    /\ m \in open /\ Room(1)
    /\ messages' = Append(messages, Row("ASSISTANT", "COMPLETED"))
    /\ open' = open \ {m}
    /\ \E at \in {"none", "room"} : run' = [run EXCEPT ![NextId].at = at]
    /\ UNCHANGED <<failures, summary, through>>

(* failGeneration and cancelGeneration.                                    *)
End(m, status) ==
    /\ m \in open /\ Room(1)
    /\ messages' = Append([messages EXCEPT ![m].status = status], Row("ASSISTANT", status))
    /\ open' = open \ {m}
    /\ UNCHANGED <<summary, through, run>>

Fail(m) ==
    /\ failures < MaxFailures
    /\ End(m, "FAILED")
    /\ failures' = failures + 1

Stop(m) == End(m, "CANCELLED") /\ UNCHANGED failures

(* A retry that is answered, and one that asks for an approval.            *)
Retry(m) ==
    /\ m \in 1..Len(messages)
    /\ messages[m] = Row("USER", "FAILED")
    /\ \/ /\ Room(1)
          /\ messages' = Append([messages EXCEPT ![m].status = "COMPLETED"],
                                Row("ASSISTANT", "COMPLETED"))
          /\ run' = [run EXCEPT ![NextId].at = "room"]
          /\ UNCHANGED open
       \/ /\ messages' = [messages EXCEPT ![m].status = "COMPLETED"]
          /\ open' = open \cup {m}
          /\ UNCHANGED run
    /\ UNCHANGED <<failures, summary, through>>

-----------------------------------------------------------------------------
(* summarizeRoom, cut at its queries and at the model's answer.            *)

(* The ids of the COMPLETED messages after a given one, in order.          *)
Later(id) == {m \in 1..Len(messages) : m > id /\ messages[m].status = "COMPLETED"}

Rank(S, m)   == Cardinality({n \in S : n <= m})
Ascending(S) == [i \in 1..Cardinality(S) |-> CHOOSE m \in S : Rank(S, m) = i]

After(id) == Ascending(Later(id))

Least(a, b) == IF a < b THEN a ELSE b

ReadRoom(r) ==
    /\ run[r].at = "room"
    /\ run' = [run EXCEPT ![r].at = "count", ![r].summary = summary, ![r].through = through]
    /\ UNCHANGED <<messages, open, failures, summary, through>>

(* As many as are no longer recent; none, and there is nothing to do.      *)
Count(r) ==
    LET n == Len(After(run[r].through)) IN
    /\ run[r].at = "count"
    /\ run' = [run EXCEPT ![r] = IF n <= Recent THEN Idle
                                 ELSE [@ EXCEPT !.at = "find",
                                                !.take = Least(n - Recent, Batch)]]
    /\ UNCHANGED <<messages, open, failures, summary, through>>

(* A question at the end of the batch waits for its answer.                *)
WithoutQuestion(ids) ==
    IF ids # <<>> /\ messages[Last(ids)].role = "USER" THEN Front(ids) ELSE ids

TakeBatch(r, ids) ==
    /\ run[r].at = "find"
    /\ run' = [run EXCEPT ![r] = IF ids = <<>> THEN Idle
                                 ELSE [@ EXCEPT !.at = "generate", !.batch = ids]]
    /\ UNCHANGED <<messages, open, failures, summary, through>>

(* Variants: the newest messages are taken; the summary is not regarded.   *)
FindNewest(r) ==
    LET ids == After(run[r].through) IN
    TakeBatch(r, WithoutQuestion(SubSeq(ids, Len(ids) - Least(run[r].take, Len(ids)) + 1, Len(ids))))
FindAgain(r) == TakeBatch(r, WithoutQuestion(SubSeq(After(0), 1, run[r].take)))

Find(r) ==
    LET ids == After(run[r].through) IN
    TakeBatch(r, WithoutQuestion(SubSeq(ids, 1, Least(run[r].take, Len(ids)))))

Generated(r) == run[r].summary \o run[r].batch

(* Variant: what was read is not compared.                                 *)
SaveAnyway(r) ==
    /\ run[r].at = "generate"
    /\ summary' = Generated(r) /\ through' = Last(run[r].batch)
    /\ run' = [run EXCEPT ![r] = Idle]
    /\ UNCHANGED <<messages, open, failures>>

(* The model has answered; STALE if another summary was saved meanwhile.   *)
Save(r) ==
    /\ run[r].at = "generate"
    /\ IF through = run[r].through
       THEN summary' = Generated(r) /\ through' = Last(run[r].batch)
       ELSE UNCHANGED <<summary, through>>
    /\ run' = [run EXCEPT ![r] = Idle]
    /\ UNCHANGED <<messages, open, failures>>

(* A query or the model fails, or the process stops; the error is logged.  *)
GiveUp(r) ==
    /\ run[r].at # "none"
    /\ run' = [run EXCEPT ![r] = Idle]
    /\ UNCHANGED <<messages, open, failures, summary, through>>

Next ==
    \/ Send
    \/ \E m \in Ids : Answer(m) \/ Fail(m) \/ Stop(m) \/ Retry(m)
    \/ \E r \in Ids : ReadRoom(r) \/ Count(r) \/ Find(r) \/ Save(r) \/ GiveUp(r)

Spec == Init /\ [][Next]_vars

-----------------------------------------------------------------------------
(* Properties.                                                             *)

(* Every variable has its type, and a run that asks the model a batch.     *)
TypeOK ==
    /\ messages \in Seq([role : {"USER", "ASSISTANT"},
                         status : {"COMPLETED", "FAILED", "CANCELLED"}])
    /\ Len(messages) <= MaxMessages
    /\ open \subseteq 1..Len(messages)
    /\ failures \in 0..MaxFailures
    /\ summary \in Seq(Ids) /\ through \in 0..MaxMessages
    /\ run \in [Ids -> [at : {"none", "room", "count", "find", "generate"},
                        summary : Seq(Ids), through : 0..MaxMessages,
                        take : 0..Batch, batch : Seq(Ids)]]
    /\ \A r \in Ids : run[r].at = "generate" => run[r].batch # <<>>

(* However summaries overlap, a message is merged once and in order, and   *)
(* the room records the last of them.                                      *)
MergedOnce ==
    /\ \A i, j \in 1..Len(summary) : i < j => summary[i] < summary[j]
    /\ through = IF summary = <<>> THEN 0 ELSE Last(summary)

(* A summary that comes late does not undo what another has merged.        *)
SummaryGrows == [][IsPrefix(summary, summary')]_vars

(* getContextMessages.                                                     *)
Context ==
    LET ids == After(through) IN
    IF summary = <<>> THEN SubSeq(ids, Len(ids) - Least(Recent, Len(ids)) + 1, Len(ids))
    ELSE summary \o ids

Complete ==
    \A m \in 1..Len(messages) :
        messages[m].status = "COMPLETED" => Contains(Context, m)

(* README.md:59, the summary and the messages after it make up the context *)
(* of the agent: once there is a summary, no COMPLETED message of the room *)
(* is missing from it, as long as no generation failed. A message that a   *)
(* summary passed over while it was FAILED is COMPLETED by its retry, and  *)
(* is in neither.                                                          *)
NothingForgotten    == summary # <<>> /\ failures = 0 => Complete
RetriedIsRemembered == summary # <<>> => Complete
=============================================================================
