------------------------- MODULE UserMemoryRecords -------------------------
(***************************************************************************)
(* One long-term memory: the row of a user and a memoryKey                 *)
(* (user-memory.service.ts), written by the extractions of the user's      *)
(* messages, whose jobs end in any order and are retried, deleted through  *)
(* the agent's delete_user_memory and embedded by the backfill. Rows of    *)
(* other keys are independent.                                             *)
(*                                                                         *)
(* Messages are numbered in the order of their ids, which is that of their *)
(* createdAt; the clock is the number of messages so far. A content is the *)
(* number of the message it was extracted from; 0 is NULL or the empty     *)
(* string.                                                                 *)
(***************************************************************************)
EXTENDS Naturals

CONSTANTS
    N,           \* messages of the user
    Retries,     \* failures of one extraction
    DeleteRooms  \* TRUE: the user deletes rooms, and their messages

ASSUME RecordsAssumption ==
    N \in Nat \ {0} /\ Retries \in Nat /\ DeleteRooms \in BOOLEAN

VARIABLES
    memory,     \* the row
    sent,       \* messages sent so far
    message,    \* the extraction of each message
    card,       \* delete_user_memory: where it stands, what its card shows
    backfill,   \* the content that the backfill embeds, 0 when it rests
    lastDelete, \* history: deletedAt of the last deletion
    applied,    \* history: messages whose candidate was applied since then
    mistaken    \* history: a deletion hit another content than approved

recordsVars == <<memory, sent, message, card, backfill, lastDelete, applied, mistaken>>

Messages == 1..N
Actions  == {"UPSERT", "ARCHIVE"}

Row(status, source, content, embedding, deletedAt) ==
    [status |-> status, source |-> source, content |-> content,
     embedding |-> embedding, deletedAt |-> deletedAt]
NoRow     == Row("none", 0, 0, 0, 0)
LegacyRow == Row("ACTIVE", 1, 1, 0, 0)   \* from before embeddings were stored

Extraction(at, action) == [at |-> at, action |-> action, failures |-> 0]

RecordsInit ==
    /\ \/ /\ memory = NoRow /\ sent = 0 /\ applied = {}
          /\ message = [m \in Messages |-> Extraction("unsent", "UPSERT")]
       \/ /\ memory = LegacyRow /\ sent = 1 /\ applied = {1}
          /\ message = [m \in Messages |->
                            Extraction(IF m = 1 THEN "done" ELSE "unsent", "UPSERT")]
    /\ card = [at |-> "idle", shown |-> 0, time |-> 0]
    /\ backfill = 0
    /\ lastDelete = 0 /\ mistaken = FALSE

deletionHistory == <<lastDelete, mistaken>>

-----------------------------------------------------------------------------
(* The extraction of a message.                                            *)

Send ==
    /\ sent < N
    /\ sent' = sent + 1
    /\ message' = [message EXCEPT ![sent + 1].at = "queued"]
    /\ UNCHANGED <<memory, card, backfill, applied, deletionHistory>>

(* extractCandidates: the model archives only a memory that it was shown.  *)
Extract(m) ==
    /\ message[m].at = "queued"
    /\ \E action \in Actions :
        /\ action = "ARCHIVE" => memory.status = "ACTIVE"
        /\ message' = [message EXCEPT ![m].at = "write", ![m].action = action]
    /\ UNCHANGED <<memory, sent, card, backfill, applied, deletionHistory>>

Finish(m) == message' = [message EXCEPT ![m].at = "done"]

(* The row was written for no message, or for an older one.                *)
Older(m) == memory.source = 0 \/ memory.source < m

(* Variant: a deleted memory is written like any other.                    *)
MayUpsertDeleted(m) == Older(m)

MayUpsert(m) ==
    \/ memory.status # "DELETED" /\ Older(m)
    \/ memory.status = "DELETED" /\ m > memory.deletedAt

(* upsertExtractedMemory: INSERT ... ON CONFLICT DO UPDATE ... WHERE.      *)
Upsert(m) ==
    /\ message[m].at = "write" /\ message[m].action = "UPSERT"
    /\ IF MayUpsert(m)
       THEN /\ memory' = Row("ACTIVE", m, m, m, 0)
            /\ applied' = applied \cup {m}
       ELSE UNCHANGED <<memory, applied>>
    /\ Finish(m)
    /\ UNCHANGED <<sent, card, backfill, deletionHistory>>

(* Variant: any ACTIVE memory.                                             *)
ArchiveAnyway(m) ==
    /\ message[m].at = "write" /\ message[m].action = "ARCHIVE"
    /\ IF memory.status = "ACTIVE"
       THEN /\ memory' = [memory EXCEPT !.status = "ARCHIVED", !.source = m]
            /\ applied' = applied \cup {m}
       ELSE UNCHANGED <<memory, applied>>
    /\ Finish(m)
    /\ UNCHANGED <<sent, card, backfill, deletionHistory>>

(* archiveActiveMemoryByKey.                                               *)
Archive(m) ==
    /\ message[m].at = "write" /\ message[m].action = "ARCHIVE"
    /\ IF memory.status = "ACTIVE" /\ Older(m)
       THEN /\ memory' = [memory EXCEPT !.status = "ARCHIVED", !.source = m]
            /\ applied' = applied \cup {m}
       ELSE UNCHANGED <<memory, applied>>
    /\ Finish(m)
    /\ UNCHANGED <<sent, card, backfill, deletionHistory>>

(* A failure of any kind; the job is retried, also after its write when    *)
(* another candidate of the message fails.                                 *)
Fail(m) ==
    /\ message[m].at \in {"write", "done"} /\ message[m].failures < Retries
    /\ message' = [message EXCEPT ![m].at = "queued", ![m].failures = @ + 1]
    /\ UNCHANGED <<memory, sent, card, backfill, applied, deletionHistory>>

(* ON DELETE SET NULL; assertSourceMessageOwner refuses what comes later.  *)
DeleteRoomOf(m) ==
    /\ DeleteRooms /\ message[m].at \in {"queued", "write", "done"}
    /\ message' = [message EXCEPT ![m].at = "gone"]
    /\ memory' = [memory EXCEPT !.source = IF @ = m THEN 0 ELSE @]
    /\ UNCHANGED <<sent, card, backfill, applied, deletionHistory>>

-----------------------------------------------------------------------------
(* delete_user_memory.                                                     *)

ShowCard ==
    /\ card.at = "idle" /\ memory.status = "ACTIVE"
    /\ card' = [card EXCEPT !.at = "shown", !.shown = memory.content]
    /\ UNCHANGED <<memory, sent, message, backfill, applied, deletionHistory>>

Cancel ==
    /\ card.at = "shown"
    /\ card' = [card EXCEPT !.at = "idle"]
    /\ UNCHANGED <<memory, sent, message, backfill, applied, deletionHistory>>

(* The tool runs again from its start, and takes the time of the deletion. *)
Approve ==
    /\ card.at = "shown"
    /\ card' = IF memory.status = "ACTIVE"
               THEN [card EXCEPT !.at = "delete", !.time = sent]
               ELSE [card EXCEPT !.at = "idle"]
    /\ UNCHANGED <<memory, sent, message, backfill, applied, deletionHistory>>

(* deleteActiveMemory.                                                     *)
DeleteActive ==
    /\ card.at = "delete"
    /\ IF memory.status = "ACTIVE"
       THEN /\ memory' = Row("DELETED", 0, 0, 0, card.time)
            /\ lastDelete' = card.time /\ applied' = {}
            /\ mistaken' = (mistaken \/ memory.content # card.shown)
       ELSE UNCHANGED <<memory, applied, deletionHistory>>
    /\ card' = [card EXCEPT !.at = "idle"]
    /\ UNCHANGED <<sent, message, backfill>>

-----------------------------------------------------------------------------
(* backfillMissingEmbeddings: the row is read, its text is embedded, the   *)
(* vector is stored.                                                       *)

Missing == memory.status = "ACTIVE" /\ memory.embedding = 0

BackfillRead ==
    /\ backfill = 0 /\ Missing
    /\ backfill' = memory.content
    /\ UNCHANGED <<memory, sent, message, card, applied, deletionHistory>>

(* Variant: any ACTIVE row.                                                *)
BackfillWriteAnyway ==
    /\ backfill # 0
    /\ memory' = IF memory.status = "ACTIVE"
                 THEN [memory EXCEPT !.embedding = backfill] ELSE memory
    /\ backfill' = 0
    /\ UNCHANGED <<sent, message, card, applied, deletionHistory>>

BackfillWrite ==
    /\ backfill # 0
    /\ memory' = IF Missing THEN [memory EXCEPT !.embedding = backfill] ELSE memory
    /\ backfill' = 0
    /\ UNCHANGED <<sent, message, card, applied, deletionHistory>>

BackfillFails ==
    /\ backfill # 0
    /\ backfill' = 0
    /\ UNCHANGED <<memory, sent, message, card, applied, deletionHistory>>

-----------------------------------------------------------------------------
RecordsNext ==
    \/ Send
    \/ \E m \in Messages :
        Extract(m) \/ Upsert(m) \/ Archive(m) \/ Fail(m) \/ DeleteRoomOf(m)
    \/ ShowCard \/ Cancel \/ Approve \/ DeleteActive
    \/ BackfillRead \/ BackfillWrite \/ BackfillFails

RecordsSpec == RecordsInit /\ [][RecordsNext]_recordsVars

-----------------------------------------------------------------------------
(* Properties.                                                             *)

(* Every variable has its type; only a deleted row has a deletedAt.        *)
RecordsTypeOK ==
    /\ memory \in [status : {"none", "ACTIVE", "ARCHIVED", "DELETED"}, source : 0..N,
                   content : 0..N, embedding : 0..N, deletedAt : 0..N]
    /\ memory.deletedAt # 0 => memory.status = "DELETED"
    /\ sent \in 0..N
    /\ message \in [Messages -> [at : {"unsent", "queued", "write", "done", "gone"},
                                 action : Actions, failures : 0..Retries]]
    /\ card \in [at : {"idle", "shown", "delete"}, shown : 0..N, time : 0..N]
    /\ backfill \in 0..N
    /\ lastDelete \in 0..N /\ applied \subseteq Messages /\ mistaken \in BOOLEAN

(* A vector is that of the content it is found by, and nothing is left of  *)
(* a deleted memory (README.md:292).                                       *)
EmbeddingMatches ==
    /\ memory.embedding \in {0, memory.content}
    /\ memory.status = "DELETED" => memory.content = 0

(* A deleted room leaves the row of its message without a source, and open *)
(* to any message.                                                         *)
RoomsKept == \A m \in Messages : message[m].at # "gone"

(* However jobs are delayed and retried, the row holds the newest message  *)
(* that was applied since the last deletion, as long as rooms are kept.    *)
NewestWins ==
    RoomsKept /\ memory.status \in {"ACTIVE", "ARCHIVED"} =>
        \A m \in applied : m <= memory.source

(* README.md:291: a deleted memory does not come back from a message that  *)
(* the user wrote before the deletion, as long as rooms are kept.          *)
NotResurrected ==
    RoomsKept /\ memory.status = "ACTIVE" => memory.content > lastDelete

(* The same, whether or not rooms are kept.                                *)
NeverResurrected == memory.status = "ACTIVE" => memory.content > lastDelete

(* README.md:174-176, 288-289: what is deleted is what the approved card   *)
(* showed.                                                                 *)
ApprovedIsDeleted == ~mistaken
=============================================================================
