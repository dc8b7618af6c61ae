---------------------------- MODULE RagDocument ----------------------------
(***************************************************************************)
(* The life of one RAG document: its file, its row, its chunks and its     *)
(* BullMQ job. The API uploads, reprocesses and deletes it                 *)
(* (rag-document.service.ts), workers ingest it (rag-document.processor.ts) *)
(* and every minute a recovery looks for documents that have been in       *)
(* PROCESSING for five minutes (recoverStuckProcessingDocuments).          *)
(*                                                                         *)
(* updatedAt is only ever compared with the value that a recovery listed,  *)
(* or with five minutes ago: the model keeps who has listed the row as it  *)
(* is now, and whether it is that old. Every update of the row resets both. *)
(***************************************************************************)
EXTENDS BullMQ

CONSTANTS
    Requests,    \* reprocess and delete requests of the user
    Kinds,       \* what they may ask for, of {"reprocess", "delete"}
    Workers, Recoverers,
    Zombies,     \* TRUE: a living worker may lose its job
    MaxFaults    \* bound on crashes, losses and failing calls

ASSUME DocumentAssumption ==
    /\ Kinds \subseteq {"reprocess", "delete"}
    /\ MaxFaults \in Nat /\ Zombies \in BOOLEAN
    /\ None \notin Workers \cup Recoverers

VARIABLES
    file,      \* the uploaded file is in the storage
    status,    \* RagDocument.status, "none" without a row
    overdue,   \* updatedAt is five minutes ago
    listed,    \* recoverers that listed the row with its present updatedAt
    chunks,    \* the row has chunks
    job,       \* the job "rag-document-<id>"
    upload,    \* where createPendingDocument stands
    request,   \* where each request stands, and what it asks for
    worker,    \* a worker: where it stands, its attempt, its outcome
    recovery,  \* where a recoverer stands
    lock,      \* Redis lock of the recovery
    faults

row   == <<status, overdue, listed, chunks>>
users == <<upload, request>>
vars  == <<file, row, job, users, worker, recovery, lock, faults>>

WorkerAt(at, attempts) == [at |-> at, attempts |-> attempts, outcome |-> "ok"]
Idle == WorkerAt("idle", 0)

Init ==
    /\ file = FALSE
    /\ status = "none" /\ overdue = FALSE /\ listed = {} /\ chunks = FALSE
    /\ job = NoJob
    /\ upload = "write"
    /\ request \in [Requests -> [at : {"find"}, kind : Kinds]]
    /\ worker = [w \in Workers |-> Idle]
    /\ recovery = [r \in Recoverers |-> "idle"]
    /\ lock = None
    /\ faults = 0

Fault == faults < MaxFaults /\ faults' = faults + 1

HasRow == status \notin {"none", "deleted"}

(* An update of the row: @updatedAt is set.                                *)
Update(s) ==
    /\ status' = s /\ overdue' = FALSE /\ listed' = {}
    /\ UNCHANGED chunks

(* updateMany with a condition on the row; it may match nothing.           *)
UpdateIf(cond, s) == IF cond THEN Update(s) ELSE UNCHANGED row

-----------------------------------------------------------------------------
(* createPendingDocument.                                                  *)

WriteFile ==
    /\ upload = "write"
    /\ file' = TRUE /\ upload' = "create"
    /\ UNCHANGED <<row, job, request, worker, recovery, lock, faults>>

CreateRow ==
    /\ upload = "create"
    /\ Update("PENDING") /\ upload' = "enqueue"
    /\ UNCHANGED <<file, job, request, worker, recovery, lock, faults>>

(* The insert fails, or only its answer is lost: no documentId either way. *)
CreateFails ==
    /\ upload = "create" /\ Fault
    /\ UNCHANGED row \/ Update("PENDING")
    /\ upload' = "cleanup"
    /\ UNCHANGED <<file, job, request, worker, recovery, lock>>

DeleteUpload ==
    /\ upload = "cleanup"
    /\ file' \in {file, FALSE} /\ upload' = "refused"
    /\ UNCHANGED <<row, job, request, worker, recovery, lock, faults>>

EnqueueUpload ==
    /\ upload = "enqueue"
    /\ job' = Added(job) /\ upload' = "done"
    /\ UNCHANGED <<file, row, request, worker, recovery, lock, faults>>

(* queue.add() fails, or only its answer is lost.                          *)
EnqueueUploadFails ==
    /\ upload = "enqueue" /\ Fault
    /\ job' \in {job, Added(job)} /\ upload' = "fail"
    /\ UNCHANGED <<file, row, request, worker, recovery, lock>>

(* Variant: the file of a failed upload is always deleted.                 *)
FailUploadAndFile ==
    /\ upload = "fail"
    /\ UpdateIf(HasRow, "FAILED") /\ file' = FALSE /\ upload' = "done"
    /\ UNCHANGED <<job, request, worker, recovery, lock, faults>>

FailUpload ==
    /\ upload = "fail"
    /\ UpdateIf(HasRow, "FAILED") /\ upload' = "done"
    /\ UNCHANGED <<file, job, request, worker, recovery, lock, faults>>

(* A crash, or an update that fails too.                                   *)
UploadStops ==
    /\ upload \notin {"done", "refused"} /\ Fault
    /\ upload' = IF upload = "cleanup" THEN "refused" ELSE "done"
    /\ UNCHANGED <<file, row, job, request, worker, recovery, lock>>

-----------------------------------------------------------------------------
(* reprocessDocument and deleteDocument.                                   *)

GoOn(q, at) == request' = [request EXCEPT ![q].at = at] /\ UNCHANGED upload

(* findFirst and assertStoredFileExists.                                   *)
Find(q) ==
    /\ request[q].at = "find" /\ HasRow
    /\ GoOn(q, IF request[q].kind = "reprocess" /\ ~file THEN "done" ELSE "remove")
    /\ UNCHANGED <<file, row, job, worker, recovery, lock, faults>>

(* removeDocumentIngestionJob. BullMQ does not remove a job whose lock is  *)
(* held; the lock of a dead worker may have expired or not.                *)
RemoveJob(q) ==
    /\ request[q].at = "remove"
    /\ \/ /\ job.owner = None
          /\ job' = NoJob
          /\ GoOn(q, IF request[q].kind = "delete" THEN "delete" ELSE "mark")
       \/ /\ job.state = "ACTIVE"
          /\ GoOn(q, "done") /\ UNCHANGED job
    /\ UNCHANGED <<file, row, worker, recovery, lock, faults>>

MarkPending(q) ==
    /\ request[q].at = "mark"
    /\ UpdateIf(HasRow, "PENDING")
    /\ GoOn(q, IF HasRow THEN "enqueue" ELSE "done")
    /\ UNCHANGED <<file, job, worker, recovery, lock, faults>>

Enqueue(q) ==
    /\ request[q].at = "enqueue"
    /\ job' = Added(job) /\ GoOn(q, "done")
    /\ UNCHANGED <<file, row, worker, recovery, lock, faults>>

EnqueueFails(q) ==
    /\ request[q].at = "enqueue" /\ Fault
    /\ job' \in {job, Added(job)} /\ GoOn(q, "fail")
    /\ UNCHANGED <<file, row, worker, recovery, lock>>

FailReprocess(q) ==
    /\ request[q].at = "fail"
    /\ UpdateIf(status = "PENDING", "FAILED") /\ GoOn(q, "done")
    /\ UNCHANGED <<file, job, worker, recovery, lock, faults>>

(* The chunks go with the row.                                             *)
DeleteRow(q) ==
    /\ request[q].at = "delete"
    /\ IF HasRow
       THEN status' = "deleted" /\ overdue' = FALSE /\ listed' = {} /\ chunks' = FALSE
       ELSE UNCHANGED row
    /\ GoOn(q, "deleteFile")
    /\ UNCHANGED <<file, job, worker, recovery, lock, faults>>

DeleteFile(q) ==
    /\ request[q].at = "deleteFile"
    /\ file' \in {file, FALSE} /\ GoOn(q, "done")
    /\ UNCHANGED <<row, job, worker, recovery, lock, faults>>

RequestStops(q) ==
    /\ request[q].at \notin {"find", "done"} /\ Fault
    /\ GoOn(q, "done")
    /\ UNCHANGED <<file, row, job, worker, recovery, lock>>

-----------------------------------------------------------------------------
(* BullMQ and the clock.                                                   *)

QueueStep ==
    /\ \/ job.state = "DELAYED" /\ job' = Promoted(job)
       \/ job.state = "ACTIVE" /\ job.owner = None /\ job' = Redelivered(job)
    /\ UNCHANGED <<file, row, users, worker, recovery, lock, faults>>

LoseJob ==
    /\ job.state # "NOT_FOUND" /\ (job.state = "ACTIVE" => Zombies) /\ Fault
    /\ job' = NoJob
    /\ UNCHANGED <<file, row, users, worker, recovery, lock>>

LoseLock ==
    /\ Zombies /\ job.owner # None /\ Fault
    /\ job' = Abandoned(job, job.owner)
    /\ UNCHANGED <<file, row, users, worker, recovery, lock>>

FiveMinutes ==
    /\ status = "PROCESSING"
    /\ overdue' = TRUE
    /\ UNCHANGED <<file, status, listed, chunks, job, users, worker, recovery, lock, faults>>

LockExpires ==
    /\ lock # None
    /\ lock' = None
    /\ UNCHANGED <<file, row, job, users, worker, recovery, faults>>

-----------------------------------------------------------------------------
(* A worker (processJob).                                                  *)

Put(w, e)         == worker' = [worker EXCEPT ![w] = e]
Go(w, at)         == worker' = [worker EXCEPT ![w].at = at]
End(w, outcome)   == worker' = [worker EXCEPT ![w].at = "return", ![w].outcome = outcome]
Fails(w, outcome) == worker' = [worker EXCEPT ![w].at = "fail", ![w].outcome = outcome]

Take(w) ==
    /\ worker[w].at = "idle" /\ job.state = "WAITING"
    /\ job' = Delivered(job, w)
    /\ Put(w, WorkerAt("claim", job.attempts))
    /\ UNCHANGED <<file, row, users, recovery, lock, faults>>

(* prepareDocumentProcessing claims a document in PROCESSING again: its    *)
(* worker may have died.                                                   *)
Claim(w) ==
    /\ worker[w].at = "claim"
    /\ UpdateIf(status \in {"PENDING", "PROCESSING"}, "PROCESSING")
    /\ Go(w, IF status \in {"PENDING", "PROCESSING"} THEN "extract" ELSE "look")
    /\ UNCHANGED <<file, job, users, recovery, lock, faults>>

LookAtStatus(w) ==
    /\ worker[w].at = "look"
    /\ IF status = "READY" /\ chunks THEN End(w, "ok") ELSE Fails(w, "fatal")
    /\ UNCHANGED <<file, row, job, users, recovery, lock, faults>>

(* Reads the file, splits its text and embeds every chunk.                 *)
Extract(w) ==
    /\ worker[w].at = "extract"
    /\ \/ file /\ Go(w, "save")
       \/ Fails(w, "error")
       \/ Fails(w, "fatal")
    /\ UNCHANGED <<file, row, job, users, recovery, lock, faults>>

Store ==
    /\ status' = "READY" /\ chunks' = TRUE
    /\ overdue' = FALSE /\ listed' = {}

Save(w) ==
    /\ worker[w].at = "save"
    /\ IF status = "PROCESSING"
       THEN Store /\ End(w, "ok")
       ELSE Fails(w, "fatal") /\ UNCHANGED row
    /\ UNCHANGED <<file, job, users, recovery, lock, faults>>

(* Committed, but the answer or updateProgress fails.                      *)
SaveUnheard(w) ==
    /\ worker[w].at = "save" /\ status = "PROCESSING" /\ Fault
    /\ Store /\ Fails(w, "error")
    /\ UNCHANGED <<file, job, users, recovery, lock>>

StatusAfter(w) ==
    IF LastAttempt(worker[w].attempts, worker[w].outcome) THEN "FAILED" ELSE "PENDING"

(* Variant: whatever the status is.                                        *)
MarkFailedBlindly(w) ==
    /\ worker[w].at = "fail"
    /\ UpdateIf(HasRow, StatusAfter(w))
    /\ Go(w, "return")
    /\ UNCHANGED <<file, job, users, recovery, lock, faults>>

MarkFailed(w) ==
    /\ worker[w].at = "fail"
    /\ UpdateIf(status = "PROCESSING", StatusAfter(w))
    /\ Go(w, "return")
    /\ UNCHANGED <<file, job, users, recovery, lock, faults>>

(* The claim is in the try block as well; a failing markFailed is logged.  *)
DatabaseFails(w) ==
    /\ Fault
    /\ \/ worker[w].at \in {"claim", "look", "save"} /\ Fails(w, "error")
       \/ worker[w].at = "fail" /\ Go(w, "return")
    /\ UNCHANGED <<file, row, job, users, recovery, lock>>

Return(w) ==
    /\ worker[w].at = "return"
    /\ Put(w, Idle)
    /\ job' = IF job.owner = w THEN Ended(job, worker[w].outcome) ELSE job
    /\ UNCHANGED <<file, row, users, recovery, lock, faults>>

Crash(w) ==
    /\ worker[w].at # "idle" /\ Fault
    /\ Put(w, Idle)
    /\ job' = Abandoned(job, w)
    /\ UNCHANGED <<file, row, users, recovery, lock>>

-----------------------------------------------------------------------------
(* Recovery (runRecovery, recoverStuckProcessingDocuments).                *)

Step(r, at) == recovery' = [recovery EXCEPT ![r] = at] /\ UNCHANGED lock
Rest(r) ==
    /\ recovery' = [recovery EXCEPT ![r] = "idle"]
    /\ lock' = IF lock = r THEN None ELSE lock

Acquire(r) ==
    /\ recovery[r] = "idle" /\ lock = None
    /\ lock' = r
    /\ recovery' = [recovery EXCEPT ![r] = "list"]
    /\ UNCHANGED <<file, row, job, users, worker, faults>>

List(r) ==
    /\ recovery[r] = "list"
    /\ IF status = "PROCESSING" /\ overdue
       THEN listed' = listed \cup {r} /\ Step(r, "snapshot")
       ELSE Rest(r) /\ UNCHANGED listed
    /\ UNCHANGED <<file, status, overdue, chunks, job, users, worker, faults>>

(* Variant: only a missing job is handled, an ended one is left alone.      *)
SnapshotMissingOnly(r) ==
    /\ recovery[r] = "snapshot"
    /\ IF job.state = "NOT_FOUND" THEN Step(r, "claim") ELSE Rest(r)
    /\ UNCHANGED <<file, row, job, users, worker, faults>>

(* getDocumentIngestionJobSnapshot and its cases.                          *)
Snapshot(r) ==
    /\ recovery[r] = "snapshot"
    /\ CASE job.state = "ACTIVE" -> Rest(r)
         [] job.state \in {"WAITING", "DELAYED"} -> Step(r, "pending")
         [] job.state \in {"COMPLETED", "FAILED"} -> Step(r, "fail")
         [] job.state = "NOT_FOUND" -> Step(r, "claim")
    /\ UNCHANGED <<file, row, job, users, worker, faults>>

AsListed(r) == status = "PROCESSING" /\ r \in listed

(* Variant: whatever happened since the document was listed.               *)
SettleBlindly(r) ==
    /\ recovery[r] \in {"pending", "fail"}
    /\ UpdateIf(HasRow, IF recovery[r] = "fail" THEN "FAILED" ELSE "PENDING")
    /\ Rest(r)
    /\ UNCHANGED <<file, job, users, worker, faults>>

Settle(r) ==
    /\ recovery[r] \in {"pending", "fail"}
    /\ UpdateIf(AsListed(r), IF recovery[r] = "fail" THEN "FAILED" ELSE "PENDING")
    /\ Rest(r)
    /\ UNCHANGED <<file, job, users, worker, faults>>

ClaimOrphan(r) ==
    /\ recovery[r] = "claim"
    /\ UpdateIf(AsListed(r), "PENDING")
    /\ IF AsListed(r) THEN Step(r, "enqueue") ELSE Rest(r)
    /\ UNCHANGED <<file, job, users, worker, faults>>

Requeue(r) ==
    /\ recovery[r] = "enqueue"
    /\ job' = Added(job) /\ Rest(r)
    /\ UNCHANGED <<file, row, users, worker, faults>>

RequeueFails(r) ==
    /\ recovery[r] = "enqueue" /\ Fault
    /\ job' \in {job, Added(job)} /\ Step(r, "failPending")
    /\ UNCHANGED <<file, row, users, worker>>

FailOrphan(r) ==
    /\ recovery[r] = "failPending"
    /\ UpdateIf(status = "PENDING", "FAILED")
    /\ Rest(r)
    /\ UNCHANGED <<file, job, users, worker, faults>>

(* An error ends the document's recovery, a crash leaves the lock behind.  *)
RecoveryFails(r) ==
    /\ recovery[r] # "idle" /\ Fault
    /\ Rest(r) \/ (recovery' = [recovery EXCEPT ![r] = "idle"] /\ UNCHANGED lock)
    /\ UNCHANGED <<file, row, job, users, worker>>

-----------------------------------------------------------------------------
UploadStep ==
    WriteFile \/ CreateRow \/ DeleteUpload \/ EnqueueUpload \/ FailUpload
RequestStep(q) ==
    \/ RemoveJob(q) \/ MarkPending(q) \/ Enqueue(q) \/ FailReprocess(q)
    \/ DeleteRow(q) \/ DeleteFile(q)
WorkerStep(w) ==
    \/ Take(w) \/ Claim(w) \/ LookAtStatus(w) \/ Extract(w) \/ Save(w)
    \/ MarkFailed(w) \/ Return(w)
RecoveryStep(r) ==
    \/ Acquire(r) \/ List(r) \/ Snapshot(r) \/ Settle(r)
    \/ ClaimOrphan(r) \/ Requeue(r) \/ FailOrphan(r)

Next ==
    \/ UploadStep \/ CreateFails \/ EnqueueUploadFails \/ UploadStops
    \/ \E q \in Requests : Find(q) \/ RequestStep(q) \/ EnqueueFails(q) \/ RequestStops(q)
    \/ QueueStep \/ LoseJob \/ LoseLock \/ FiveMinutes \/ LockExpires
    \/ \E w \in Workers : WorkerStep(w) \/ SaveUnheard(w) \/ DatabaseFails(w) \/ Crash(w)
    \/ \E r \in Recoverers : RecoveryStep(r) \/ RequeueFails(r) \/ RecoveryFails(r)

(* Requests once begun, BullMQ, workers, the timer and the clock go on.    *)
Fairness ==
    /\ WF_vars(UploadStep) /\ WF_vars(QueueStep)
    /\ WF_vars(FiveMinutes) /\ WF_vars(LockExpires)
    /\ \A q \in Requests : WF_vars(RequestStep(q))
    /\ \A w \in Workers : WF_vars(WorkerStep(w))
    /\ \A r \in Recoverers : WF_vars(RecoveryStep(r))

Spec     == Init /\ [][Next]_vars
FairSpec == Spec /\ Fairness

-----------------------------------------------------------------------------
(* Properties.                                                             *)

Statuses == {"none", "PENDING", "PROCESSING", "READY", "FAILED", "deleted"}

(* Every variable has its type; a listed row is in PROCESSING, and only a  *)
(* job in ACTIVE has an owner.                                             *)
TypeOK ==
    /\ file \in BOOLEAN /\ status \in Statuses
    /\ overdue \in BOOLEAN /\ listed \subseteq Recoverers /\ chunks \in BOOLEAN
    /\ overdue \/ listed # {} => status = "PROCESSING"
    /\ job \in JobOf(Workers)
    /\ job.owner # None => job.state = "ACTIVE"
    /\ upload \in {"write", "create", "cleanup", "enqueue", "fail", "done", "refused"}
    /\ request \in [Requests -> [at : {"find", "remove", "mark", "enqueue", "fail",
                                       "delete", "deleteFile", "done"},
                                 kind : Kinds]]
    /\ worker \in [Workers -> [at : {"idle", "claim", "look", "extract", "save",
                                     "fail", "return"},
                               attempts : Nat, outcome : {"ok", "error", "fatal"}]]
    /\ recovery \in [Recoverers -> {"idle", "list", "snapshot", "pending", "fail", "claim",
                                    "enqueue", "failPending"}]
    /\ lock \in Recoverers \cup {None}
    /\ faults \in 0..MaxFaults

(* A document whose upload was not refused can be processed again once it  *)
(* was taken up, or failed: its file is there.                             *)
FileKept ==
    status \in {"PROCESSING", "READY", "FAILED"} /\ upload \notin {"cleanup", "refused"} => file

(* A step of the user's own requests that changes the status.              *)
UserActs ==
    \/ upload = "fail" /\ upload' = "done"
    \/ \E q \in Requests : request[q].at \in {"mark", "delete"}
                           /\ request'[q].at # request[q].at

(* Only the user makes a READY document unsearchable: no late worker, no   *)
(* second delivery and no recovery undoes it.                              *)
ReadyStays == [][status = "READY" /\ status' # "READY" => UserActs]_vars

Extracting(w) == worker[w].at \in {"extract", "save"} /\ job.owner = w

(* Recovery does not take a document from a worker that has its job,       *)
(* however long the extraction lasts: the user does, or a worker (a late   *)
(* one may store its result, or its failure, for the one at work).         *)
ClaimKept ==
    [][status = "PROCESSING" /\ status' # "PROCESSING" /\ (\E w \in Workers : Extracting(w))
        => UserActs \/ worker' # worker]_vars

(* A document is not reprocessed while a worker has its job                *)
(* ('현재 처리 중인 RAG 문서는 다시 처리할 수 없습니다.', rag-document.service.ts:152). *)
ClaimHeld == \A w \in Workers : Extracting(w) => status = "PROCESSING"

(* A document does not stay in PROCESSING.                                 *)
LeavesProcessing == status = "PROCESSING" ~> status # "PROCESSING"

(* README.md:228-231: PENDING and PROCESSING rows are compared with their  *)
(* jobs, and interrupted work is registered again.                         *)
Settles == upload = "done" /\ status \in {"PENDING", "PROCESSING"} ~>
               status \in {"READY", "FAILED", "deleted"}
=============================================================================
