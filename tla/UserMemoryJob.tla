--------------------------- MODULE UserMemoryJob ---------------------------
(***************************************************************************)
(* The extraction of long-term memories from one user message: the status  *)
(* of the message in PostgreSQL (user-memory-job-state.service.ts), its    *)
(* BullMQ job, the workers (user-memory-job.processor.ts) and the recovery *)
(* that compares the two every minute (user-memory-recovery.service.ts).   *)
(*                                                                         *)
(* A job whose worker died or lost its lock is delivered again, finished   *)
(* jobs are evicted (module BullMQ).                                       *)
(***************************************************************************)
EXTENDS BullMQ

CONSTANTS
    Workers, Recoverers,
    Zombies,     \* TRUE: a living worker may lose its job
    MaxFaults    \* bound on crashes, losses and database failures

ASSUME JobAssumption ==
    /\ MaxFaults \in Nat /\ Zombies \in BOOLEAN
    /\ None \notin Workers \cup Recoverers

VARIABLES
    status,    \* ChatMessage.memoryExtractionStatus, "none" for null
    startedAt, \* memoryExtractionStartedAt: number of the claim, 0 for null
    claims,    \* claims so far
    overdue,   \* claims that were five minutes in PROCESSING
    job,       \* the BullMQ job of the message
    sender,    \* enqueueUserMemoryExtractionSafely in the gateway
    worker,    \* a worker: where it stands, its claim and attempt, its outcome
    recovery,  \* a recoverer: where it stands and the target it read
    lock,      \* Redis lock of the recovery
    gaveUp,    \* history: an attempt failed for good
    late,      \* history: a living worker lost its job
    faults

messageVars == <<status, startedAt, claims, overdue>>
histories   == <<gaveUp, late>>
vars == <<messageVars, job, sender, worker, recovery, lock, histories, faults>>

WorkerAt(at, claim, attempts, outcome) ==
    [at |-> at, claim |-> claim, attempts |-> attempts, outcome |-> outcome]
Idle == WorkerAt("idle", 0, 0, "ok")

Target(at, st, started) == [at |-> at, status |-> st, startedAt |-> started]
Resting == Target("idle", "none", 0)

Init ==
    /\ status = "none" /\ startedAt = 0 /\ claims = 0 /\ overdue = {}
    /\ job = NoJob
    /\ sender = "prepare"
    /\ worker = [w \in Workers |-> Idle]
    /\ recovery = [r \in Recoverers |-> Resting]
    /\ lock = None
    /\ gaveUp = FALSE /\ late = FALSE
    /\ faults = 0

Fault == faults < MaxFaults /\ faults' = faults + 1

SetStatus(s) ==
    /\ status' = s /\ startedAt' = 0
    /\ UNCHANGED <<claims, overdue>>

-----------------------------------------------------------------------------
(* The gateway, right after it saved the message.                          *)

Prepare ==
    /\ sender = "prepare"
    /\ IF status \in {"none", "PENDING", "FAILED"}
       THEN SetStatus("PENDING") /\ sender' = "enqueue"
       ELSE sender' = "done" /\ UNCHANGED messageVars
    /\ UNCHANGED <<job, worker, recovery, lock, histories, faults>>

Enqueue ==
    /\ sender = "enqueue"
    /\ job' = Added(job)
    /\ sender' = "done"
    /\ UNCHANGED <<messageVars, worker, recovery, lock, histories, faults>>

(* A crash, or an error that is only logged.                               *)
SenderStops ==
    /\ sender # "done" /\ Fault
    /\ sender' = "done"
    /\ UNCHANGED <<messageVars, job, worker, recovery, lock, histories>>

(* The room is deleted, and its messages with it.                          *)
DeleteRoom ==
    /\ status # "deleted"
    /\ SetStatus("deleted")
    /\ UNCHANGED <<job, sender, worker, recovery, lock, histories, faults>>

(* The clock: five minutes since the claim.                                *)
FiveMinutes ==
    /\ status = "PROCESSING"
    /\ overdue' = overdue \cup {startedAt}
    /\ UNCHANGED <<status, startedAt, claims, job, sender, worker, recovery, lock,
                   histories, faults>>

-----------------------------------------------------------------------------
(* BullMQ.                                                                 *)

Promote ==
    /\ job.state = "DELAYED"
    /\ job' = Promoted(job)
    /\ UNCHANGED <<messageVars, sender, worker, recovery, lock, histories, faults>>

(* The check for stalled jobs finds that nobody renews the job's lock.     *)
Stalled ==
    /\ job.state = "ACTIVE" /\ job.owner = None
    /\ job' = Redelivered(job)
    /\ gaveUp' = (gaveUp \/ LastStall(job))
    /\ UNCHANGED <<messageVars, sender, worker, recovery, lock, late, faults>>

(* removeOnComplete, removeOnFail, or Redis lost its data.                 *)
LoseJob ==
    /\ job.state # "NOT_FOUND" /\ (job.state = "ACTIVE" => Zombies) /\ Fault
    /\ job' = NoJob
    /\ late' = (late \/ job.owner # None)
    /\ UNCHANGED <<messageVars, sender, worker, recovery, lock, gaveUp>>

(* A blocked event loop: the worker goes on without its lock.              *)
LoseLock ==
    /\ Zombies /\ job.owner # None /\ Fault
    /\ job' = Abandoned(job, job.owner)
    /\ late' = TRUE
    /\ UNCHANGED <<messageVars, sender, worker, recovery, lock, gaveUp>>

-----------------------------------------------------------------------------
(* A worker (processJob).                                                  *)

Put(w, e)        == worker' = [worker EXCEPT ![w] = e]
Go(w, at)        == worker' = [worker EXCEPT ![w].at = at]
End(w, outcome)  == worker' = [worker EXCEPT ![w].at = "return", ![w].outcome = outcome]
Fails(w, outcome) == worker' = [worker EXCEPT ![w].at = "fail", ![w].outcome = outcome]

Take(w) ==
    /\ worker[w].at = "idle" /\ job.state = "WAITING"
    /\ job' = Delivered(job, w)
    /\ Put(w, WorkerAt("claim", 0, job.attempts, "ok"))
    /\ UNCHANGED <<messageVars, sender, recovery, lock, histories, faults>>

(* Variant: a message in PROCESSING is claimed as well.                    *)
ClaimAgain(w) ==
    /\ worker[w].at = "claim"
    /\ IF status \in {"PENDING", "PROCESSING"}
       THEN /\ status' = "PROCESSING"
            /\ claims' = claims + 1 /\ startedAt' = claims + 1
            /\ Put(w, WorkerAt("extract", claims + 1, worker[w].attempts, "ok"))
            /\ UNCHANGED overdue
       ELSE Go(w, "look") /\ UNCHANGED messageVars
    /\ UNCHANGED <<job, sender, recovery, lock, histories, faults>>

Claim(w) ==
    /\ worker[w].at = "claim"
    /\ IF status = "PENDING"
       THEN /\ status' = "PROCESSING"
            /\ claims' = claims + 1 /\ startedAt' = claims + 1
            /\ Put(w, WorkerAt("extract", claims + 1, worker[w].attempts, "ok"))
            /\ UNCHANGED overdue
       ELSE Go(w, "look") /\ UNCHANGED messageVars
    /\ UNCHANGED <<job, sender, recovery, lock, histories, faults>>

(* ALREADY_* ends the job well; NOT_FOUND and INVALID_STATE are final.     *)
LookAtStatus(w) ==
    /\ worker[w].at = "look"
    /\ End(w, IF status \in {"PROCESSING", "COMPLETED"} THEN "ok" ELSE "fatal")
    /\ UNCHANGED <<messageVars, job, sender, recovery, lock, histories, faults>>

(* getSourceMessage and extractAndSave.                                    *)
ExtractAndSave(w) ==
    /\ worker[w].at = "extract"
    /\ \/ status # "deleted" /\ Go(w, "complete")
       \/ Fails(w, "error")
       \/ status = "deleted" /\ Fails(w, "fatal")
    /\ UNCHANGED <<messageVars, job, sender, recovery, lock, histories, faults>>

MarkCompleted(w) ==
    /\ worker[w].at = "complete"
    /\ IF status = "PROCESSING"
       THEN SetStatus("COMPLETED") /\ End(w, "ok")
       ELSE Fails(w, "error") /\ UNCHANGED messageVars
    /\ UNCHANGED <<job, sender, recovery, lock, histories, faults>>

(* COMPLETED is stored, but the answer, or updateProgress, fails.          *)
CompletedUnheard(w) ==
    /\ worker[w].at = "complete" /\ status = "PROCESSING" /\ Fault
    /\ SetStatus("COMPLETED") /\ Fails(w, "error")
    /\ UNCHANGED <<job, sender, recovery, lock, histories>>

WillRetry(w) == ~LastAttempt(worker[w].attempts, worker[w].outcome)

(* Variant: whatever the status is.                                        *)
MarkFailedBlindly(w) ==
    /\ worker[w].at = "fail"
    /\ SetStatus(IF WillRetry(w) THEN "PENDING" ELSE "FAILED")
    /\ Go(w, "return")
    /\ gaveUp' = (gaveUp \/ ~WillRetry(w))
    /\ UNCHANGED <<job, sender, recovery, lock, late, faults>>

MarkFailed(w) ==
    /\ worker[w].at = "fail"
    /\ IF status = "PROCESSING"
       THEN SetStatus(IF WillRetry(w) THEN "PENDING" ELSE "FAILED")
       ELSE UNCHANGED messageVars
    /\ Go(w, "return")
    /\ gaveUp' = (gaveUp \/ ~WillRetry(w))
    /\ UNCHANGED <<job, sender, recovery, lock, late, faults>>

(* The claim is outside the try block; an error of markCompleted is        *)
(* handled like one of the extraction; one of markFailed is logged.        *)
DatabaseFails(w) ==
    /\ Fault
    /\ \/ worker[w].at \in {"claim", "look"} /\ End(w, "error")
       \/ worker[w].at = "complete" /\ Fails(w, "error")
       \/ worker[w].at = "fail" /\ Go(w, "return")
    /\ UNCHANGED <<messageVars, job, sender, recovery, lock, histories>>

(* BullMQ records the outcome if the worker still has the job.             *)
Return(w) ==
    /\ worker[w].at = "return"
    /\ Put(w, Idle)
    /\ IF job.owner = w
       THEN /\ job' = Ended(job, worker[w].outcome)
            /\ gaveUp' = (gaveUp \/ StateAfter(job, worker[w].outcome) = "FAILED")
       ELSE UNCHANGED <<job, gaveUp>>
    /\ UNCHANGED <<messageVars, sender, recovery, lock, late, faults>>

Crash(w) ==
    /\ worker[w].at # "idle" /\ Fault
    /\ Put(w, Idle)
    /\ job' = Abandoned(job, w)
    /\ UNCHANGED <<messageVars, sender, recovery, lock, histories>>

-----------------------------------------------------------------------------
(* Recovery (runRecovery, recoverPendingAndStuckExtractions).              *)

Rest(r) ==
    /\ recovery' = [recovery EXCEPT ![r] = Resting]
    /\ lock' = IF lock = r THEN None ELSE lock
Proceed(r, at) == recovery' = [recovery EXCEPT ![r].at = at] /\ UNCHANGED lock

Acquire(r) ==
    /\ recovery[r].at = "idle" /\ lock = None
    /\ lock' = r
    /\ recovery' = [recovery EXCEPT ![r].at = "list"]
    /\ UNCHANGED <<messageVars, job, sender, worker, histories, faults>>

(* Variants: pending messages, or fresh claims, are not told apart.        *)
ListStuckOnly(r) ==
    /\ recovery[r].at = "list"
    /\ IF status = "PROCESSING" /\ startedAt \in overdue
       THEN /\ recovery' = [recovery EXCEPT ![r] = Target("snapshot", status, startedAt)]
            /\ UNCHANGED lock
       ELSE Rest(r)
    /\ UNCHANGED <<messageVars, job, sender, worker, histories, faults>>

ListFresh(r) ==
    /\ recovery[r].at = "list"
    /\ IF status \in {"PENDING", "PROCESSING"}
       THEN /\ recovery' = [recovery EXCEPT ![r] = Target("snapshot", status, startedAt)]
            /\ UNCHANGED lock
       ELSE Rest(r)
    /\ UNCHANGED <<messageVars, job, sender, worker, histories, faults>>

List(r) ==
    /\ recovery[r].at = "list"
    /\ IF status = "PENDING" \/ (status = "PROCESSING" /\ startedAt \in overdue)
       THEN /\ recovery' = [recovery EXCEPT ![r] = Target("snapshot", status, startedAt)]
            /\ UNCHANGED lock
       ELSE Rest(r)
    /\ UNCHANGED <<messageVars, job, sender, worker, histories, faults>>

(* getUserMemoryExtractionJobSnapshot, and what recoverTarget makes of it. *)
Snapshot(r) ==
    /\ recovery[r].at = "snapshot"
    /\ CASE job.state = "ACTIVE" -> Rest(r)
         [] job.state \in {"WAITING", "DELAYED"} ->
              IF recovery[r].status = "PENDING" THEN Rest(r) ELSE Proceed(r, "reset")
         [] job.state = "NOT_FOUND" ->
              Proceed(r, IF recovery[r].status = "PENDING" THEN "enqueue" ELSE "resetAndEnqueue")
         [] job.state \in {"COMPLETED", "FAILED"} -> Proceed(r, "fail")
    /\ UNCHANGED <<messageVars, job, sender, worker, histories, faults>>

(* The row is as it was listed.                                            *)
AsListed(r) == status = recovery[r].status /\ startedAt = recovery[r].startedAt

MarkRecoveryFailed(r) ==
    /\ recovery[r].at = "fail"
    /\ IF status = recovery[r].status /\ (status = "PROCESSING" => AsListed(r))
       THEN SetStatus("FAILED") ELSE UNCHANGED messageVars
    /\ Rest(r)
    /\ UNCHANGED <<job, sender, worker, histories, faults>>

(* Variant: whichever claim it is.                                         *)
ResetBlindly(r) ==
    /\ recovery[r].at \in {"reset", "resetAndEnqueue"}
    /\ IF status = "PROCESSING"
       THEN /\ SetStatus("PENDING")
            /\ IF recovery[r].at = "reset" THEN Rest(r) ELSE Proceed(r, "enqueue")
       ELSE Rest(r) /\ UNCHANGED messageVars
    /\ UNCHANGED <<job, sender, worker, histories, faults>>

ResetProcessingToPending(r) ==
    /\ recovery[r].at \in {"reset", "resetAndEnqueue"}
    /\ IF AsListed(r)
       THEN /\ SetStatus("PENDING")
            /\ IF recovery[r].at = "reset" THEN Rest(r) ELSE Proceed(r, "enqueue")
       ELSE Rest(r) /\ UNCHANGED messageVars
    /\ UNCHANGED <<job, sender, worker, histories, faults>>

Requeue(r) ==
    /\ recovery[r].at = "enqueue"
    /\ job' = Added(job)
    /\ Rest(r)
    /\ UNCHANGED <<messageVars, sender, worker, histories, faults>>

(* An error ends the run, a crash leaves its lock behind.                  *)
RecoveryFails(r) ==
    /\ recovery[r].at # "idle" /\ Fault
    /\ \/ Rest(r)
       \/ recovery' = [recovery EXCEPT ![r] = Resting] /\ UNCHANGED lock
    /\ UNCHANGED <<messageVars, job, sender, worker, histories>>

(* The lock's five minutes are over, be the run dead or only slow.         *)
LockExpires ==
    /\ lock # None
    /\ lock' = None
    /\ UNCHANGED <<messageVars, job, sender, worker, recovery, histories, faults>>

-----------------------------------------------------------------------------
QueueStep    == Promote \/ Stalled
WorkerStep(w) ==
    \/ Take(w) \/ Claim(w) \/ LookAtStatus(w) \/ ExtractAndSave(w)
    \/ MarkCompleted(w) \/ MarkFailed(w) \/ Return(w)
RecoveryStep(r) ==
    \/ Acquire(r) \/ List(r) \/ Snapshot(r) \/ MarkRecoveryFailed(r)
    \/ ResetProcessingToPending(r) \/ Requeue(r)

Next ==
    \/ Prepare \/ Enqueue \/ SenderStops \/ DeleteRoom \/ FiveMinutes
    \/ QueueStep \/ LoseJob \/ LoseLock \/ LockExpires
    \/ \E w \in Workers : WorkerStep(w) \/ CompletedUnheard(w) \/ DatabaseFails(w) \/ Crash(w)
    \/ \E r \in Recoverers : RecoveryStep(r) \/ RecoveryFails(r)

(* Workers, BullMQ, the interval timer and the clock go on; faults and the *)
(* user need not.                                                          *)
Fairness ==
    /\ WF_vars(Enqueue) /\ WF_vars(QueueStep) /\ WF_vars(FiveMinutes) /\ WF_vars(LockExpires)
    /\ \A w \in Workers : WF_vars(WorkerStep(w))
    /\ \A r \in Recoverers : WF_vars(RecoveryStep(r))

Spec     == Init /\ [][Next]_vars
FairSpec == Spec /\ Fairness

-----------------------------------------------------------------------------
(* Properties.                                                             *)

Statuses == {"none", "PENDING", "PROCESSING", "COMPLETED", "FAILED", "deleted"}

(* Every variable has its type; a claim in PROCESSING is the last one.     *)
TypeOK ==
    /\ status \in Statuses /\ claims \in Nat /\ startedAt \in 0..claims
    /\ status = "PROCESSING" <=> startedAt # 0
    /\ overdue \subseteq 1..claims
    /\ job \in JobOf(Workers)
    /\ job.owner # None => job.state = "ACTIVE"
    /\ sender \in {"prepare", "enqueue", "done"}
    /\ worker \in [Workers -> [at : {"idle", "claim", "look", "extract", "complete",
                                     "fail", "return"},
                               claim : 0..claims, attempts : Nat,
                               outcome : {"ok", "error", "fatal"}]]
    /\ recovery \in [Recoverers -> [at : {"idle", "list", "snapshot", "fail", "reset",
                                          "resetAndEnqueue", "enqueue"},
                                    status : Statuses, startedAt : 0..claims]]
    /\ lock \in Recoverers \cup {None}
    /\ {gaveUp, late} \subseteq BOOLEAN
    /\ faults \in 0..MaxFaults

Working(w) == worker[w].at \in {"extract", "complete", "fail"}

(* Until a claim is five minutes old, no second worker extracts the        *)
(* message, even if BullMQ delivers its job twice.                         *)
Exclusive ==
    overdue = {} => \A v, w \in Workers : Working(v) /\ Working(w) => v = w

(* A worker that claimed the message and still has its job finds its claim *)
(* in the row when it is done: no recovery and no other worker took it     *)
(* (markCompleted throws otherwise, user-memory-job-state.service.ts:192), *)
(* unless a living worker lost its job: its late result would overwrite    *)
(* the claim of the next.                                                  *)
ClaimHeld ==
    ~late => \A w \in Workers :
        worker[w].at \in {"extract", "complete"} /\ job.owner = w /\ status # "deleted" =>
            status = "PROCESSING" /\ startedAt = worker[w].claim

(* A message whose memories are extracted is never extracted again.        *)
CompletedIsFinal == [][status = "COMPLETED" => status' \in {"COMPLETED", "deleted"}]_vars

(* README.md:227-231: whatever is lost or crashes between the row and its  *)
(* job, recovery brings the message to an end.                             *)
Settles == status \in {"PENDING", "PROCESSING"} ~>
               status \in {"COMPLETED", "FAILED", "deleted"}

(* README.md:231: interrupted work is registered again; FAILED is what     *)
(* failed for good.                                                        *)
FailedMeansFailed == status = "FAILED" => gaveUp
=============================================================================
