------------------------------- MODULE BullMQ -------------------------------
(***************************************************************************)
(* What the queues of apps/api rely on: one BullMQ job, addressed by a job *)
(* id that this code computes from its row. External: modelled from        *)
(* queue.config.ts, queue-producer.service.ts and the two processors.      *)
(***************************************************************************)
EXTENDS Naturals

CONSTANTS
    Attempts,  \* attempts of a job (queue.config.ts)
    None

ASSUME AttemptsAssumption == Attempts \in Nat \ {0}

JobStates == {"NOT_FOUND", "WAITING", "DELAYED", "ACTIVE", "COMPLETED", "FAILED"}
NoJob     == [state |-> "NOT_FOUND", owner |-> None, attempts |-> 0, stalls |-> 0]

JobOf(W) == [state : JobStates, owner : W \cup {None}, attempts : Nat, stalls : 0..1]

(* queue.add(): nothing happens when the id is taken.                      *)
Added(job) == IF job.state = "NOT_FOUND" THEN [NoJob EXCEPT !.state = "WAITING"] ELSE job

Promoted(job)     == [job EXCEPT !.state = "WAITING"]
Delivered(job, w) == [job EXCEPT !.state = "ACTIVE", !.owner = w]

(* A worker died, or no longer renews the lock of its job.                 *)
Abandoned(job, w) == IF job.owner = w THEN [job EXCEPT !.owner = None] ELSE job

(* The check for stalled jobs: maxStalledCount is 1.                       *)
LastStall(job)   == job.stalls = 1
Redelivered(job) == IF LastStall(job) THEN [job EXCEPT !.state = "FAILED"]
                    ELSE [job EXCEPT !.state = "WAITING", !.stalls = 1]

(* The processor returned, threw an error, or an UnrecoverableError.       *)
LastAttempt(attempts, outcome) == outcome = "fatal" \/ attempts + 1 >= Attempts
StateAfter(job, outcome) ==
    IF outcome = "ok" THEN "COMPLETED"
    ELSE IF LastAttempt(job.attempts, outcome) THEN "FAILED" ELSE "DELAYED"
Ended(job, outcome) ==
    [job EXCEPT !.state = StateAfter(job, outcome), !.owner = None, !.attempts = @ + 1]
=============================================================================
