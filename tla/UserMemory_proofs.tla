------------------------- MODULE UserMemory_proofs -------------------------
(***************************************************************************)
(* Theorems about the long-term memory of a user: about UserMemoryJob, for *)
(* any number of workers, recoverers, attempts and faults, and about       *)
(* UserMemoryRecords, for any number of messages and of failures, whether  *)
(* or not rooms are deleted.                                               *)
(***************************************************************************)
EXTENDS UserMemoryJob, UserMemoryRecords, TLAPS

USE JobAssumption, AttemptsAssumption

WorkerPlaces == {"idle", "claim", "look", "extract", "complete", "fail", "return"}
WorkerState(n) == [at : WorkerPlaces, claim : 0..n, attempts : Nat,
                   outcome : {"ok", "error", "fatal"}]
RecoveryState(n) == [at : {"idle", "list", "snapshot", "fail", "reset", "resetAndEnqueue",
                           "enqueue"},
                     status : Statuses, startedAt : 0..n]

(***************************************************************************)
(* The inductive invariant.                                                *)
(***************************************************************************)
Claimed(w) == worker[w].at \in {"extract", "complete"} /\ job.owner = w

(* A recoverer goes on only with a message it saw pending or overdue.  It  *)
(* acts on a claim only after it saw its job without a holder; whoever     *)
(* holds the job after that has a later claim.                             *)
Spotted(r) ==
    recovery[r].at \notin {"idle", "list"} =>
        /\ recovery[r].status \in {"PENDING", "PROCESSING"}
        /\ recovery[r].status = "PROCESSING" => overdue # {}
Acting(r) ==
    /\ recovery[r].at \in {"reset", "resetAndEnqueue"} => recovery[r].status = "PROCESSING"
    /\ recovery[r].at \in {"fail", "reset", "resetAndEnqueue"}
            /\ recovery[r].status = "PROCESSING" =>
          \A w \in Workers : Claimed(w) => worker[w].claim # recovery[r].startedAt
RecoveryInv == \A r \in Recoverers : Spotted(r) /\ Acting(r)

(* A worker that did not lose its job holds it.                            *)
HolderInv == ~late => \A w \in Workers : worker[w].at # "idle" => job.owner = w

(* Without an overdue claim nothing makes a message PENDING or FAILED      *)
(* below the worker that has claimed it.                                   *)
WorkingInv ==
    overdue = {} => \A w \in Workers :
        Working(w) => status \in {"PROCESSING", "COMPLETED", "deleted"}

Inv == TypeOK /\ RecoveryInv /\ HolderInv /\ ClaimHeld /\ WorkingInv /\ Exclusive

(***************************************************************************)
(* Types of what the steps are built from.                                 *)
(***************************************************************************)
LEMMA Types ==
    ASSUME TypeOK
    PROVE  /\ worker \in [Workers -> WorkerState(claims)]
           /\ recovery \in [Recoverers -> RecoveryState(claims)]
           /\ claims \in Nat /\ startedAt \in 0..claims
BY DEF TypeOK, WorkerState, WorkerPlaces, RecoveryState

LEMMA TypesMade ==
    ASSUME status \in Statuses, claims \in Nat, startedAt \in 0..claims,
           status = "PROCESSING" <=> startedAt # 0,
           overdue \subseteq 1..claims,
           job \in JobOf(Workers), job.owner # None => job.state = "ACTIVE",
           sender \in {"prepare", "enqueue", "done"},
           worker \in [Workers -> WorkerState(claims)],
           recovery \in [Recoverers -> RecoveryState(claims)],
           lock \in Recoverers \cup {None}, gaveUp \in BOOLEAN, late \in BOOLEAN,
           faults \in 0..MaxFaults
    PROVE  TypeOK
BY DEF TypeOK, WorkerState, WorkerPlaces, RecoveryState

LEMMA JobSteps ==
    ASSUME NEW j \in JobOf(Workers), j.owner # None => j.state = "ACTIVE"
    PROVE  /\ Added(j) \in JobOf(Workers) /\ Added(j).owner = j.owner
           /\ Added(j).owner # None => Added(j).state = "ACTIVE"
           /\ NoJob \in JobOf(Workers) /\ NoJob.owner = None
           /\ Promoted(j) \in JobOf(Workers) /\ Promoted(j).owner = j.owner
           /\ Redelivered(j) \in JobOf(Workers) /\ Redelivered(j).owner = j.owner
           /\ \A w \in Workers :
                /\ Delivered(j, w) \in JobOf(Workers) /\ Delivered(j, w).owner = w
                /\ Delivered(j, w).state = "ACTIVE"
                /\ Abandoned(j, w) \in JobOf(Workers)
                /\ Abandoned(j, w).owner = IF j.owner = w THEN None ELSE j.owner
                /\ Abandoned(j, w).state = j.state
           /\ \A o : Ended(j, o) \in JobOf(Workers) /\ Ended(j, o).owner = None
<1>1. NoJob \in JobOf(Workers) /\ NoJob.owner = None
  BY DEF NoJob, JobOf, JobStates
<1>2. /\ Added(j) \in JobOf(Workers) /\ Added(j).owner = j.owner
      /\ Added(j).owner # None => Added(j).state = "ACTIVE"
  BY DEF Added, NoJob, JobOf, JobStates
<1>3. /\ Promoted(j) \in JobOf(Workers) /\ Promoted(j).owner = j.owner
      /\ Redelivered(j) \in JobOf(Workers) /\ Redelivered(j).owner = j.owner
  <2>1. /\ [j EXCEPT !.state = "WAITING"] \in JobOf(Workers)
        /\ [j EXCEPT !.state = "FAILED"] \in JobOf(Workers)
        /\ [j EXCEPT !.state = "WAITING"].owner = j.owner
        /\ [j EXCEPT !.state = "FAILED"].owner = j.owner
    BY DEF JobOf, JobStates
  <2>2. \A k \in JobOf(Workers) : [k EXCEPT !.stalls = 1] \in JobOf(Workers)
    BY DEF JobOf
  <2>3. [[j EXCEPT !.state = "WAITING"] EXCEPT !.stalls = 1] \in JobOf(Workers)
    BY <2>1, <2>2, Zenon
  <2>4. [j EXCEPT !.state = "WAITING", !.stalls = 1].owner = j.owner
    BY DEF JobOf
  <2> QED BY <2>1, <2>3, <2>4 DEF Promoted, Redelivered
<1>4. ASSUME NEW w \in Workers
      PROVE  /\ Delivered(j, w) \in JobOf(Workers) /\ Delivered(j, w).owner = w
             /\ Delivered(j, w).state = "ACTIVE"
             /\ Abandoned(j, w) \in JobOf(Workers)
             /\ Abandoned(j, w).owner = IF j.owner = w THEN None ELSE j.owner
             /\ Abandoned(j, w).state = j.state
  BY DEF Delivered, Abandoned, JobOf, JobStates
<1>5. ASSUME NEW o PROVE Ended(j, o) \in JobOf(Workers) /\ Ended(j, o).owner = None
  <2>1. \A k \in JobOf(Workers) : [k EXCEPT !.state = StateAfter(j, o)] \in JobOf(Workers)
    BY DEF JobOf, JobStates, StateAfter
  <2>2. \A k \in JobOf(Workers) : [k EXCEPT !.owner = None] \in JobOf(Workers)
    BY DEF JobOf
  <2>3. \A k \in JobOf(Workers) : [k EXCEPT !.attempts = j.attempts + 1] \in JobOf(Workers)
    BY DEF JobOf
  <2>4. [[[j EXCEPT !.state = StateAfter(j, o)] EXCEPT !.owner = None]
                EXCEPT !.attempts = j.attempts + 1] \in JobOf(Workers)
    BY <2>1, <2>2, <2>3, Zenon
  <2>5. Ended(j, o).owner = None
    BY DEF Ended, JobOf
  <2> QED BY <2>4, <2>5 DEF Ended
<1> QED BY <1>1, <1>2, <1>3, <1>4, <1>5

(* What a step of a worker leaves of the workers.                          *)
LEMMA WorkerMoves ==
    ASSUME worker \in [Workers -> WorkerState(claims)], claims \in Nat, NEW w \in Workers
    PROVE  /\ \A at \in WorkerPlaces : Go(w, at) =>
                /\ worker' \in [Workers -> WorkerState(claims)]
                /\ worker'[w].at = at /\ worker'[w].claim = worker[w].claim
                /\ \A v \in Workers : v # w => worker'[v] = worker[v]
           /\ \A o \in {"ok", "error", "fatal"} : End(w, o) =>
                /\ worker' \in [Workers -> WorkerState(claims)]
                /\ worker'[w].at = "return"
                /\ \A v \in Workers : v # w => worker'[v] = worker[v]
           /\ \A o \in {"ok", "error", "fatal"} : Fails(w, o) =>
                /\ worker' \in [Workers -> WorkerState(claims)]
                /\ worker'[w].at = "fail"
                /\ \A v \in Workers : v # w => worker'[v] = worker[v]
<1>1. worker[w] \in WorkerState(claims)
  OBVIOUS
<1>2. ASSUME NEW at \in WorkerPlaces, Go(w, at)
      PROVE  /\ worker' \in [Workers -> WorkerState(claims)]
             /\ worker'[w].at = at /\ worker'[w].claim = worker[w].claim
             /\ \A v \in Workers : v # w => worker'[v] = worker[v]
  BY <1>1, <1>2 DEF Go, WorkerState
<1>3. ASSUME NEW o \in {"ok", "error", "fatal"}, End(w, o)
      PROVE  /\ worker' \in [Workers -> WorkerState(claims)]
             /\ worker'[w].at = "return"
             /\ \A v \in Workers : v # w => worker'[v] = worker[v]
  BY <1>1, <1>3 DEF End, WorkerState, WorkerPlaces
<1>4. ASSUME NEW o \in {"ok", "error", "fatal"}, Fails(w, o)
      PROVE  /\ worker' \in [Workers -> WorkerState(claims)]
             /\ worker'[w].at = "fail"
             /\ \A v \in Workers : v # w => worker'[v] = worker[v]
  BY <1>1, <1>4 DEF Fails, WorkerState, WorkerPlaces
<1> QED BY <1>2, <1>3, <1>4

LEMMA RecoveryMoves ==
    ASSUME recovery \in [Recoverers -> RecoveryState(claims)], claims \in Nat,
           lock \in Recoverers \cup {None}, NEW r \in Recoverers
    PROVE  /\ Resting \in RecoveryState(claims)
           /\ Rest(r) => /\ recovery' \in [Recoverers -> RecoveryState(claims)]
                         /\ recovery'[r].at = "idle"
                         /\ \A q \in Recoverers : q # r => recovery'[q] = recovery[q]
                         /\ lock' \in Recoverers \cup {None}
           /\ \A at \in {"fail", "reset", "resetAndEnqueue", "enqueue"} : Proceed(r, at) =>
                /\ recovery' \in [Recoverers -> RecoveryState(claims)]
                /\ recovery'[r].at = at
                /\ recovery'[r].status = recovery[r].status
                /\ recovery'[r].startedAt = recovery[r].startedAt
                /\ \A q \in Recoverers : q # r => recovery'[q] = recovery[q]
                /\ lock' = lock
<1>1. Resting \in RecoveryState(claims) /\ Resting.at = "idle"
  BY DEF Resting, Target, RecoveryState, Statuses
<1>2. recovery[r] \in RecoveryState(claims)
  OBVIOUS
<1>3. ASSUME Rest(r)
      PROVE  /\ recovery' \in [Recoverers -> RecoveryState(claims)]
             /\ recovery'[r].at = "idle"
             /\ \A q \in Recoverers : q # r => recovery'[q] = recovery[q]
             /\ lock' \in Recoverers \cup {None}
  BY <1>1, <1>3 DEF Rest
<1>4. ASSUME NEW at \in {"fail", "reset", "resetAndEnqueue", "enqueue"}, Proceed(r, at)
      PROVE  /\ recovery' \in [Recoverers -> RecoveryState(claims)]
             /\ recovery'[r].at = at
             /\ recovery'[r].status = recovery[r].status
             /\ recovery'[r].startedAt = recovery[r].startedAt
             /\ \A q \in Recoverers : q # r => recovery'[q] = recovery[q]
             /\ lock' = lock
  BY <1>2, <1>4 DEF Proceed, RecoveryState
<1> QED BY <1>1, <1>3, <1>4

LEMMA FaultType == ASSUME faults \in 0..MaxFaults, Fault PROVE faults' \in 0..MaxFaults
BY DEF Fault

LEMMA SetStatusType ==
    ASSUME TypeOK, NEW s \in Statuses \ {"PROCESSING"}, SetStatus(s)
    PROVE  /\ status' = s /\ startedAt' = 0 /\ claims' = claims /\ overdue' = overdue
           /\ status' \in Statuses /\ startedAt' \in 0..claims'
           /\ status' = "PROCESSING" <=> startedAt' # 0
BY DEF SetStatus, TypeOK

LEMMA InitInv == Init => Inv
<1> SUFFICES ASSUME Init PROVE Inv
  OBVIOUS
<1>1. worker \in [Workers -> WorkerState(claims)] /\ \A w \in Workers : worker[w].at = "idle"
  BY DEF Init, Idle, WorkerAt, WorkerState, WorkerPlaces
<1>2. recovery \in [Recoverers -> RecoveryState(claims)]
      /\ \A r \in Recoverers : recovery[r].at = "idle"
  BY DEF Init, Resting, Target, RecoveryState, Statuses
<1>3. job \in JobOf(Workers) /\ job.owner = None
  BY DEF Init, NoJob, JobOf, JobStates
<1>4. TypeOK
  <2>1. /\ status \in Statuses /\ claims \in Nat /\ startedAt \in 0..claims
        /\ (status = "PROCESSING" <=> startedAt # 0) /\ overdue \subseteq 1..claims
    BY DEF Init, Statuses
  <2>2. /\ sender \in {"prepare", "enqueue", "done"} /\ lock \in Recoverers \cup {None}
        /\ faults \in 0..MaxFaults
    BY DEF Init
  <2>4. gaveUp \in BOOLEAN /\ late \in BOOLEAN
    BY Zenon DEF Init
  <2>3. job.owner # None => job.state = "ACTIVE"
    BY <1>3
  <2> QED BY <1>1, <1>2, <1>3, <2>1, <2>2, <2>3, <2>4, TypesMade
<1> QED BY <1>1, <1>2, <1>3, <1>4
  DEF Inv, RecoveryInv, Spotted, Acting, HolderInv, ClaimHeld, WorkingInv, Exclusive, Working

(***************************************************************************)
(* What several steps have in common.                                      *)
(***************************************************************************)
(* A recoverer that does not move.                                         *)
LEMMA RecoveryKept ==
    ASSUME Inv, NEW r \in Recoverers, recovery'[r] = recovery[r], overdue \subseteq overdue',
           \A w \in Workers : Claimed(w)' =>
                (Claimed(w) /\ worker'[w].claim = worker[w].claim) \/ worker'[w].claim = claims + 1
    PROVE  Spotted(r)' /\ Acting(r)'
<1>1. Spotted(r) /\ Acting(r)
  BY DEF Inv, RecoveryInv
<1>2. recovery[r].startedAt \in 0..claims /\ claims \in Nat
  BY Types DEF Inv, RecoveryState
<1>3. Spotted(r)'
  BY <1>1 DEF Spotted
<1>4. Acting(r)'
  <2> SUFFICES ASSUME recovery[r].at \in {"fail", "reset", "resetAndEnqueue"},
                      recovery[r].status = "PROCESSING",
                      NEW w \in Workers, Claimed(w)'
               PROVE  worker'[w].claim # recovery[r].startedAt
    BY <1>1 DEF Acting
  <2> QED BY <1>1, <1>2 DEF Acting
<1> QED BY <1>3, <1>4

(* Who has claimed, and who works, while the row has another status.       *)
LEMMA NobodyClaims ==
    ASSUME Inv
    PROVE  /\ ~late /\ status \notin {"PROCESSING", "deleted"} =>
                \A w \in Workers : ~Claimed(w)
           /\ overdue = {} /\ status \notin {"PROCESSING", "COMPLETED", "deleted"} =>
                \A w \in Workers : ~Working(w)
BY DEF Inv, ClaimHeld, Claimed, WorkingInv

(* Only the row changes.                                                   *)
LEMMA RowStep ==
    ASSUME Inv, UNCHANGED <<claims, overdue, job, worker, late>>,
           \/ UNCHANGED <<status, startedAt>>
           \/ status' = "deleted"
           \/ /\ ~late => \A w \in Workers : ~Claimed(w)
              /\ overdue = {} => \A w \in Workers : ~Working(w)
    PROVE  HolderInv' /\ ClaimHeld' /\ WorkingInv' /\ Exclusive'
<1>1. HolderInv'
  BY DEF Inv, HolderInv
<1>2. ClaimHeld'
  BY DEF Inv, ClaimHeld, Claimed
<1>3. WorkingInv'
  BY DEF Inv, WorkingInv, Working
<1>4. Exclusive'
  BY DEF Inv, Exclusive, Working
<1> QED BY <1>1, <1>2, <1>3, <1>4

(* Only the job changes; its holder keeps it, or is late.                  *)
LEMMA JobStep ==
    ASSUME Inv, UNCHANGED <<messageVars, worker>>,
           \/ job'.owner = job.owner /\ UNCHANGED late
           \/ job'.owner = None /\ (late' \/ job.owner = None) /\ (late => late')
    PROVE  /\ HolderInv' /\ ClaimHeld' /\ WorkingInv' /\ Exclusive'
           /\ \A w \in Workers : Claimed(w)' => Claimed(w) /\ worker'[w].claim = worker[w].claim
<1>1. HolderInv'
  BY DEF Inv, HolderInv
<1>2. \A w \in Workers : Claimed(w)' => Claimed(w) /\ worker'[w].claim = worker[w].claim
  BY DEF Claimed
<1>3. ClaimHeld'
  BY DEF Inv, ClaimHeld, messageVars
<1>4. WorkingInv'
  BY DEF Inv, WorkingInv, Working, messageVars
<1>5. Exclusive'
  BY DEF Inv, Exclusive, Working, messageVars
<1> QED BY <1>1, <1>2, <1>3, <1>4, <1>5

(* A worker goes on with its job, or ends; what it does to the row, it     *)
(* does as the only worker of a claim.                                     *)
LEMMA WorkerGoesOn ==
    ASSUME Inv, NEW w \in Workers, worker[w].at # "idle",
           worker' \in [Workers -> WorkerState(claims)],
           \A v \in Workers : v # w => worker'[v] = worker[v],
           UNCHANGED <<claims, overdue, late, recovery>>,
           \/ job'.owner = job.owner
           \/ worker'[w].at = "idle" /\ job'.owner = IF job.owner = w THEN None ELSE job.owner,
           Working(w)' => Working(w),
           worker'[w].at \in {"extract", "complete"} =>
                worker[w].at \in {"extract", "complete"} /\ worker'[w].claim = worker[w].claim,
           \/ UNCHANGED <<status, startedAt>>
           \/ status = "PROCESSING" /\ status' = "COMPLETED"
                /\ worker'[w].at \notin {"extract", "complete"}
           \/ Working(w) /\ ~Working(w)'
    PROVE  RecoveryInv' /\ HolderInv' /\ ClaimHeld' /\ WorkingInv' /\ Exclusive'
<1>1. \A v \in Workers : Claimed(v)' => Claimed(v) /\ worker'[v].claim = worker[v].claim
  BY DEF Claimed
<1>2. RecoveryInv'
  BY <1>1, RecoveryKept DEF RecoveryInv
<1>3. ~late => \A v \in Workers : v # w => worker[v].at = "idle"
  BY DEF Inv, HolderInv
<1>4. HolderInv'
  BY <1>3 DEF Inv, HolderInv
<1>5. ClaimHeld'
  <2> SUFFICES ASSUME ~late, NEW v \in Workers, worker'[v].at \in {"extract", "complete"},
                      job'.owner = v, status' # "deleted"
               PROVE  status' = "PROCESSING" /\ startedAt' = worker'[v].claim
    BY DEF ClaimHeld
  <2>1. v = w
    BY <1>3
  <2>2. worker[v].at \in {"extract", "complete"} /\ job.owner = v
    BY <1>1 DEF Claimed
  <2> QED BY <2>1, <2>2 DEF Inv, ClaimHeld, Working
<1>6. \A v \in Workers : Working(v)' => Working(v)
  BY DEF Working
<1>7. Exclusive'
  BY <1>6 DEF Inv, Exclusive
<1>8. WorkingInv'
  <2> SUFFICES ASSUME overdue = {}, NEW v \in Workers, Working(v)'
               PROVE  status' \in {"PROCESSING", "COMPLETED", "deleted"}
    BY DEF WorkingInv
  <2>1. Working(v)
    BY <1>6
  <2> QED BY <2>1 DEF Inv, WorkingInv, Exclusive
<1> QED BY <1>2, <1>4, <1>5, <1>7, <1>8

(***************************************************************************)
(* The steps.                                                              *)
(***************************************************************************)
LEMMA SenderInv ==
    ASSUME Inv, Prepare \/ SenderStops \/ DeleteRoom \/ LockExpires
    PROVE  Inv'
<1>1. TypeOK /\ UNCHANGED <<claims, overdue, job, worker, late, gaveUp, recovery>>
  BY DEF Inv, Prepare, SenderStops, DeleteRoom, LockExpires, SetStatus, messageVars, histories
<1>2. /\ \/ UNCHANGED <<status, startedAt>>
         \/ status' = "deleted"
         \/ status \in {"none", "PENDING", "FAILED"}
      /\ status' \in Statuses /\ startedAt' \in 0..claims
      /\ status' = "PROCESSING" <=> startedAt' # 0
  BY <1>1 DEF Prepare, SenderStops, DeleteRoom, LockExpires, SetStatus, messageVars, TypeOK,
              Statuses
<1>3. sender' \in {"prepare", "enqueue", "done"} /\ lock' \in Recoverers \cup {None}
      /\ faults' \in 0..MaxFaults
  BY <1>1, FaultType DEF Prepare, SenderStops, DeleteRoom, LockExpires, TypeOK
<1>4. TypeOK'
  BY <1>1, <1>2, <1>3 DEF TypeOK
<1>5. HolderInv' /\ ClaimHeld' /\ WorkingInv' /\ Exclusive'
  BY <1>1, <1>2, RowStep, NobodyClaims
<1>6. RecoveryInv'
  BY <1>1, RecoveryKept DEF RecoveryInv, Claimed
<1> QED BY <1>4, <1>5, <1>6 DEF Inv

LEMMA FiveMinutesInv == ASSUME Inv, FiveMinutes PROVE Inv'
<1>1. overdue \subseteq overdue' /\ overdue' # {} /\ overdue' \subseteq 1..claims
  BY Types DEF Inv, FiveMinutes, TypeOK
<1>2. TypeOK'
  BY <1>1 DEF Inv, FiveMinutes, TypeOK, histories
<1>3. RecoveryInv'
  BY <1>1, RecoveryKept DEF FiveMinutes, RecoveryInv, Claimed
<1>4. HolderInv' /\ ClaimHeld'
  BY DEF Inv, FiveMinutes, HolderInv, ClaimHeld, histories
<1> QED BY <1>1, <1>2, <1>3, <1>4 DEF Inv, WorkingInv, Exclusive

LEMMA QueueInv ==
    ASSUME Inv, Enqueue \/ Promote \/ Stalled \/ LoseJob \/ LoseLock
    PROVE  Inv'
<1>1. UNCHANGED <<messageVars, worker, recovery, lock>>
  BY DEF Enqueue, Promote, Stalled, LoseJob, LoseLock
<1>2. TypeOK /\ job \in JobOf(Workers) /\ (job.owner # None => job.state = "ACTIVE")
  BY DEF Inv, TypeOK
<1>3. job' \in JobOf(Workers) /\ (job'.owner # None => job'.state = "ACTIVE")
  <2>1. CASE Enqueue \/ Promote \/ Stalled \/ LoseJob
    BY <1>2, <2>1, JobSteps DEF Enqueue, Promote, Stalled, LoseJob
  <2>2. CASE LoseLock
    BY <1>2, <2>2, JobSteps DEF LoseLock, JobOf
  <2> QED BY <2>1, <2>2
<1>4. \/ job'.owner = job.owner /\ UNCHANGED late
      \/ job'.owner = None /\ (late' \/ job.owner = None) /\ (late => late')
  <2>1. CASE Enqueue \/ Promote \/ Stalled
    BY <1>2, <2>1, JobSteps DEF Enqueue, Promote, Stalled, histories
  <2>2. CASE LoseJob
    BY <1>2, <2>2, JobSteps DEF LoseJob
  <2>3. CASE LoseLock
    BY <1>2, <2>3, JobSteps DEF LoseLock, JobOf
  <2> QED BY <2>1, <2>2, <2>3
<1>5. gaveUp' \in BOOLEAN /\ late' \in BOOLEAN
  <2>1. gaveUp \in BOOLEAN /\ late \in BOOLEAN
    BY <1>2 DEF TypeOK
  <2> QED BY <2>1, Zenon DEF Enqueue, Promote, Stalled, LoseJob, LoseLock, histories
<1>6. sender' \in {"prepare", "enqueue", "done"} /\ faults' \in 0..MaxFaults
  BY <1>2, FaultType DEF Enqueue, Promote, Stalled, LoseJob, LoseLock, TypeOK
<1>7. TypeOK'
  BY <1>1, <1>2, <1>3, <1>5, <1>6 DEF TypeOK, messageVars
<1>8. /\ HolderInv' /\ ClaimHeld' /\ WorkingInv' /\ Exclusive'
      /\ \A w \in Workers : Claimed(w)' => Claimed(w) /\ worker'[w].claim = worker[w].claim
  BY <1>1, <1>4, JobStep
<1>9. RecoveryInv'
  BY <1>1, <1>8, RecoveryKept DEF RecoveryInv, messageVars
<1> QED BY <1>7, <1>8, <1>9 DEF Inv

LEMMA TakeInv == ASSUME Inv, NEW w \in Workers, Take(w) PROVE Inv'
<1>1. TypeOK /\ job \in JobOf(Workers) /\ job.owner = None
  BY DEF Inv, TypeOK, Take
<1>2. job' \in JobOf(Workers) /\ job'.owner = w /\ job'.state = "ACTIVE"
  BY <1>1, JobSteps DEF Take
<1>3. WorkerAt("claim", 0, job.attempts, "ok") \in WorkerState(claims)
  BY <1>1 DEF WorkerAt, WorkerState, WorkerPlaces, JobOf, TypeOK
<1>4. /\ worker' \in [Workers -> WorkerState(claims)] /\ worker'[w].at = "claim"
      /\ \A v \in Workers : v # w => worker'[v] = worker[v]
  BY <1>1, <1>3, Types DEF Take, Put, WorkerAt
<1>5. UNCHANGED <<messageVars, sender, recovery, lock, gaveUp, late, faults>>
  BY DEF Take, histories
<1>6. TypeOK'
  BY <1>1, <1>2, <1>4, <1>5 DEF TypeOK, messageVars, WorkerState, WorkerPlaces
<1>7. RecoveryInv'
  BY <1>2, <1>4, <1>5, RecoveryKept DEF RecoveryInv, Claimed, messageVars
<1>8. HolderInv'
  BY <1>1, <1>2, <1>4, <1>5 DEF Inv, HolderInv
<1>9. ClaimHeld'
  BY <1>2, <1>4 DEF ClaimHeld
<1>10. \A v \in Workers : Working(v)' => Working(v)
  BY <1>4 DEF Working
<1>11. WorkingInv' /\ Exclusive'
  BY <1>5, <1>10 DEF Inv, WorkingInv, Exclusive, messageVars
<1> QED BY <1>6, <1>7, <1>8, <1>9, <1>11 DEF Inv

(* The claim of a message that was PENDING.                                *)
LEMMA ClaimedInv == ASSUME Inv, NEW w \in Workers, Claim(w), status = "PENDING" PROVE Inv'
<1>1. TypeOK /\ claims \in Nat /\ worker[w].at = "claim"
  BY DEF Inv, TypeOK, Claim
<1>2. /\ status' = "PROCESSING" /\ claims' = claims + 1 /\ startedAt' = claims + 1
      /\ overdue' = overdue
      /\ Put(w, WorkerAt("extract", claims + 1, worker[w].attempts, "ok"))
      /\ UNCHANGED <<job, sender, recovery, lock, gaveUp, late, faults>>
  BY DEF Claim, histories
<1>3. worker \in [Workers -> WorkerState(claims')]
  <2>1. \A e \in WorkerState(claims) : e \in WorkerState(claims')
    BY <1>1, <1>2 DEF WorkerState
  <2> QED BY <1>1, <2>1, Types
<1>4. WorkerAt("extract", claims + 1, worker[w].attempts, "ok") \in WorkerState(claims')
  BY <1>1, <1>2, <1>3 DEF WorkerAt, WorkerState, WorkerPlaces
<1>5. /\ worker' \in [Workers -> WorkerState(claims')]
      /\ worker'[w].at = "extract" /\ worker'[w].claim = claims + 1
      /\ \A v \in Workers : v # w => worker'[v] = worker[v]
  BY <1>2, <1>3, <1>4 DEF Put, WorkerAt
<1>6. recovery' \in [Recoverers -> RecoveryState(claims')]
  <2>1. \A e \in RecoveryState(claims) : e \in RecoveryState(claims')
    BY <1>1, <1>2 DEF RecoveryState
  <2> QED BY <1>1, <1>2, <2>1, Types
<1>7. TypeOK'
  <2>1. /\ status' \in Statuses /\ claims' \in Nat /\ startedAt' \in 0..claims'
        /\ (status' = "PROCESSING" <=> startedAt' # 0) /\ overdue' \subseteq 1..claims'
    BY <1>1, <1>2 DEF TypeOK, Statuses
  <2> QED BY <1>1, <1>2, <1>5, <1>6, <2>1
        DEF TypeOK, WorkerState, WorkerPlaces, RecoveryState
<1>8. RecoveryInv'
  BY <1>2, <1>5, RecoveryKept DEF RecoveryInv, Claimed
<1>9. HolderInv'
  BY <1>1, <1>2, <1>5 DEF Inv, HolderInv
<1>10. ClaimHeld'
  <2>1. \A v \in Workers : ~late /\ v # w => ~Claimed(v)'
    BY <1>2, <1>5, NobodyClaims DEF Claimed
  <2> QED BY <1>2, <1>5, <2>1 DEF ClaimHeld, Claimed
<1>11. overdue = {} => \A v \in Workers : v # w => ~Working(v)'
  BY <1>2, <1>5, NobodyClaims DEF Working
<1>12. WorkingInv' /\ Exclusive'
  BY <1>2, <1>11 DEF WorkingInv, Exclusive
<1> QED BY <1>7, <1>8, <1>9, <1>10, <1>12 DEF Inv

(* A worker's step that leaves the job alone.                              *)
LEMMA WorkerRowInv ==
    ASSUME Inv, NEW w \in Workers,
           \/ Claim(w) /\ status # "PENDING"
           \/ LookAtStatus(w) \/ ExtractAndSave(w) \/ MarkCompleted(w) \/ CompletedUnheard(w)
           \/ MarkFailed(w) \/ DatabaseFails(w)
    PROVE  Inv'
<1>1. /\ TypeOK /\ worker \in [Workers -> WorkerState(claims)] /\ claims \in Nat
      /\ UNCHANGED <<claims, overdue, job, sender, recovery, lock, late>>
  BY Types DEF Inv, Claim, LookAtStatus, ExtractAndSave, MarkCompleted, CompletedUnheard,
               MarkFailed, DatabaseFails, SetStatus, messageVars, histories
<1>2. /\ worker[w].at # "idle"
      /\ worker' \in [Workers -> WorkerState(claims)]
      /\ \A v \in Workers : v # w => worker'[v] = worker[v]
      /\ Working(w)' => Working(w)
      /\ worker'[w].at \in {"extract", "complete"} =>
            worker[w].at \in {"extract", "complete"} /\ worker'[w].claim = worker[w].claim
  <2>1. CASE Claim(w) /\ status # "PENDING"
    BY <1>1, <2>1, WorkerMoves DEF Claim, Working, WorkerPlaces
  <2>2. CASE LookAtStatus(w)
    BY <1>1, <2>2, WorkerMoves DEF LookAtStatus, Working
  <2>3. CASE ExtractAndSave(w)
    BY <1>1, <2>3, WorkerMoves DEF ExtractAndSave, Working, WorkerPlaces
  <2>4. CASE MarkCompleted(w)
    BY <1>1, <2>4, WorkerMoves DEF MarkCompleted, Working
  <2>5. CASE CompletedUnheard(w)
    BY <1>1, <2>5, WorkerMoves DEF CompletedUnheard, Working
  <2>6. CASE MarkFailed(w)
    BY <1>1, <2>6, WorkerMoves DEF MarkFailed, Working, WorkerPlaces
  <2>7. CASE DatabaseFails(w)
    BY <1>1, <2>7, WorkerMoves DEF DatabaseFails, Working, WorkerPlaces
  <2> QED BY <2>1, <2>2, <2>3, <2>4, <2>5, <2>6, <2>7
<1>3. /\ \/ UNCHANGED <<status, startedAt>>
         \/ status = "PROCESSING" /\ status' = "COMPLETED"
              /\ worker'[w].at \notin {"extract", "complete"}
         \/ Working(w) /\ ~Working(w)'
      /\ status' \in Statuses /\ startedAt' \in 0..claims
      /\ status' = "PROCESSING" <=> startedAt' # 0
  <2>1. CASE UNCHANGED <<status, startedAt>>
    BY <1>1, <2>1 DEF TypeOK
  <2>2. CASE MarkCompleted(w) /\ status = "PROCESSING"
    BY <1>1, <2>2, WorkerMoves DEF MarkCompleted, SetStatus, Statuses
  <2>3. CASE CompletedUnheard(w)
    BY <1>1, <2>3, WorkerMoves DEF CompletedUnheard, SetStatus, Statuses
  <2>4. CASE MarkFailed(w)
    <3>1. Working(w) /\ ~Working(w)'
      BY <1>1, <2>4, WorkerMoves DEF MarkFailed, Working, WorkerPlaces
    <3> QED BY <1>1, <2>4, <3>1 DEF MarkFailed, SetStatus, Statuses, messageVars, TypeOK
  <2> QED BY <2>1, <2>2, <2>3, <2>4
          DEF Claim, LookAtStatus, ExtractAndSave, MarkCompleted, DatabaseFails, messageVars
<1>4. gaveUp' \in BOOLEAN
  <2>1. gaveUp \in BOOLEAN
    BY <1>1 DEF TypeOK
  <2> QED BY <2>1, Zenon DEF Claim, LookAtStatus, ExtractAndSave, MarkCompleted,
                             CompletedUnheard, MarkFailed, DatabaseFails, histories
<1>5. faults' \in 0..MaxFaults
  BY <1>1, FaultType DEF Claim, LookAtStatus, ExtractAndSave, MarkCompleted,
                         CompletedUnheard, MarkFailed, DatabaseFails, TypeOK
<1>6. TypeOK'
  BY <1>1, <1>2, <1>3, <1>4, <1>5 DEF TypeOK, WorkerState, WorkerPlaces
<1>7. RecoveryInv' /\ HolderInv' /\ ClaimHeld' /\ WorkingInv' /\ Exclusive'
  BY <1>1, <1>2, <1>3, WorkerGoesOn
<1> QED BY <1>6, <1>7 DEF Inv

(* It returns or dies.                                                     *)
LEMMA WorkerEndInv == ASSUME Inv, NEW w \in Workers, Return(w) \/ Crash(w) PROVE Inv'
<1>1. /\ TypeOK /\ worker \in [Workers -> WorkerState(claims)] /\ claims \in Nat
      /\ UNCHANGED <<messageVars, sender, recovery, lock, late>> /\ Put(w, Idle)
      /\ worker[w].at # "idle"
  BY Types DEF Inv, Return, Crash, histories
<1>2. Idle \in WorkerState(claims) /\ Idle.at = "idle"
  BY <1>1 DEF Idle, WorkerAt, WorkerState, WorkerPlaces
<1>3. /\ worker' \in [Workers -> WorkerState(claims)] /\ worker'[w].at = "idle"
      /\ \A v \in Workers : v # w => worker'[v] = worker[v]
  BY <1>1, <1>2 DEF Put
<1>4. /\ job' \in JobOf(Workers) /\ (job'.owner # None => job'.state = "ACTIVE")
      /\ job'.owner = IF job.owner = w THEN None ELSE job.owner
  <2>1. job \in JobOf(Workers) /\ (job.owner # None => job.state = "ACTIVE")
    BY <1>1 DEF TypeOK
  <2> QED BY <2>1, JobSteps DEF Return, Crash
<1>5. gaveUp' \in BOOLEAN /\ late' \in BOOLEAN
  <2>1. gaveUp \in BOOLEAN /\ late \in BOOLEAN
    BY <1>1 DEF TypeOK
  <2> QED BY <1>1, <2>1, Zenon DEF Return, Crash, histories
<1>6. faults' \in 0..MaxFaults
  BY <1>1, FaultType DEF Return, Crash, TypeOK
<1>7. TypeOK'
  BY <1>1, <1>3, <1>4, <1>5, <1>6 DEF TypeOK, WorkerState, WorkerPlaces, messageVars
<1>8. RecoveryInv' /\ HolderInv' /\ ClaimHeld' /\ WorkingInv' /\ Exclusive'
  <2>1. ~Working(w)'
    BY <1>3 DEF Working
  <2> QED BY <1>1, <1>3, <1>4, <2>1, WorkerGoesOn DEF messageVars
<1> QED BY <1>7, <1>8 DEF Inv

LEMMA RecoverInv ==
    ASSUME Inv, NEW r \in Recoverers, RecoveryStep(r) \/ RecoveryFails(r)
    PROVE  Inv'
<1> USE DEF RecoveryStep
<1>1. /\ TypeOK /\ recovery \in [Recoverers -> RecoveryState(claims)] /\ claims \in Nat
      /\ lock \in Recoverers \cup {None} /\ startedAt \in 0..claims
      /\ UNCHANGED <<claims, overdue, worker, sender, gaveUp, late>>
  BY Types DEF Inv, TypeOK, Acquire, List, Snapshot, MarkRecoveryFailed,
               ResetProcessingToPending, Requeue, RecoveryFails, SetStatus, messageVars, histories
<1>2. Spotted(r) /\ Acting(r)
  BY DEF Inv, RecoveryInv
<1>3. job \in JobOf(Workers) /\ (job.owner # None => job.state = "ACTIVE")
  BY <1>1 DEF TypeOK
<1>4. faults' \in 0..MaxFaults
  BY <1>1, FaultType DEF Acquire, List, Snapshot, MarkRecoveryFailed,
                         ResetProcessingToPending, Requeue, RecoveryFails, TypeOK
<1>5. /\ job' \in JobOf(Workers) /\ job'.owner = job.owner
      /\ job'.owner # None => job'.state = "ACTIVE"
  BY <1>3, JobSteps DEF Acquire, List, Snapshot, MarkRecoveryFailed,
                        ResetProcessingToPending, Requeue, RecoveryFails
<1>6. \A w \in Workers : Claimed(w)' => Claimed(w) /\ worker'[w].claim = worker[w].claim
  BY <1>1, <1>5 DEF Claimed
<1>7. /\ recovery' \in [Recoverers -> RecoveryState(claims)]
      /\ lock' \in Recoverers \cup {None}
      /\ \A q \in Recoverers : q # r => recovery'[q] = recovery[q]
      /\ Spotted(r)' /\ Acting(r)'
  <2>1. ASSUME recovery' \in [Recoverers -> RecoveryState(claims)],
               recovery'[r].at \in {"idle", "list"}
        PROVE  Spotted(r)' /\ Acting(r)'
    BY <2>1 DEF Spotted, Acting
  <2>2. CASE Rest(r)
    BY <1>1, <2>1, <2>2, RecoveryMoves
  <2>3. CASE Acquire(r)
    <3>1. [recovery[r] EXCEPT !.at = "list"] \in RecoveryState(claims)
      BY <1>1 DEF RecoveryState
    <3>2. recovery' \in [Recoverers -> RecoveryState(claims)] /\ recovery'[r].at = "list"
      BY <1>1, <2>3, <3>1 DEF Acquire, RecoveryState
    <3> QED BY <1>1, <2>1, <2>3, <3>2 DEF Acquire
  <2>4. CASE List(r)
    <3>1. CASE status = "PENDING" \/ (status = "PROCESSING" /\ startedAt \in overdue)
      <4>1. Target("snapshot", status, startedAt) \in RecoveryState(claims)
        BY <1>1 DEF Target, RecoveryState, TypeOK
      <4>2. recovery'[r] = Target("snapshot", status, startedAt) /\ UNCHANGED lock
        BY <1>1, <2>4, <3>1 DEF List
      <4>3. Spotted(r)' /\ Acting(r)'
        BY <1>1, <3>1, <4>2 DEF Spotted, Acting, Target
      <4> QED BY <1>1, <2>4, <3>1, <4>1, <4>2, <4>3 DEF List
    <3> QED BY <2>2, <2>4, <3>1 DEF List
  <2>5. CASE Snapshot(r) /\ ~Rest(r)
    <3>1. job.state # "ACTIVE"
      BY <2>5 DEF Snapshot
    <3>2. \A w \in Workers : ~Claimed(w)'
      BY <1>3, <1>6, <3>1 DEF Claimed
    <3>3. PICK at \in {"fail", "reset", "resetAndEnqueue", "enqueue"} :
                /\ Proceed(r, at)
                /\ at \in {"reset", "resetAndEnqueue"} => recovery[r].status # "PENDING"
      BY <1>3, <2>5 DEF Snapshot, JobOf, JobStates
    <3>4. /\ recovery' \in [Recoverers -> RecoveryState(claims)]
          /\ recovery'[r].at = at /\ recovery'[r].status = recovery[r].status
          /\ \A q \in Recoverers : q # r => recovery'[q] = recovery[q]
          /\ lock' = lock
      BY <1>1, <3>3, RecoveryMoves
    <3>5. Spotted(r)'
      BY <1>1, <1>2, <2>5, <3>4 DEF Snapshot, Spotted
    <3>6. Acting(r)'
      BY <1>2, <2>5, <3>2, <3>3, <3>4 DEF Snapshot, Spotted, Acting
    <3> QED BY <1>1, <3>4, <3>5, <3>6
  <2>6. CASE ResetProcessingToPending(r) /\ ~Rest(r)
    <3>1. Proceed(r, "enqueue")
      BY <2>6 DEF ResetProcessingToPending
    <3>2. /\ recovery' \in [Recoverers -> RecoveryState(claims)]
          /\ recovery'[r].at = "enqueue" /\ recovery'[r].status = recovery[r].status
          /\ \A q \in Recoverers : q # r => recovery'[q] = recovery[q]
          /\ lock' = lock
      BY <1>1, <3>1, RecoveryMoves
    <3>3. Spotted(r)' /\ Acting(r)'
      BY <1>1, <1>2, <2>6, <3>2 DEF ResetProcessingToPending, Spotted, Acting
    <3> QED BY <1>1, <3>2, <3>3
  <2>7. CASE RecoveryFails(r) /\ ~Rest(r)
    <3>1. recovery' = [recovery EXCEPT ![r] = Resting] /\ UNCHANGED lock
      BY <2>7 DEF RecoveryFails
    <3>2. Resting \in RecoveryState(claims) /\ Resting.at = "idle"
      BY <1>1, RecoveryMoves DEF Resting, Target
    <3> QED BY <1>1, <2>1, <3>1, <3>2
  <2> QED BY <2>2, <2>3, <2>4, <2>5, <2>6, <2>7
          DEF MarkRecoveryFailed, Requeue
<1>8. RecoveryInv'
  BY <1>1, <1>6, <1>7, RecoveryKept DEF RecoveryInv
<1>9. CASE Requeue(r)
  <2>1. HolderInv' /\ ClaimHeld' /\ WorkingInv' /\ Exclusive'
    BY <1>1, <1>5, <1>9, JobStep DEF Requeue
  <2>2. TypeOK'
    BY <1>1, <1>4, <1>5, <1>7, <1>9 DEF Requeue, TypeOK, RecoveryState, messageVars
  <2> QED BY <1>8, <2>1, <2>2 DEF Inv
<1>10. CASE ~Requeue(r)
  <2>1. UNCHANGED job
    BY <1>10 DEF Acquire, List, Snapshot, MarkRecoveryFailed, ResetProcessingToPending,
                 RecoveryFails
  <2>2. \/ UNCHANGED <<status, startedAt>>
        \/ /\ status' \in {"PENDING", "FAILED"} /\ startedAt' = 0
           /\ ~late => \A w \in Workers : ~Claimed(w)
           /\ overdue = {} => \A w \in Workers : ~Working(w)
    <3>1. CASE MarkRecoveryFailed(r)
      <4> SUFFICES ASSUME status = recovery[r].status, SetStatus("FAILED"),
                          status = "PROCESSING" => startedAt = recovery[r].startedAt
                   PROVE  /\ ~late => \A w \in Workers : ~Claimed(w)
                          /\ overdue = {} => \A w \in Workers : ~Working(w)
        BY <3>1 DEF MarkRecoveryFailed, AsListed, SetStatus, messageVars
      <4>1. status \in {"PENDING", "PROCESSING"} /\ (status = "PROCESSING" => overdue # {})
        BY <1>2, <3>1 DEF Spotted, MarkRecoveryFailed
      <4>2. status = "PROCESSING" /\ ~late => \A w \in Workers : ~Claimed(w)
        BY <1>2, <3>1 DEF Acting, MarkRecoveryFailed, Inv, ClaimHeld, Claimed
      <4> QED BY <4>1, <4>2, NobodyClaims
    <3>2. CASE ResetProcessingToPending(r)
      <4> SUFFICES ASSUME AsListed(r), SetStatus("PENDING")
                   PROVE  /\ ~late => \A w \in Workers : ~Claimed(w)
                          /\ overdue = {} => \A w \in Workers : ~Working(w)
        BY <3>2 DEF ResetProcessingToPending, SetStatus, messageVars
      <4>1. status = "PROCESSING" /\ overdue # {} /\ startedAt = recovery[r].startedAt
        BY <1>2, <3>2 DEF Spotted, Acting, AsListed, ResetProcessingToPending
      <4>2. ~late => \A w \in Workers : ~Claimed(w)
        BY <1>2, <3>2, <4>1 DEF Acting, ResetProcessingToPending, Inv, ClaimHeld, Claimed
      <4> QED BY <4>1, <4>2
    <3> QED BY <1>10, <3>1, <3>2 DEF Acquire, List, Snapshot, RecoveryFails, messageVars
  <2>3. HolderInv' /\ ClaimHeld' /\ WorkingInv' /\ Exclusive'
    BY <1>1, <2>1, <2>2, RowStep
  <2>4. /\ status' \in Statuses /\ startedAt' \in 0..claims
        /\ status' = "PROCESSING" <=> startedAt' # 0
    BY <1>1, <2>2 DEF TypeOK, Statuses
  <2>5. TypeOK'
    BY <1>1, <1>4, <1>5, <1>7, <2>4 DEF TypeOK, RecoveryState
  <2> QED BY <1>8, <2>3, <2>5 DEF Inv
<1> QED BY <1>9, <1>10

LEMMA NextInv == Inv /\ [Next]_vars => Inv'
<1> SUFFICES ASSUME Inv, [Next]_vars PROVE Inv'
  OBVIOUS
<1>1. CASE UNCHANGED vars
  <2>1. TypeOK'
    BY <1>1 DEF vars, messageVars, histories, Inv, TypeOK
  <2>2. HolderInv' /\ ClaimHeld' /\ WorkingInv' /\ Exclusive'
    BY <1>1, RowStep DEF vars, messageVars, histories
  <2>3. RecoveryInv'
    BY <1>1, RecoveryKept DEF vars, messageVars, RecoveryInv, Claimed
  <2> QED BY <2>1, <2>2, <2>3 DEF Inv
<1>2. CASE Next
  BY <1>2, SenderInv, FiveMinutesInv, QueueInv, TakeInv, ClaimedInv, WorkerRowInv, WorkerEndInv,
     RecoverInv DEF Next, QueueStep, WorkerStep
<1> QED BY <1>1, <1>2

THEOREM InvHolds == Spec => []Inv
BY InitInv, NextInv, PTL DEF Spec

(* Type correctness of UserMemoryJob; the claim of a message in PROCESSING *)
(* is one that was made.                                                   *)
THEOREM TypeCorrect == Spec => []TypeOK
<1>1. Inv => TypeOK
  BY DEF Inv
<1> QED BY <1>1, InvHolds, PTL

(* No second worker extracts a message before its claim is overdue.        *)
THEOREM ExclusiveHolds == Spec => []Exclusive
<1>1. Inv => Exclusive
  BY DEF Inv
<1> QED BY <1>1, InvHolds, PTL

(* A worker that did not lose its job finds its claim when it is done.     *)
THEOREM ClaimHeldHolds == Spec => []ClaimHeld
<1>1. Inv => ClaimHeld
  BY DEF Inv
<1> QED BY <1>1, InvHolds, PTL

(* Whatever is lost or delivered twice, COMPLETED is left only with the    *)
(* room.                                                                   *)
THEOREM CompletedIsFinalHolds == Spec => CompletedIsFinal
<1> DEFINE Final == status = "COMPLETED" => status' \in {"COMPLETED", "deleted"}
<1>1. Inv /\ [Next]_vars => [Final]_vars
  <2> SUFFICES ASSUME Inv, Next, status = "COMPLETED" PROVE status' \in {"COMPLETED", "deleted"}
    BY DEF vars
  <2> USE DEF messageVars, SetStatus
  <2>1. CASE \E w \in Workers : WorkerStep(w) \/ CompletedUnheard(w) \/ DatabaseFails(w) \/ Crash(w)
    BY <2>1 DEF WorkerStep, Take, Claim, LookAtStatus, ExtractAndSave, MarkCompleted, MarkFailed,
                Return, CompletedUnheard, DatabaseFails, Crash
  <2>2. ASSUME NEW r \in Recoverers, RecoveryStep(r) \/ RecoveryFails(r)
        PROVE  status' \in {"COMPLETED", "deleted"}
    <3>1. recovery[r].at \in {"fail", "reset", "resetAndEnqueue"} => recovery[r].status # "COMPLETED"
      BY DEF Inv, RecoveryInv, Spotted
    <3> QED BY <2>2, <3>1 DEF RecoveryStep, Acquire, List, Snapshot, MarkRecoveryFailed, AsListed,
                              ResetProcessingToPending, Requeue, RecoveryFails
  <2>3. CASE ~\E w \in Workers : WorkerStep(w) \/ CompletedUnheard(w) \/ DatabaseFails(w) \/ Crash(w)
    BY <2>2, <2>3 DEF Next, Prepare, Enqueue, SenderStops, DeleteRoom, FiveMinutes, QueueStep,
                      Promote, Stalled, LoseJob, LoseLock, LockExpires
  <2> QED BY <2>1, <2>3
<1> QED BY <1>1, InvHolds, PTL DEF Spec, CompletedIsFinal

-----------------------------------------------------------------------------
(* UserMemoryRecords.                                                      *)

USE RecordsAssumption DEF Messages, Actions, deletionHistory

MemoryRow == [status : {"none", "ACTIVE", "ARCHIVED", "DELETED"}, source : 0..N,
              content : 0..N, embedding : 0..N, deletedAt : 0..N]
ExtractionState == [at : {"unsent", "queued", "write", "done", "gone"},
                    action : Actions, failures : 0..Retries]

(***************************************************************************)
(* The inductive invariant.  While rooms are kept, a row that is ACTIVE or *)
(* ARCHIVED knows its source, which is the newest message applied since    *)
(* the last deletion and newer than the deletion; a deleted row remembers  *)
(* the deletion; only the row from before embeddings can lack its vector.  *)
(***************************************************************************)
Written == memory.status \in {"ACTIVE", "ARCHIVED"}

NotSentYet == \A m \in Messages : m > sent => message[m].at = "unsent"

AppliedInv == ~Written => applied = {}

SourceInv == RoomsKept /\ Written =>
    /\ memory.source > lastDelete /\ memory.content > lastDelete
    /\ \A m \in applied : m <= memory.source

DeletionInv ==
    /\ memory.status = "none" => lastDelete = 0 /\ memory.source = 0
    /\ memory.status = "DELETED" => memory.deletedAt = lastDelete

VectorInv ==
    /\ EmbeddingMatches
    /\ Missing => memory.content = 1
    /\ backfill \in {0, 1}

RecordsInv == RecordsTypeOK /\ NotSentYet /\ AppliedInv /\ SourceInv /\ DeletionInv /\ VectorInv

LEMMA RowTypes ==
    \A s, source, content, embedding, deletedAt :
        LET r == Row(s, source, content, embedding, deletedAt) IN
        /\ r.status = s /\ r.source = source /\ r.content = content
        /\ r.embedding = embedding /\ r.deletedAt = deletedAt
        /\ s \in {"none", "ACTIVE", "ARCHIVED", "DELETED"} /\ source \in 0..N
           /\ content \in 0..N /\ embedding \in 0..N /\ deletedAt \in 0..N => r \in MemoryRow
BY DEF Row, MemoryRow

LEMMA Typed == ASSUME RecordsTypeOK PROVE message \in [Messages -> ExtractionState] /\ memory \in MemoryRow
BY DEF RecordsTypeOK, ExtractionState, MemoryRow

LEMMA RecordsInitInv == RecordsInit => RecordsInv
<1> SUFFICES ASSUME RecordsInit PROVE RecordsInv
  OBVIOUS
<1>1. CASE memory = NoRow /\ sent = 0 /\ applied = {}
           /\ message = [m \in Messages |-> Extraction("unsent", "UPSERT")]
  <2>1. memory \in MemoryRow /\ memory.status = "none" /\ memory.source = 0 /\ memory.embedding = 0
        /\ memory.deletedAt = 0
    BY <1>1, RowTypes DEF NoRow
  <2>2. message \in [Messages -> ExtractionState] /\ \A m \in Messages : message[m].at = "unsent"
    BY <1>1 DEF Extraction, ExtractionState
  <2>3. RecordsTypeOK
    BY <1>1, <2>1, <2>2 DEF RecordsInit, RecordsTypeOK, MemoryRow, ExtractionState
  <2> QED BY <1>1, <2>1, <2>2, <2>3
    DEF RecordsInit, RecordsInv, NotSentYet, AppliedInv, SourceInv, DeletionInv, VectorInv, EmbeddingMatches,
        Missing, Written
<1>2. CASE memory = LegacyRow /\ sent = 1 /\ applied = {1}
           /\ message = [m \in Messages |->
                             Extraction(IF m = 1 THEN "done" ELSE "unsent", "UPSERT")]
  <2>1. memory \in MemoryRow /\ memory.status = "ACTIVE" /\ memory.source = 1
        /\ memory.content = 1 /\ memory.embedding = 0 /\ memory.deletedAt = 0
    BY <1>2, RowTypes DEF LegacyRow
  <2>2. message \in [Messages -> ExtractionState]
        /\ \A m \in Messages : m > 1 => message[m].at = "unsent"
    BY <1>2 DEF Extraction, ExtractionState
  <2>3. sent \in 0..N /\ applied \subseteq Messages
    BY <1>2
  <2>4. RecordsTypeOK
    BY <2>1, <2>2, <2>3 DEF RecordsInit, RecordsTypeOK, MemoryRow, ExtractionState
  <2> QED BY <1>2, <2>1, <2>2, <2>4
    DEF RecordsInit, RecordsInv, NotSentYet, AppliedInv, SourceInv, DeletionInv, VectorInv, EmbeddingMatches,
        Missing, Written
<1> QED BY <1>1, <1>2 DEF RecordsInit

(* A step that leaves the row, the deletions and the applied messages as   *)
(* they are, and lets no room come back.                                   *)
LEMMA RowUntouched ==
    ASSUME RecordsInv, RecordsTypeOK', NotSentYet', RoomsKept' => RoomsKept, backfill' \in {0, 1},
           UNCHANGED <<memory, lastDelete, applied>>
    PROVE  RecordsInv'
BY DEF RecordsInv, AppliedInv, SourceInv, DeletionInv, VectorInv, EmbeddingMatches, Missing, Written

LEMMA SendInv == ASSUME RecordsInv, Send PROVE RecordsInv'
<1> USE DEF RecordsInv
<1>1. sent + 1 \in Messages /\ sent \in Nat
  BY DEF Send, RecordsTypeOK
<1>2. message[sent + 1].at = "unsent"
  BY <1>1 DEF NotSentYet
<1>3. message' \in [Messages -> ExtractionState]
  BY <1>1, Typed DEF Send, ExtractionState
<1>4. /\ \A m \in Messages : m # sent + 1 => message'[m] = message[m]
      /\ message'[sent + 1].at = "queued"
  BY <1>1, Typed DEF Send, ExtractionState
<1>5. RecordsTypeOK'
  BY <1>1, <1>3 DEF Send, RecordsTypeOK, ExtractionState
<1>6. NotSentYet'
  BY <1>1, <1>4 DEF Send, NotSentYet
<1>7. RoomsKept' => RoomsKept
  BY <1>2, <1>4 DEF RoomsKept
<1> QED BY <1>5, <1>6, <1>7, RowUntouched DEF Send, VectorInv

(* The steps of an extraction that do not touch the row.                   *)
LEMMA ExtractionInv ==
    ASSUME RecordsInv, NEW m \in Messages, Extract(m) \/ Fail(m) PROVE RecordsInv'
<1> USE DEF RecordsInv
<1>1. message' \in [Messages -> ExtractionState]
  <2>1. CASE Extract(m)
    BY <2>1, Typed DEF Extract, ExtractionState
  <2>2. CASE Fail(m)
    <3>1. message[m].failures + 1 \in 0..Retries
      BY <2>2, Typed DEF Fail, ExtractionState
    <3> QED BY <2>2, <3>1, Typed DEF Fail, ExtractionState
  <2> QED BY <2>1, <2>2
<1>2. /\ \A d \in Messages : d # m => message'[d] = message[d]
      /\ message[m].at \in {"queued", "write", "done"} /\ message'[m].at # "gone"
  BY Typed DEF Extract, Fail, ExtractionState
<1>3. RecordsTypeOK'
  BY <1>1 DEF Extract, Fail, RecordsTypeOK, ExtractionState
<1>4. NotSentYet'
  BY <1>2 DEF Extract, Fail, NotSentYet
<1>5. RoomsKept' => RoomsKept
  BY <1>2 DEF RoomsKept
<1> QED BY <1>3, <1>4, <1>5, RowUntouched DEF Extract, Fail, VectorInv

(* The messages after the write of message m.                              *)
LEMMA Finished ==
    ASSUME RecordsInv, NEW m \in Messages, message[m].at = "write", Finish(m), UNCHANGED sent
    PROVE  /\ message' \in [Messages -> ExtractionState]
           /\ NotSentYet'
           /\ RoomsKept' => RoomsKept
<1> USE DEF RecordsInv
<1>1. message' \in [Messages -> ExtractionState]
  BY Typed DEF Finish, ExtractionState
<1>2. /\ \A d \in Messages : d # m => message'[d] = message[d]
      /\ message'[m].at = "done"
  BY Typed DEF Finish, ExtractionState
<1> QED BY <1>1, <1>2 DEF NotSentYet, RoomsKept

(* Only an older source, or a deletion before the message, lets it write.  *)
LEMMA UpsertInv == ASSUME RecordsInv, NEW m \in Messages, Upsert(m) PROVE RecordsInv'
<1> USE DEF RecordsInv
<1>1. message' \in [Messages -> ExtractionState] /\ NotSentYet' /\ (RoomsKept' => RoomsKept)
  BY Finished DEF Upsert
<1>2. CASE ~MayUpsert(m)
  <2>1. RecordsTypeOK'
    BY <1>1, <1>2 DEF Upsert, RecordsTypeOK, ExtractionState
  <2> QED BY <1>1, <1>2, <2>1, RowUntouched DEF Upsert, VectorInv
<1>3. CASE MayUpsert(m)
  <2>1. /\ memory' = Row("ACTIVE", m, m, m, 0) /\ applied' = applied \cup {m}
        /\ UNCHANGED <<sent, card, backfill, lastDelete, mistaken>>
    BY <1>3 DEF Upsert
  <2>2. /\ memory' \in MemoryRow /\ memory'.status = "ACTIVE" /\ memory'.source = m
        /\ memory'.content = m /\ memory'.embedding = m /\ memory'.deletedAt = 0
    BY <2>1, RowTypes
  <2>3. RecordsTypeOK'
    BY <1>1, <2>1, <2>2 DEF RecordsTypeOK, MemoryRow, ExtractionState
  <2>4. lastDelete \in Nat /\ memory.source \in Nat /\ applied \subseteq Nat
    BY DEF RecordsTypeOK
  <2>5. RoomsKept => m > lastDelete /\ \A d \in applied : d <= m
    <3>1. CASE memory.status = "DELETED"
      BY <1>3, <3>1 DEF MayUpsert, DeletionInv, AppliedInv, Written
    <3>2. CASE memory.status = "none"
      BY <3>2 DEF DeletionInv, AppliedInv, Written
    <3>3. CASE Written
      BY <1>3, <2>4, <3>3 DEF MayUpsert, Older, SourceInv, Written
    <3> QED BY <3>1, <3>2, <3>3 DEF Written, RecordsTypeOK
  <2>6. SourceInv'
    BY <1>1, <2>1, <2>2, <2>5 DEF SourceInv
  <2> QED BY <1>1, <2>1, <2>2, <2>3, <2>6
    DEF AppliedInv, DeletionInv, VectorInv, EmbeddingMatches, Missing, Written
<1> QED BY <1>2, <1>3

LEMMA ArchiveInv == ASSUME RecordsInv, NEW m \in Messages, Archive(m) PROVE RecordsInv'
<1> USE DEF RecordsInv
<1>1. message' \in [Messages -> ExtractionState] /\ NotSentYet' /\ (RoomsKept' => RoomsKept)
  BY Finished DEF Archive
<1>2. CASE ~(memory.status = "ACTIVE" /\ Older(m))
  <2>1. RecordsTypeOK'
    BY <1>1, <1>2 DEF Archive, RecordsTypeOK, ExtractionState
  <2> QED BY <1>1, <1>2, <2>1, RowUntouched DEF Archive, VectorInv
<1>3. CASE memory.status = "ACTIVE" /\ Older(m)
  <2>1. /\ memory' = [memory EXCEPT !.status = "ARCHIVED", !.source = m]
        /\ applied' = applied \cup {m}
        /\ UNCHANGED <<sent, card, backfill, lastDelete, mistaken>>
    BY <1>3 DEF Archive
  <2>2. /\ memory' \in MemoryRow /\ memory'.status = "ARCHIVED" /\ memory'.source = m
        /\ memory'.content = memory.content /\ memory'.embedding = memory.embedding
        /\ memory'.deletedAt = memory.deletedAt
    <3>1. memory = [status |-> memory.status, source |-> memory.source,
                    content |-> memory.content, embedding |-> memory.embedding,
                    deletedAt |-> memory.deletedAt]
      BY Typed DEF MemoryRow
    <3>2. memory' = [status |-> "ARCHIVED", source |-> m,
                     content |-> memory.content, embedding |-> memory.embedding,
                     deletedAt |-> memory.deletedAt]
      BY <2>1, <3>1
    <3> QED BY <3>2, Typed DEF MemoryRow
  <2>3. RecordsTypeOK'
    BY <1>1, <1>3, <2>1, <2>2 DEF RecordsTypeOK, MemoryRow, ExtractionState
  <2>4. lastDelete \in Nat /\ memory.source \in Nat /\ applied \subseteq Nat
    BY DEF RecordsTypeOK
  <2>5. SourceInv'
    BY <1>1, <1>3, <2>1, <2>2, <2>4 DEF SourceInv, Older, Written
  <2> QED BY <1>1, <1>3, <2>1, <2>2, <2>3, <2>5
    DEF AppliedInv, DeletionInv, VectorInv, EmbeddingMatches, Missing, Written
<1> QED BY <1>2, <1>3

LEMMA DeleteRoomOfInv == ASSUME RecordsInv, NEW m \in Messages, DeleteRoomOf(m) PROVE RecordsInv'
<1> USE DEF RecordsInv
<1>1. message' \in [Messages -> ExtractionState]
  BY Typed DEF DeleteRoomOf, ExtractionState
<1>2. /\ \A d \in Messages : d # m => message'[d] = message[d]
      /\ message'[m].at = "gone" /\ message[m].at # "unsent"
  BY Typed DEF DeleteRoomOf, ExtractionState
<1>3. /\ memory' \in MemoryRow /\ memory'.status = memory.status
      /\ memory'.source \in {memory.source, 0}
      /\ memory'.content = memory.content /\ memory'.embedding = memory.embedding
      /\ memory'.deletedAt = memory.deletedAt
  BY Typed DEF DeleteRoomOf, MemoryRow
<1>4. RecordsTypeOK'
  BY <1>1, <1>3 DEF DeleteRoomOf, RecordsTypeOK, MemoryRow, ExtractionState
<1>5. NotSentYet'
  BY <1>2 DEF DeleteRoomOf, NotSentYet
<1>6. ~RoomsKept'
  BY <1>2 DEF RoomsKept
<1> QED BY <1>3, <1>4, <1>5, <1>6
  DEF DeleteRoomOf, AppliedInv, SourceInv, DeletionInv, VectorInv, EmbeddingMatches, Missing, Written

LEMMA CardInv == ASSUME RecordsInv, ShowCard \/ Cancel \/ Approve PROVE RecordsInv'
<1> USE DEF RecordsInv
<1>1. RecordsTypeOK'
  BY DEF ShowCard, Cancel, Approve, RecordsTypeOK
<1>2. UNCHANGED <<memory, sent, message, backfill, applied, lastDelete>>
  BY DEF ShowCard, Cancel, Approve
<1> QED BY <1>1, <1>2, RowUntouched DEF NotSentYet, RoomsKept, VectorInv

LEMMA DeleteActiveInv == ASSUME RecordsInv, DeleteActive PROVE RecordsInv'
<1> USE DEF RecordsInv
<1>1. UNCHANGED <<sent, message, backfill>>
  BY DEF DeleteActive
<1>2. CASE memory.status # "ACTIVE"
  <2>1. RecordsTypeOK'
    BY <1>1, <1>2 DEF DeleteActive, RecordsTypeOK
  <2> QED BY <1>1, <1>2, <2>1, RowUntouched DEF DeleteActive, NotSentYet, RoomsKept, VectorInv
<1>3. CASE memory.status = "ACTIVE"
  <2>1. /\ memory' = Row("DELETED", 0, 0, 0, card.time)
        /\ lastDelete' = card.time /\ applied' = {} /\ card.time \in 0..N
    BY <1>3 DEF DeleteActive, RecordsTypeOK
  <2>2. /\ memory' \in MemoryRow /\ memory'.status = "DELETED" /\ memory'.content = 0
        /\ memory'.embedding = 0 /\ memory'.deletedAt = card.time
    BY <2>1, RowTypes
  <2>3. RecordsTypeOK'
    BY <1>1, <1>3, <2>1, <2>2 DEF DeleteActive, RecordsTypeOK, MemoryRow
  <2> QED BY <1>1, <2>1, <2>2, <2>3
    DEF NotSentYet, AppliedInv, SourceInv, DeletionInv, VectorInv, EmbeddingMatches, Missing, Written
<1> QED BY <1>2, <1>3

LEMMA BackfillInv == ASSUME RecordsInv, BackfillRead \/ BackfillWrite \/ BackfillFails PROVE RecordsInv'
<1> USE DEF RecordsInv
<1>1. UNCHANGED <<sent, message, card, applied, lastDelete, mistaken>>
  BY DEF BackfillRead, BackfillWrite, BackfillFails
<1>2. backfill' \in {0, 1} /\ backfill' \in 0..N
  BY DEF BackfillRead, BackfillWrite, BackfillFails, VectorInv
<1>3. CASE BackfillWrite /\ Missing
  <2>1. /\ memory' \in MemoryRow /\ memory'.status = memory.status
        /\ memory'.source = memory.source /\ memory'.content = memory.content
        /\ memory'.embedding = backfill /\ memory'.deletedAt = memory.deletedAt
    BY <1>3, Typed DEF BackfillWrite, MemoryRow, RecordsTypeOK
  <2>2. backfill = 1 /\ memory.content = 1
    BY <1>3 DEF VectorInv, BackfillWrite
  <2>3. RecordsTypeOK'
    BY <1>1, <1>2, <2>1 DEF RecordsTypeOK, MemoryRow
  <2> QED BY <1>1, <1>2, <1>3, <2>1, <2>2, <2>3
    DEF NotSentYet, RoomsKept, AppliedInv, SourceInv, DeletionInv, VectorInv, EmbeddingMatches,
        Missing, Written
<1>4. CASE UNCHANGED memory
  <2>1. RecordsTypeOK'
    BY <1>1, <1>2, <1>4 DEF RecordsTypeOK
  <2> QED BY <1>1, <1>2, <1>4, <2>1, RowUntouched DEF NotSentYet, RoomsKept
<1> QED BY <1>3, <1>4 DEF BackfillRead, BackfillWrite, BackfillFails

LEMMA RecordsNextInv == RecordsInv /\ [RecordsNext]_recordsVars => RecordsInv'
<1> SUFFICES ASSUME RecordsInv, [RecordsNext]_recordsVars PROVE RecordsInv'
  OBVIOUS
<1>1. CASE UNCHANGED recordsVars
  BY <1>1 DEF recordsVars, RecordsInv, RecordsTypeOK, NotSentYet, RoomsKept, AppliedInv, SourceInv, DeletionInv,
              VectorInv, EmbeddingMatches, Missing, Written
<1>2. CASE RecordsNext
  BY <1>2, SendInv, ExtractionInv, UpsertInv, ArchiveInv, DeleteRoomOfInv, CardInv,
     DeleteActiveInv, BackfillInv DEF RecordsNext
<1> QED BY <1>1, <1>2

THEOREM RecordsInvHolds == RecordsSpec => []RecordsInv
BY RecordsInitInv, RecordsNextInv, PTL DEF RecordsSpec

(* Type correctness of UserMemoryRecords.                                  *)
THEOREM RecordsTypeCorrect == RecordsSpec => []RecordsTypeOK
<1>1. RecordsInv => RecordsTypeOK
  BY DEF RecordsInv
<1> QED BY <1>1, RecordsInvHolds, PTL

(* In whatever order extractions end and are retried, the row holds the    *)
(* newest message applied since its last deletion, while rooms are kept.   *)
THEOREM NewestWinsHolds == RecordsSpec => []NewestWins
<1>1. RecordsInv => NewestWins
  BY DEF RecordsInv, SourceInv, NewestWins, Written
<1> QED BY <1>1, RecordsInvHolds, PTL

(* No message from before a deletion brings the memory back, while rooms   *)
(* are kept.                                                               *)
THEOREM NotResurrectedHolds == RecordsSpec => []NotResurrected
<1>1. RecordsInv => NotResurrected
  BY DEF RecordsInv, SourceInv, NotResurrected, Written
<1> QED BY <1>1, RecordsInvHolds, PTL

(* The vector of a row is that of its content, and a deleted row has       *)
(* neither, whatever the backfill races with; rooms may be deleted.        *)
THEOREM EmbeddingMatchesHolds == RecordsSpec => []EmbeddingMatches
<1>1. RecordsInv => EmbeddingMatches
  BY DEF RecordsInv, VectorInv
<1> QED BY <1>1, RecordsInvHolds, PTL
=============================================================================
