------------------------- MODULE RagDocument_proofs -------------------------
(* Theorems about RagDocument: for any number of requests, workers,        *)
(* recoverers, attempts and faults.                                        *)
EXTENDS RagDocument, TLAPS

USE DocumentAssumption, AttemptsAssumption

RequestState  == [at : {"find", "remove", "mark", "enqueue", "fail", "delete", "deleteFile", "done"},
                  kind : Kinds]
WorkerPlaces  == {"idle", "claim", "look", "extract", "save", "fail", "return"}
WorkerState   == [at : WorkerPlaces, attempts : Nat, outcome : {"ok", "error", "fatal"}]
RecoveryState == {"idle", "list", "snapshot", "pending", "fail", "claim", "enqueue", "failPending"}

(***************************************************************************)
(* The inductive invariant.                                                *)
(***************************************************************************)
(* There is no row before its file is written, and no request before there *)
(* is a row; the file is deleted after the row, or for a refused upload.   *)
FileInv ==
    /\ upload \in {"write", "create"} => status = "none"
    /\ upload = "create" => file
    /\ \A q \in Requests : request[q].at \notin {"find", "done"} => status # "none"
    /\ \A q \in Requests : request[q].at = "deleteFile" => status = "deleted"
    /\ HasRow /\ upload \notin {"cleanup", "refused"} => file

(* A recoverer acts on a row only as it was listed before nobody had the   *)
(* job: a claim would have updated the row since.                          *)
RecoveryInv ==
    \A r \in Recoverers :
        recovery[r] \in {"pending", "fail", "claim"} /\ r \in listed =>
            \A w \in Workers : ~Extracting(w)

Inv == TypeOK /\ FileInv /\ RecoveryInv

(***************************************************************************)
(* Types of what the steps are built from.                                 *)
(***************************************************************************)
LEMMA Types ==
    ASSUME TypeOK
    PROVE  /\ request \in [Requests -> RequestState] /\ worker \in [Workers -> WorkerState]
           /\ recovery \in [Recoverers -> RecoveryState]
           /\ job \in JobOf(Workers) /\ (job.owner # None => job.state = "ACTIVE")
BY DEF TypeOK, RequestState, WorkerState, WorkerPlaces, RecoveryState

LEMMA JobSteps ==
    ASSUME NEW j \in JobOf(Workers), j.owner # None => j.state = "ACTIVE"
    PROVE  /\ Added(j) \in JobOf(Workers) /\ Added(j).owner = j.owner
           /\ Added(j).owner # None => Added(j).state = "ACTIVE"
           /\ NoJob \in JobOf(Workers) /\ NoJob.owner = None
           /\ Promoted(j) \in JobOf(Workers) /\ Promoted(j).owner = j.owner
           /\ Redelivered(j) \in JobOf(Workers) /\ Redelivered(j).owner = j.owner
           /\ \A w \in Workers :
                /\ Delivered(j, w) \in JobOf(Workers) /\ Delivered(j, w).owner = w
                /\ Delivered(j, w).state = "ACTIVE"
                /\ Abandoned(j, w) \in JobOf(Workers)
                /\ Abandoned(j, w).owner = IF j.owner = w THEN None ELSE j.owner
                /\ Abandoned(j, w).state = j.state
           /\ \A o : Ended(j, o) \in JobOf(Workers) /\ Ended(j, o).owner = None
<1>1. NoJob \in JobOf(Workers) /\ NoJob.owner = None
  BY DEF NoJob, JobOf, JobStates
<1>2. /\ Added(j) \in JobOf(Workers) /\ Added(j).owner = j.owner
      /\ Added(j).owner # None => Added(j).state = "ACTIVE"
  BY DEF Added, NoJob, JobOf, JobStates
<1>3. /\ Promoted(j) \in JobOf(Workers) /\ Promoted(j).owner = j.owner
      /\ Redelivered(j) \in JobOf(Workers) /\ Redelivered(j).owner = j.owner
  <2>1. /\ [j EXCEPT !.state = "WAITING"] \in JobOf(Workers)
        /\ [j EXCEPT !.state = "FAILED"] \in JobOf(Workers)
        /\ [j EXCEPT !.state = "WAITING"].owner = j.owner
        /\ [j EXCEPT !.state = "FAILED"].owner = j.owner
    BY DEF JobOf, JobStates
  <2>2. \A k \in JobOf(Workers) : [k EXCEPT !.stalls = 1] \in JobOf(Workers)
    BY DEF JobOf
  <2>3. [[j EXCEPT !.state = "WAITING"] EXCEPT !.stalls = 1] \in JobOf(Workers)
    BY <2>1, <2>2, Zenon
  <2>4. [j EXCEPT !.state = "WAITING", !.stalls = 1].owner = j.owner
    BY DEF JobOf
  <2> QED BY <2>1, <2>3, <2>4 DEF Promoted, Redelivered
<1>4. ASSUME NEW w \in Workers
      PROVE  /\ Delivered(j, w) \in JobOf(Workers) /\ Delivered(j, w).owner = w
             /\ Delivered(j, w).state = "ACTIVE"
             /\ Abandoned(j, w) \in JobOf(Workers)
             /\ Abandoned(j, w).owner = IF j.owner = w THEN None ELSE j.owner
             /\ Abandoned(j, w).state = j.state
  BY DEF Delivered, Abandoned, JobOf, JobStates
<1>5. ASSUME NEW o PROVE Ended(j, o) \in JobOf(Workers) /\ Ended(j, o).owner = None
  <2>1. \A k \in JobOf(Workers) : [k EXCEPT !.state = StateAfter(j, o)] \in JobOf(Workers)
    BY DEF JobOf, JobStates, StateAfter
  <2>2. \A k \in JobOf(Workers) : [k EXCEPT !.owner = None] \in JobOf(Workers)
    BY DEF JobOf
  <2>3. \A k \in JobOf(Workers) : [k EXCEPT !.attempts = j.attempts + 1] \in JobOf(Workers)
    BY DEF JobOf
  <2>4. [[[j EXCEPT !.state = StateAfter(j, o)] EXCEPT !.owner = None]
                EXCEPT !.attempts = j.attempts + 1] \in JobOf(Workers)
    BY <2>1, <2>2, <2>3, Zenon
  <2>5. Ended(j, o).owner = None
    BY DEF Ended, JobOf
  <2> QED BY <2>4, <2>5 DEF Ended
<1> QED BY <1>1, <1>2, <1>3, <1>4, <1>5

LEMMA RequestMoves ==
    ASSUME request \in [Requests -> RequestState], NEW q \in Requests,
           NEW at \in {"remove", "mark", "enqueue", "fail", "delete", "deleteFile", "done"},
           GoOn(q, at)
    PROVE  /\ request' \in [Requests -> RequestState] /\ request'[q].at = at
           /\ \A p \in Requests : p # q => request'[p] = request[p]
           /\ upload' = upload
BY DEF GoOn, RequestState

LEMMA WorkerMoves ==
    ASSUME worker \in [Workers -> WorkerState], NEW w \in Workers
    PROVE  /\ \A at \in WorkerPlaces : Go(w, at) =>
                /\ worker' \in [Workers -> WorkerState] /\ worker'[w].at = at
                /\ \A v \in Workers : v # w => worker'[v] = worker[v]
           /\ \A o \in {"ok", "error", "fatal"} : End(w, o) =>
                /\ worker' \in [Workers -> WorkerState] /\ worker'[w].at = "return"
                /\ \A v \in Workers : v # w => worker'[v] = worker[v]
           /\ \A o \in {"ok", "error", "fatal"} : Fails(w, o) =>
                /\ worker' \in [Workers -> WorkerState] /\ worker'[w].at = "fail"
                /\ \A v \in Workers : v # w => worker'[v] = worker[v]
<1>1. worker[w] \in WorkerState
  OBVIOUS
<1>2. ASSUME NEW at \in WorkerPlaces, Go(w, at)
      PROVE  /\ worker' \in [Workers -> WorkerState] /\ worker'[w].at = at
             /\ \A v \in Workers : v # w => worker'[v] = worker[v]
  BY <1>1, <1>2 DEF Go, WorkerState
<1>3. ASSUME NEW o \in {"ok", "error", "fatal"}, End(w, o)
      PROVE  /\ worker' \in [Workers -> WorkerState] /\ worker'[w].at = "return"
             /\ \A v \in Workers : v # w => worker'[v] = worker[v]
  BY <1>1, <1>3 DEF End, WorkerState, WorkerPlaces
<1>4. ASSUME NEW o \in {"ok", "error", "fatal"}, Fails(w, o)
      PROVE  /\ worker' \in [Workers -> WorkerState] /\ worker'[w].at = "fail"
             /\ \A v \in Workers : v # w => worker'[v] = worker[v]
  BY <1>1, <1>4 DEF Fails, WorkerState, WorkerPlaces
<1> QED BY <1>2, <1>3, <1>4

LEMMA RecoveryMoves ==
    ASSUME recovery \in [Recoverers -> RecoveryState], lock \in Recoverers \cup {None},
           NEW r \in Recoverers
    PROVE  /\ \A at \in RecoveryState : Step(r, at) =>
                /\ recovery' \in [Recoverers -> RecoveryState] /\ recovery'[r] = at
                /\ \A q \in Recoverers : q # r => recovery'[q] = recovery[q]
                /\ lock' = lock
           /\ Rest(r) =>
                /\ recovery' \in [Recoverers -> RecoveryState] /\ recovery'[r] = "idle"
                /\ \A q \in Recoverers : q # r => recovery'[q] = recovery[q]
                /\ lock' \in Recoverers \cup {None}
BY DEF Step, Rest, RecoveryState

LEMMA FaultType == ASSUME faults \in 0..MaxFaults, Fault PROVE faults' \in 0..MaxFaults
BY DEF Fault

(* What an update does to the row.                                         *)
RowTyped ==
    /\ status \in Statuses /\ overdue \in BOOLEAN /\ listed \subseteq Recoverers
    /\ chunks \in BOOLEAN
    /\ overdue \/ listed # {} => status = "PROCESSING"

LEMMA Updated ==
    ASSUME RowTyped, NEW s \in Statuses, Update(s)
    PROVE  RowTyped' /\ status' = s /\ listed' = {}
<1>1. overdue' = FALSE /\ chunks' = chunks /\ listed' = {} /\ status' = s
  BY DEF Update
<1>2. overdue' \in BOOLEAN /\ chunks' \in BOOLEAN
  BY <1>1, Zenon DEF RowTyped
<1> QED BY <1>1, <1>2 DEF RowTyped

LEMMA RowTypes == TypeOK => RowTyped
BY DEF TypeOK, RowTyped

LEMMA InitInv == Init => Inv
<1> SUFFICES ASSUME Init PROVE Inv
  OBVIOUS
<1>1. worker \in [Workers -> WorkerState]
  BY DEF Init, Idle, WorkerAt, WorkerState, WorkerPlaces
<1>2. job \in JobOf(Workers) /\ job.owner = None
  BY DEF Init, NoJob, JobOf, JobStates
<1>3. file \in BOOLEAN /\ overdue \in BOOLEAN /\ chunks \in BOOLEAN
  BY Zenon DEF Init
<1>4. request \in [Requests -> RequestState] /\ \A q \in Requests : request[q].at = "find"
  BY DEF Init, RequestState
<1>5. /\ status \in Statuses /\ listed \subseteq Recoverers
      /\ (overdue \/ listed # {} => status = "PROCESSING")
      /\ upload \in {"write", "create", "cleanup", "enqueue", "fail", "done", "refused"}
      /\ recovery \in [Recoverers -> RecoveryState]
      /\ lock \in Recoverers \cup {None} /\ faults \in 0..MaxFaults
  BY DEF Init, Statuses, RecoveryState
<1>6. TypeOK
  BY <1>1, <1>2, <1>3, <1>4, <1>5
  DEF TypeOK, RequestState, WorkerState, WorkerPlaces, RecoveryState
<1>7. FileInv
  BY <1>4 DEF Init, FileInv, HasRow
<1> QED BY <1>6, <1>7 DEF Init, Inv, RecoveryInv

(***************************************************************************)
(* What several steps have in common.                                      *)
(***************************************************************************)
LEMMA FileFrame ==
    ASSUME FileInv, UNCHANGED <<file, upload, request>>,
           status' = status \/ (HasRow /\ HasRow')
    PROVE  FileInv'
BY DEF FileInv, HasRow

LEMMA RecoveryFrame ==
    ASSUME RecoveryInv,
           \A r \in Recoverers :
                recovery'[r] \in {"pending", "fail", "claim"} /\ r \in listed' =>
                    recovery[r] \in {"pending", "fail", "claim"} /\ r \in listed,
           \A w \in Workers : Extracting(w)' => Extracting(w)
    PROVE  RecoveryInv'
BY DEF RecoveryInv

(* Nothing changes but the row: it is updated, if it exists.               *)
LEMMA RowFrame ==
    ASSUME Inv, NEW s \in Statuses \ {"none", "deleted"},
           UNCHANGED row \/ (HasRow /\ Update(s))
    PROVE  /\ RowTyped' /\ listed' \subseteq listed
           /\ status' = status \/ (HasRow /\ HasRow')
<1>1. RowTyped
  BY RowTypes DEF Inv
<1>2. CASE UNCHANGED row
  BY <1>1, <1>2 DEF row, RowTyped
<1>3. CASE HasRow /\ Update(s)
  BY <1>1, <1>3, Updated DEF HasRow
<1> QED BY <1>2, <1>3

LEMMA TypesMade ==
    ASSUME RowTyped', file' \in BOOLEAN, job' \in JobOf(Workers),
           job'.owner # None => job'.state = "ACTIVE",
           upload' \in {"write", "create", "cleanup", "enqueue", "fail", "done", "refused"},
           request' \in [Requests -> RequestState], worker' \in [Workers -> WorkerState],
           recovery' \in [Recoverers -> RecoveryState],
           lock' \in Recoverers \cup {None}, faults' \in 0..MaxFaults
    PROVE  TypeOK'
BY DEF RowTyped, TypeOK, RequestState, WorkerState, WorkerPlaces, RecoveryState

(***************************************************************************)
(* The steps.                                                              *)
(***************************************************************************)
LEMMA UploadInv ==
    ASSUME Inv, UploadStep \/ CreateFails \/ EnqueueUploadFails \/ UploadStops
    PROVE  Inv'
<1> USE DEF UploadStep
<1>1. TypeOK /\ RowTyped /\ FileInv /\ UNCHANGED <<request, worker, recovery, lock>>
  BY RowTypes DEF Inv, WriteFile, CreateRow, DeleteUpload, EnqueueUpload, FailUpload, CreateFails,
                  EnqueueUploadFails, UploadStops
<1>2. /\ job' \in JobOf(Workers) /\ job'.owner = job.owner
      /\ job'.owner # None => job'.state = "ACTIVE"
  <2>1. job \in JobOf(Workers) /\ (job.owner # None => job.state = "ACTIVE")
    BY <1>1, Types
  <2>2. \/ job' = job \/ job' = Added(job)
    BY DEF WriteFile, CreateRow, DeleteUpload, EnqueueUpload, FailUpload, CreateFails,
           EnqueueUploadFails, UploadStops
  <2> QED BY <2>1, <2>2, JobSteps
<1>3. file' \in BOOLEAN
  <2>1. file \in BOOLEAN
    BY <1>1 DEF TypeOK
  <2> QED BY <2>1, Zenon DEF WriteFile, CreateRow, DeleteUpload, EnqueueUpload, FailUpload,
                             CreateFails, EnqueueUploadFails, UploadStops
<1>4. /\ faults' \in 0..MaxFaults
      /\ upload' \in {"write", "create", "cleanup", "enqueue", "fail", "done", "refused"}
  BY <1>1, FaultType DEF WriteFile, CreateRow, DeleteUpload, EnqueueUpload, FailUpload, CreateFails,
                         EnqueueUploadFails, UploadStops, TypeOK
<1>5. /\ RowTyped' /\ listed' \subseteq listed
      /\ \/ status' = status
         \/ upload = "create" /\ status' = "PENDING"
         \/ upload = "fail" /\ HasRow /\ status' = "FAILED"
  <2>1. CASE UNCHANGED row
    BY <1>1, <2>1 DEF row, RowTyped
  <2>2. CASE upload = "create" /\ Update("PENDING")
    BY <1>1, <2>2, Updated DEF Statuses
  <2>3. CASE upload = "fail" /\ HasRow /\ Update("FAILED")
    BY <1>1, <2>3, Updated DEF Statuses
  <2> QED BY <2>1, <2>2, <2>3
          DEF WriteFile, CreateRow, DeleteUpload, EnqueueUpload, FailUpload, CreateFails,
              EnqueueUploadFails, UploadStops, UpdateIf
<1>6. TypeOK'
  BY <1>1, <1>2, <1>3, <1>4, <1>5, Types, TypesMade DEF TypeOK
<1>7. FileInv'
  <2>1. CASE WriteFile
    BY <1>1, <2>1 DEF WriteFile, FileInv, HasRow, row
  <2>2. CASE CreateRow \/ CreateFails
    BY <1>1, <1>5, <2>2 DEF CreateRow, CreateFails, FileInv, HasRow
  <2>3. CASE DeleteUpload
    BY <1>1, <2>3 DEF DeleteUpload, FileInv, HasRow, row
  <2>4. CASE EnqueueUpload \/ EnqueueUploadFails \/ UploadStops
    BY <1>1, <2>4 DEF EnqueueUpload, EnqueueUploadFails, UploadStops, FileInv, HasRow, row
  <2>5. CASE FailUpload
    BY <1>1, <1>5, <2>5 DEF FailUpload, FileInv, HasRow
  <2> QED BY <2>1, <2>2, <2>3, <2>4, <2>5
<1>8. RecoveryInv'
  BY <1>1, <1>2, <1>5, RecoveryFrame DEF Inv, Extracting
<1> QED BY <1>6, <1>7, <1>8 DEF Inv

LEMMA RequestInv ==
    ASSUME Inv, NEW q \in Requests, Find(q) \/ RequestStep(q) \/ EnqueueFails(q) \/ RequestStops(q)
    PROVE  Inv'
<1> USE DEF RequestStep
<1>1. /\ TypeOK /\ RowTyped /\ FileInv /\ UNCHANGED <<worker, recovery, lock>>
      /\ request \in [Requests -> RequestState]
  BY RowTypes, Types DEF Inv, Find, RemoveJob, MarkPending, Enqueue, FailReprocess, DeleteRow,
                         DeleteFile, EnqueueFails, RequestStops
<1>2. PICK at \in {"remove", "mark", "enqueue", "fail", "delete", "deleteFile", "done"} :
            /\ GoOn(q, at)
            /\ at # "done" => status' # "none"
            /\ at = "deleteFile" => status' = "deleted"
  BY <1>1 DEF Find, RemoveJob, MarkPending, Enqueue, FailReprocess, DeleteRow, DeleteFile,
              EnqueueFails, RequestStops, HasRow, FileInv, row, UpdateIf, Update
<1>3. /\ request' \in [Requests -> RequestState] /\ request'[q].at = at
      /\ \A p \in Requests : p # q => request'[p] = request[p]
      /\ upload' = upload
  BY <1>1, <1>2, RequestMoves
<1>4. /\ job' \in JobOf(Workers) /\ (job'.owner # None => job'.state = "ACTIVE")
      /\ job'.owner = job.owner
  <2>1. job \in JobOf(Workers) /\ (job.owner # None => job.state = "ACTIVE")
    BY <1>1, Types
  <2>2. job' = job \/ job' = Added(job) \/ (job.owner = None /\ job' = NoJob)
    BY DEF Find, RemoveJob, MarkPending, Enqueue, FailReprocess, DeleteRow, DeleteFile,
           EnqueueFails, RequestStops
  <2> QED BY <2>1, <2>2, JobSteps
<1>5. file' \in BOOLEAN
  <2>1. file \in BOOLEAN
    BY <1>1 DEF TypeOK
  <2> QED BY <2>1, Zenon DEF Find, RemoveJob, MarkPending, Enqueue, FailReprocess, DeleteRow,
                             DeleteFile, EnqueueFails, RequestStops
<1>6. faults' \in 0..MaxFaults
  BY <1>1, FaultType DEF Find, RemoveJob, MarkPending, Enqueue, FailReprocess, DeleteRow,
                         DeleteFile, EnqueueFails, RequestStops, TypeOK
<1>7. /\ RowTyped' /\ listed' \subseteq listed
      /\ status' = status \/ (HasRow /\ status' # "none")
  <2>1. CASE UNCHANGED row
    BY <1>1, <2>1 DEF row, RowTyped
  <2>2. CASE HasRow /\ Update("PENDING")
    BY <1>1, <2>2, Updated DEF Statuses
  <2>3. CASE status = "PENDING" /\ Update("FAILED")
    BY <1>1, <2>3, Updated DEF Statuses, HasRow
  <2>4. CASE /\ HasRow /\ status' = "deleted"
             /\ overdue' = FALSE /\ listed' = {} /\ chunks' = FALSE
    <3>1. overdue' \in BOOLEAN /\ chunks' \in BOOLEAN
      BY <2>4, Zenon
    <3> QED BY <2>4, <3>1 DEF RowTyped, Statuses
  <2> QED BY <2>1, <2>2, <2>3, <2>4
          DEF Find, RemoveJob, MarkPending, Enqueue, FailReprocess, DeleteRow, DeleteFile,
              EnqueueFails, RequestStops, UpdateIf
<1>8. TypeOK'
  BY <1>1, <1>3, <1>4, <1>5, <1>6, <1>7, Types, TypesMade DEF TypeOK
<1>9. FileInv'
  <2>1. file' = file \/ status = "deleted"
    BY <1>1 DEF Find, RemoveJob, MarkPending, Enqueue, FailReprocess, DeleteRow, DeleteFile,
                EnqueueFails, RequestStops, FileInv
  <2>2. HasRow' => HasRow
    BY <1>7 DEF HasRow
  <2>3. status = "deleted" => status' = "deleted"
    BY <1>7 DEF HasRow
  <2>4. status' # "none" => status # "none"
    BY <1>7 DEF HasRow
  <2>5. upload \in {"write", "create"} => status' = "none"
    BY <1>1, <1>7 DEF FileInv, HasRow
  <2>6. \A p \in Requests : request'[p].at \notin {"find", "done"} => status' # "none"
    BY <1>1, <1>2, <1>3, <1>7 DEF FileInv, HasRow
  <2>7. \A p \in Requests : request'[p].at = "deleteFile" => status' = "deleted"
    BY <1>1, <1>2, <1>3, <2>3 DEF FileInv
  <2>8. upload' = "create" => file'
    BY <1>1, <1>3, <2>1 DEF FileInv
  <2>9. HasRow' /\ upload' \notin {"cleanup", "refused"} => file'
    BY <1>1, <1>3, <2>1, <2>2 DEF FileInv, HasRow
  <2> QED BY <1>3, <2>5, <2>6, <2>7, <2>8, <2>9 DEF FileInv
<1>10. RecoveryInv'
  BY <1>1, <1>4, <1>7, RecoveryFrame DEF Inv, Extracting
<1> QED BY <1>8, <1>9, <1>10 DEF Inv

LEMMA QueueInv ==
    ASSUME Inv, QueueStep \/ LoseJob \/ LoseLock \/ FiveMinutes \/ LockExpires
    PROVE  Inv'
<1>1. /\ TypeOK /\ RowTyped
      /\ UNCHANGED <<file, status, listed, chunks, upload, request, worker, recovery>>
  BY RowTypes DEF Inv, QueueStep, LoseJob, LoseLock, FiveMinutes, LockExpires, row, users
<1>2. job \in JobOf(Workers) /\ (job.owner # None => job.state = "ACTIVE")
  BY <1>1, Types
<1>3. /\ job' \in JobOf(Workers) /\ (job'.owner # None => job'.state = "ACTIVE")
      /\ job'.owner = job.owner \/ job'.owner = None
  <2>1. CASE QueueStep
    BY <1>2, <2>1, JobSteps DEF QueueStep
  <2>2. CASE LoseLock
    BY <1>2, <2>2, JobSteps DEF LoseLock, JobOf
  <2>3. CASE LoseJob \/ FiveMinutes \/ LockExpires
    BY <1>2, <2>3, JobSteps DEF LoseJob, FiveMinutes, LockExpires
  <2> QED BY <2>1, <2>2, <2>3
<1>4. RowTyped'
  <2>1. overdue' \in BOOLEAN
    <3>1. overdue \in BOOLEAN
      BY <1>1 DEF RowTyped
    <3> QED BY <3>1, Zenon DEF QueueStep, LoseJob, LoseLock, FiveMinutes, LockExpires, row
  <2> QED BY <1>1, <2>1 DEF QueueStep, LoseJob, LoseLock, FiveMinutes, LockExpires, row, RowTyped
<1>5. faults' \in 0..MaxFaults /\ lock' \in Recoverers \cup {None}
  BY <1>1, FaultType DEF QueueStep, LoseJob, LoseLock, FiveMinutes, LockExpires, TypeOK
<1>6. TypeOK'
  BY <1>1, <1>3, <1>4, <1>5, Types, TypesMade DEF TypeOK
<1>7. FileInv' /\ RecoveryInv'
  BY <1>1, <1>3, FileFrame, RecoveryFrame DEF Inv, Extracting
<1> QED BY <1>6, <1>7 DEF Inv

(* A worker's step that leaves the job alone.                              *)
LEMMA WorkerRowInv ==
    ASSUME Inv, NEW w \in Workers,
           \/ Claim(w) \/ LookAtStatus(w) \/ Extract(w) \/ Save(w) \/ SaveUnheard(w)
           \/ MarkFailed(w) \/ DatabaseFails(w)
    PROVE  Inv'
<1>1. /\ TypeOK /\ RowTyped /\ worker \in [Workers -> WorkerState]
      /\ UNCHANGED <<file, job, upload, request, recovery, lock>>
  BY RowTypes, Types DEF Inv, Claim, LookAtStatus, Extract, Save, SaveUnheard, MarkFailed,
                         DatabaseFails, users
<1>2. /\ worker' \in [Workers -> WorkerState]
      /\ \A v \in Workers : v # w => worker'[v] = worker[v]
      /\ \/ worker'[w].at \notin {"extract", "save"} \/ worker[w].at \in {"extract", "save"}
         \/ worker[w].at = "claim" /\ HasRow /\ Update("PROCESSING")
  <2>1. CASE Claim(w)
    BY <1>1, <2>1, WorkerMoves DEF Claim, UpdateIf, HasRow, WorkerPlaces
  <2>2. CASE LookAtStatus(w)
    BY <1>1, <2>2, WorkerMoves DEF LookAtStatus
  <2>3. CASE Extract(w)
    BY <1>1, <2>3, WorkerMoves DEF Extract, WorkerPlaces
  <2>4. CASE Save(w)
    BY <1>1, <2>4, WorkerMoves DEF Save
  <2>5. CASE SaveUnheard(w)
    BY <1>1, <2>5, WorkerMoves DEF SaveUnheard
  <2>6. CASE MarkFailed(w)
    BY <1>1, <2>6, WorkerMoves DEF MarkFailed, WorkerPlaces
  <2>7. CASE DatabaseFails(w)
    BY <1>1, <2>7, WorkerMoves DEF DatabaseFails, WorkerPlaces
  <2> QED BY <2>1, <2>2, <2>3, <2>4, <2>5, <2>6, <2>7
<1>3. RowTyped' /\ listed' \subseteq listed /\ (status' = status \/ (HasRow /\ HasRow'))
  <2>1. ASSUME NEW s \in {"PENDING", "PROCESSING", "FAILED"}, HasRow, Update(s)
        PROVE  RowTyped' /\ listed' \subseteq listed /\ HasRow /\ HasRow'
    BY <1>1, <2>1, Updated DEF Statuses, HasRow
  <2>2. CASE UNCHANGED row
    BY <1>1, <2>2 DEF row, RowTyped
  <2>3. CASE status = "PROCESSING" /\ Store
    <3>1. overdue' \in BOOLEAN /\ chunks' \in BOOLEAN
      BY <2>3, Zenon DEF Store
    <3> QED BY <2>3, <3>1 DEF Store, RowTyped, Statuses, HasRow
  <2>4. CASE Claim(w) \/ MarkFailed(w)
    BY <2>1, <2>2, <2>4 DEF Claim, MarkFailed, UpdateIf, HasRow, StatusAfter
  <2> QED BY <2>2, <2>3, <2>4 DEF LookAtStatus, Extract, Save, SaveUnheard, DatabaseFails
<1>4. faults' \in 0..MaxFaults
  BY <1>1, FaultType DEF Claim, LookAtStatus, Extract, Save, SaveUnheard, MarkFailed,
                         DatabaseFails, TypeOK
<1>5. TypeOK'
  BY <1>1, <1>2, <1>3, <1>4, Types, TypesMade DEF TypeOK
<1>6. FileInv'
  BY <1>1, <1>3, FileFrame DEF Inv
<1>7. RecoveryInv'
  <2>1. CASE Update("PROCESSING")
    BY <2>1 DEF Update, RecoveryInv
  <2>2. CASE ~Update("PROCESSING")
    BY <1>1, <1>2, <1>3, <2>2, RecoveryFrame DEF Inv, Extracting
  <2> QED BY <2>1, <2>2
<1> QED BY <1>5, <1>6, <1>7 DEF Inv

LEMMA WorkerJobInv ==
    ASSUME Inv, NEW w \in Workers, Take(w) \/ Return(w) \/ Crash(w)
    PROVE  Inv'
<1>1. /\ TypeOK /\ RowTyped /\ worker \in [Workers -> WorkerState]
      /\ UNCHANGED <<file, row, upload, request, recovery, lock>>
  BY RowTypes, Types DEF Inv, Take, Return, Crash, users
<1>2. job \in JobOf(Workers) /\ (job.owner # None => job.state = "ACTIVE")
  BY <1>1, Types
<1>3. /\ job' \in JobOf(Workers) /\ (job'.owner # None => job'.state = "ACTIVE")
      /\ job'.owner \in {job.owner, None, w}
  BY <1>2, JobSteps DEF Take, Return, Crash
<1>4. Idle \in WorkerState /\ WorkerAt("claim", job.attempts) \in WorkerState
  BY <1>2 DEF Idle, WorkerAt, WorkerState, WorkerPlaces, JobOf
<1>5. /\ worker' \in [Workers -> WorkerState] /\ worker'[w].at \in {"idle", "claim"}
      /\ \A v \in Workers : v # w => worker'[v] = worker[v]
  <2>1. Idle.at = "idle" /\ WorkerAt("claim", job.attempts).at = "claim"
    BY DEF Idle, WorkerAt
  <2> QED BY <1>1, <1>4, <2>1 DEF Take, Return, Crash, Put
<1>6. RowTyped'
  BY <1>1 DEF RowTyped, row
<1>7. faults' \in 0..MaxFaults
  BY <1>1, FaultType DEF Take, Return, Crash, TypeOK
<1>8. TypeOK'
  BY <1>1, <1>3, <1>5, <1>6, <1>7, Types, TypesMade DEF TypeOK
<1>9. \A v \in Workers : Extracting(v)' => Extracting(v)
  BY <1>2, <1>3, <1>5 DEF Extracting
<1>10. FileInv' /\ RecoveryInv'
  BY <1>1, <1>9, FileFrame, RecoveryFrame DEF Inv, row
<1> QED BY <1>8, <1>10 DEF Inv

(* What a recoverer does to the row.                                       *)
LEMMA RecoverRow ==
    ASSUME Inv, NEW r \in Recoverers,
           RecoveryStep(r) \/ RequeueFails(r) \/ RecoveryFails(r)
    PROVE  /\ RowTyped' /\ (status' = status \/ (HasRow /\ HasRow'))
           /\ listed' \subseteq listed \cup {r}
<1> USE DEF RecoveryStep
<1>1. RowTyped
  BY RowTypes DEF Inv
<1>2. CASE List(r)
  BY <1>1, <1>2 DEF List, RowTyped
<1>3. CASE UNCHANGED row
  BY <1>1, <1>3 DEF RowTyped, row
<1>4. ASSUME NEW s \in {"PENDING", "FAILED"}, HasRow, Update(s)
      PROVE  RowTyped' /\ HasRow /\ HasRow' /\ listed' = {}
  BY <1>1, <1>4, Updated DEF Statuses, HasRow
<1>5. CASE Settle(r) \/ ClaimOrphan(r) \/ FailOrphan(r)
  BY <1>3, <1>4, <1>5 DEF Settle, ClaimOrphan, FailOrphan, UpdateIf, HasRow, AsListed
<1> QED BY <1>2, <1>3, <1>5 DEF Acquire, Snapshot, Requeue, RequeueFails, RecoveryFails

LEMMA RecoverInv ==
    ASSUME Inv, NEW r \in Recoverers,
           RecoveryStep(r) \/ RequeueFails(r) \/ RecoveryFails(r)
    PROVE  Inv'
<1>1. /\ TypeOK /\ recovery \in [Recoverers -> RecoveryState] /\ lock \in Recoverers \cup {None}
      /\ UNCHANGED <<file, upload, request, worker>>
  BY Types DEF Inv, TypeOK, RecoveryStep, Acquire, List, Snapshot, Settle, ClaimOrphan, Requeue,
               FailOrphan, RequeueFails, RecoveryFails, users
<1>2. /\ job' \in JobOf(Workers) /\ (job'.owner # None => job'.state = "ACTIVE")
      /\ job'.owner = job.owner
  <2>1. job \in JobOf(Workers) /\ (job.owner # None => job.state = "ACTIVE")
    BY <1>1, Types
  <2>2. job' = job \/ job' = Added(job)
    BY DEF RecoveryStep, Acquire, List, Snapshot, Settle, ClaimOrphan, Requeue, FailOrphan,
           RequeueFails, RecoveryFails
  <2> QED BY <2>1, <2>2, JobSteps
<1>3. /\ recovery' \in [Recoverers -> RecoveryState] /\ lock' \in Recoverers \cup {None}
      /\ \A q \in Recoverers : q # r => recovery'[q] = recovery[q]
      /\ \/ recovery'[r] \notin {"pending", "fail", "claim"}
         \/ recovery[r] = "snapshot" /\ job.state # "ACTIVE" /\ UNCHANGED row
  <2>1. CASE Acquire(r)
    BY <1>1, <2>1 DEF Acquire, RecoveryState
  <2>2. CASE List(r)
    BY <1>1, <2>2, RecoveryMoves DEF List, RecoveryState
  <2>3. CASE Snapshot(r)
    BY <1>1, <2>3, RecoveryMoves, Types DEF Snapshot, RecoveryState, JobOf, JobStates
  <2>4. CASE Settle(r) \/ Requeue(r) \/ FailOrphan(r)
    BY <1>1, <2>4, RecoveryMoves DEF Settle, Requeue, FailOrphan
  <2>5. CASE ClaimOrphan(r)
    BY <1>1, <2>5, RecoveryMoves DEF ClaimOrphan, RecoveryState
  <2>6. CASE RequeueFails(r)
    BY <1>1, <2>6, RecoveryMoves DEF RequeueFails, RecoveryState
  <2>7. CASE RecoveryFails(r)
    BY <1>1, <2>7, RecoveryMoves DEF RecoveryFails, RecoveryState
  <2> QED BY <2>1, <2>2, <2>3, <2>4, <2>5, <2>6, <2>7 DEF RecoveryStep
<1>4. faults' \in 0..MaxFaults
  BY <1>1, FaultType DEF TypeOK, RecoveryStep, Acquire, List, Snapshot, Settle, ClaimOrphan,
                         Requeue, FailOrphan, RequeueFails, RecoveryFails
<1>5. TypeOK'
  BY <1>1, <1>2, <1>3, <1>4, RecoverRow, Types, TypesMade DEF TypeOK
<1>6. FileInv'
  BY <1>1, RecoverRow, FileFrame DEF Inv
<1>7. \A w \in Workers : Extracting(w)' => Extracting(w)
  BY <1>1, <1>2 DEF Extracting
<1>8. RecoveryInv'
  <2>1. CASE recovery'[r] \in {"pending", "fail", "claim"}
    <3>1. \A w \in Workers : ~Extracting(w)'
      BY <1>1, <1>3, <1>7, <2>1, Types DEF Extracting
    <3> QED BY <3>1 DEF RecoveryInv
  <2>2. CASE recovery'[r] \notin {"pending", "fail", "claim"}
    BY <1>3, <1>7, <2>2, RecoverRow, RecoveryFrame DEF Inv
  <2> QED BY <2>1, <2>2
<1> QED BY <1>5, <1>6, <1>8 DEF Inv

LEMMA NextInv == Inv /\ [Next]_vars => Inv'
<1> SUFFICES ASSUME Inv, [Next]_vars PROVE Inv'
  OBVIOUS
<1>1. CASE UNCHANGED vars
  <2>1. TypeOK'
    BY <1>1 DEF vars, row, users, Inv, TypeOK
  <2>2. FileInv' /\ RecoveryInv'
    BY <1>1, FileFrame, RecoveryFrame DEF vars, row, users, Inv, Extracting
  <2> QED BY <2>1, <2>2 DEF Inv
<1>2. CASE Next
  BY <1>2, UploadInv, RequestInv, QueueInv, WorkerRowInv, WorkerJobInv, RecoverInv
  DEF Next, WorkerStep
<1> QED BY <1>1, <1>2

THEOREM InvHolds == Spec => []Inv
BY InitInv, NextInv, PTL DEF Spec

(* Type correctness of RagDocument; only a job in ACTIVE has an owner.     *)
THEOREM TypeCorrect == Spec => []TypeOK
<1>1. Inv => TypeOK
  BY DEF Inv
<1> QED BY <1>1, InvHolds, PTL

(* The file of a document that was not refused is there as long as it is.  *)
THEOREM FileKeptHolds == Spec => []FileKept
<1>1. Inv => FileKept
  BY DEF Inv, FileInv, FileKept, HasRow
<1> QED BY <1>1, InvHolds, PTL

(* Only the user's own requests make a READY document unsearchable.        *)
THEOREM ReadyStaysHolds == Spec => ReadyStays
<1> DEFINE Stays == status = "READY" /\ status' # "READY" => UserActs
<1>1. Inv /\ [Next]_vars => [Stays]_vars
  <2> SUFFICES ASSUME Inv, Next, status = "READY", status' # "READY" PROVE UserActs
    BY DEF vars
  <2> USE DEF row, Update, UpdateIf, HasRow
  <2>1. CASE UploadStep \/ CreateFails \/ EnqueueUploadFails \/ UploadStops
    BY <2>1 DEF Inv, FileInv, UploadStep, WriteFile, CreateRow, DeleteUpload, EnqueueUpload,
                FailUpload, CreateFails, EnqueueUploadFails, UploadStops, UserActs
  <2>2. CASE QueueStep \/ LoseJob \/ LoseLock \/ FiveMinutes \/ LockExpires
    BY <2>2 DEF QueueStep, LoseJob, LoseLock, FiveMinutes, LockExpires
  <2>3. ASSUME NEW q \in Requests,
               Find(q) \/ RequestStep(q) \/ EnqueueFails(q) \/ RequestStops(q)
        PROVE  UserActs
    <3>1. request \in [Requests -> RequestState]
      BY Types DEF Inv
    <3>2. CASE MarkPending(q)
      <4>1. GoOn(q, "enqueue")
        BY <3>2 DEF MarkPending
      <4> QED BY <3>1, <3>2, <4>1, RequestMoves DEF MarkPending, UserActs
    <3>3. CASE DeleteRow(q)
      <4>1. GoOn(q, "deleteFile")
        BY <3>3 DEF DeleteRow
      <4> QED BY <3>1, <3>3, <4>1, RequestMoves DEF DeleteRow, UserActs
    <3> QED BY <2>3, <3>2, <3>3 DEF Find, RequestStep, RemoveJob, Enqueue, FailReprocess,
                                    DeleteFile, EnqueueFails, RequestStops
  <2>4. ASSUME NEW w \in Workers, WorkerStep(w) \/ SaveUnheard(w) \/ DatabaseFails(w) \/ Crash(w)
        PROVE  FALSE
    BY <2>4 DEF WorkerStep, Take, Claim, LookAtStatus, Extract, Save, MarkFailed, Return,
                SaveUnheard, DatabaseFails, Crash
  <2>5. ASSUME NEW r \in Recoverers, RecoveryStep(r) \/ RequeueFails(r) \/ RecoveryFails(r)
        PROVE  FALSE
    BY <2>5 DEF RecoveryStep, Acquire, List, Snapshot, Settle, ClaimOrphan, Requeue, FailOrphan,
                RequeueFails, RecoveryFails, AsListed
  <2> QED BY <2>1, <2>2, <2>3, <2>4, <2>5 DEF Next
<1> QED BY <1>1, InvHolds, PTL DEF Spec, ReadyStays

(* No recovery takes a document from a worker that has its job.            *)
THEOREM ClaimKeptHolds == Spec => ClaimKept
<1> DEFINE Kept == status = "PROCESSING" /\ status' # "PROCESSING"
                        /\ (\E w \in Workers : Extracting(w)) => UserActs \/ worker' # worker
<1>1. Inv /\ [Next]_vars => [Kept]_vars
  <2> SUFFICES ASSUME Inv, Next, status = "PROCESSING", status' # "PROCESSING",
                      NEW w \in Workers, Extracting(w), UNCHANGED worker
               PROVE  UserActs
    BY DEF vars
  <2> USE DEF row, Update, UpdateIf, HasRow
  <2>1. CASE UploadStep \/ CreateFails \/ EnqueueUploadFails \/ UploadStops
    BY <2>1 DEF Inv, FileInv, UploadStep, WriteFile, CreateRow, DeleteUpload, EnqueueUpload,
                FailUpload, CreateFails, EnqueueUploadFails, UploadStops, UserActs
  <2>2. CASE QueueStep \/ LoseJob \/ LoseLock \/ FiveMinutes \/ LockExpires
    BY <2>2 DEF QueueStep, LoseJob, LoseLock, FiveMinutes, LockExpires
  <2>3. ASSUME NEW q \in Requests,
               Find(q) \/ RequestStep(q) \/ EnqueueFails(q) \/ RequestStops(q)
        PROVE  UserActs
    <3>1. request \in [Requests -> RequestState]
      BY Types DEF Inv
    <3>2. CASE MarkPending(q)
      <4>1. GoOn(q, "enqueue")
        BY <3>2 DEF MarkPending
      <4> QED BY <3>1, <3>2, <4>1, RequestMoves DEF MarkPending, UserActs
    <3>3. CASE DeleteRow(q)
      <4>1. GoOn(q, "deleteFile")
        BY <3>3 DEF DeleteRow
      <4> QED BY <3>1, <3>3, <4>1, RequestMoves DEF DeleteRow, UserActs
    <3> QED BY <2>3, <3>2, <3>3 DEF Find, RequestStep, RemoveJob, Enqueue, FailReprocess,
                                    DeleteFile, EnqueueFails, RequestStops
  <2>4. ASSUME NEW v \in Workers, WorkerStep(v) \/ SaveUnheard(v) \/ DatabaseFails(v) \/ Crash(v)
        PROVE  FALSE
    <3>1. worker \in [Workers -> WorkerState]
      BY Types DEF Inv
    <3>2. CASE Save(v) \/ SaveUnheard(v)
      BY <3>1, <3>2, WorkerMoves DEF Save, SaveUnheard
    <3>3. CASE MarkFailed(v)
      BY <3>1, <3>3, WorkerMoves DEF MarkFailed, WorkerPlaces
    <3> QED BY <2>4, <3>2, <3>3 DEF WorkerStep, Take, Claim, LookAtStatus, Extract, Return,
                                    DatabaseFails, Crash
  <2>5. ASSUME NEW r \in Recoverers, RecoveryStep(r) \/ RequeueFails(r) \/ RecoveryFails(r)
        PROVE  FALSE
    <3>1. recovery[r] \in {"pending", "fail", "claim"} => r \notin listed
      BY DEF Inv, RecoveryInv
    <3> QED BY <2>5, <3>1 DEF RecoveryStep, Acquire, List, Snapshot, Settle, ClaimOrphan, Requeue,
                              FailOrphan, RequeueFails, RecoveryFails, AsListed
  <2> QED BY <2>1, <2>2, <2>3, <2>4, <2>5 DEF Next
<1> QED BY <1>1, InvHolds, PTL DEF Spec, ClaimKept
=============================================================================
