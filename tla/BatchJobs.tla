----------------------------- MODULE BatchJobs -----------------------------
(***************************************************************************)
(* The life of a batch job: the API handlers that submit and cancel it     *)
(* (api/routers/batch.py), the row they and the worker write in the        *)
(* batch_jobs table, the Celery worker that runs it (worker/tasks.py), and *)
(* the broker and result backend between them (Celery on Redis, external). *)
(*                                                                         *)
(* What status a client is shown depends on two stores that are written    *)
(* separately, the row in Postgres and the result in Redis.  The module    *)
(* keeps every write to either of them a step of its own.                  *)
(***************************************************************************)
EXTENDS Naturals

CONSTANTS
  Jobs,        \* job ids: one submission each
  Workers,     \* Celery worker processes, one task at a time each
  Items,       \* images in a job
  MaxRetries,  \* max_retries of process_batch (3 in the code)
  None,        \* no job
  Faults,      \* which events of FaultKinds may happen in this instance
  MaxFaults    \* bound on how many faults happen in a behaviour

FaultKinds ==
  { "broker",     \* send_task raises, with or without the message queued
    "apicrash",   \* the API process dies inside the submit handler
    "crash",      \* a worker process dies
    "escape",     \* an exception leaves process_batch
    "softlimit",  \* SoftTimeLimitExceeded is raised in the item being run
    "hardlimit",  \* the hard time limit kills the worker process
    "outage",     \* Postgres becomes unreachable
    "expire",     \* Redis drops a result 24 h after it was stored
    "cancel" }    \* a caller cancels the job

ASSUME ConstantsAssumption ==
  /\ Items \in Nat \ {0}
  /\ MaxRetries \in Nat
  /\ MaxFaults \in Nat
  /\ None \notin Jobs
  /\ Faults \subseteq FaultKinds

VARIABLES
  submit,     \* where the submit handler of a job is
  cancel,     \* where the cancel handler of a job is
  row,        \* the job's row of batch_jobs
  result,     \* the job's entry in the Celery result backend
  ready,      \* messages in the broker's queue, not delivered to a worker
  control,    \* revoke broadcasts not yet received, <<worker, job>>
  pc,         \* where process_batch is, per worker
  job,        \* the job a worker holds a message of
  attempt,    \* the retry count of that message
  completed,  \* items completed so far, per worker
  failed,     \* items failed so far, per worker
  revoked,    \* job ids a worker remembers as revoked, in memory
  posted,     \* what the callback of a job was last told
  dbUp,       \* whether Postgres answers
  available,  \* DatabaseService._available in the API
  faults,     \* faults so far (bounds the behaviours)
  struck      \* history: the kinds of fault and event that have happened

apiVars    == <<submit, cancel, available>>
brokerVars == <<ready, control>>
workerVars == <<pc, job, attempt, completed, failed, revoked>>
history    == <<faults, struck>>
envVars    == <<dbUp, history>>
vars == <<apiVars, row, result, brokerVars, workerVars, posted, envVars>>

RowStatus    == {"none", "pending", "running", "completed", "failed", "cancelled"}
ResultState  == {"PENDING", "STARTED", "PROGRESS", "RETRY", "SUCCESS", "FAILURE",
                 "REVOKED", "EXPIRED"}
SubmitState  == {"idle", "enqueue", "refusing", "accepted", "refused", "crashed"}
CancelState  == {"idle", "found", "missing", "revoking", "recording",
                 "cancelled", "finished", "not_found"}
WorkerState  == {"idle", "started", "item", "progress", "record", "callback",
                 "return", "ack"}
Counts       == 0 .. Items
Message      == [job : Jobs, attempt : 0 .. MaxRetries]

(* A result nothing will replace unless a copy of the message runs again. *)
(* EXPIRED is an entry Redis has dropped; Celery reports it as PENDING.   *)
Settled == {"SUCCESS", "FAILURE", "REVOKED", "EXPIRED"}

TypeOK ==
  /\ submit \in [Jobs -> SubmitState]
  /\ cancel \in [Jobs -> CancelState]
  /\ row \in [Jobs -> [status : RowStatus, completed : Counts, failed : Counts]]
  /\ result \in [Jobs -> [state : ResultState, completed : Counts, failed : Counts]]
  /\ ready \subseteq Message
  /\ control \subseteq Workers \X Jobs
  /\ pc \in [Workers -> WorkerState]
  /\ job \in [Workers -> Jobs \cup {None}]
  /\ attempt \in [Workers -> 0 .. MaxRetries]
  /\ completed \in [Workers -> Counts]
  /\ failed \in [Workers -> Counts]
  /\ revoked \in [Workers -> SUBSET Jobs]
  /\ posted \in [Jobs -> {"no", "completed", "failed"}]
  /\ dbUp \in BOOLEAN
  /\ available \in BOOLEAN
  /\ faults \in 0 .. MaxFaults
  /\ struck \subseteq FaultKinds

Init ==
  /\ submit = [j \in Jobs |-> "idle"]
  /\ cancel = [j \in Jobs |-> "idle"]
  /\ row = [j \in Jobs |-> [status |-> "none", completed |-> 0, failed |-> 0]]
  /\ result = [j \in Jobs |-> [state |-> "PENDING", completed |-> 0, failed |-> 0]]
  /\ ready = {}
  /\ control = {}
  /\ pc = [w \in Workers |-> "idle"]
  /\ job = [w \in Workers |-> None]
  /\ attempt = [w \in Workers |-> 0]
  /\ completed = [w \in Workers |-> 0]
  /\ failed = [w \in Workers |-> 0]
  /\ revoked = [w \in Workers |-> {}]
  /\ posted = [j \in Jobs |-> "no"]
  /\ dbUp \in (IF "outage" \in Faults THEN BOOLEAN ELSE {TRUE})
  /\ available = dbUp
  /\ faults = 0
  /\ struck = IF dbUp THEN {} ELSE {"outage"}

-----------------------------------------------------------------------------
(* The two stores *)

Struck(kind) == struck' = struck \cup {kind}

Fault(kind) ==
  /\ kind \in Faults
  /\ faults < MaxFaults
  /\ faults' = faults + 1
  /\ Struck(kind)

(* update(BatchJob).where(id == j): matches nothing when there is no row.  *)
UpdateRow(reachable, j, fields) ==
  row' = IF reachable /\ row[j].status # "none"
         THEN [row EXCEPT ![j] = fields] ELSE row

(* Every method of DatabaseService returns early unless `available`.       *)
ApiReachesDb == available /\ dbUp

(* The result backend: a stored SUCCESS is not overwritten.                *)
StoreResult(j, state, c, f) ==
  result' = IF result[j].state = "SUCCESS" THEN result
            ELSE [result EXCEPT ![j] = [state |-> state, completed |-> c, failed |-> f]]

-----------------------------------------------------------------------------
(* POST /batch: the row first, then the queue message *)

SubmitRecord(j) ==
  /\ submit[j] = "idle"
  /\ row' = IF ApiReachesDb THEN [row EXCEPT ![j].status = "pending"] ELSE row
  /\ submit' = [submit EXCEPT ![j] = "enqueue"]
  /\ UNCHANGED <<cancel, available, result, brokerVars, workerVars, posted, envVars>>

SubmitEnqueue(j) ==
  /\ submit[j] = "enqueue"
  /\ submit' = [submit EXCEPT ![j] = "accepted"]
  /\ ready' = ready \cup {[job |-> j, attempt |-> 0]}
  /\ UNCHANGED <<cancel, available, row, result, control, workerVars, posted, envVars>>

(* send_task raised; the broker may have taken the message all the same.   *)
SubmitEnqueueFails(j) ==
  /\ submit[j] = "enqueue"
  /\ Fault("broker")
  /\ submit' = [submit EXCEPT ![j] = "refusing"]
  /\ ready' \in {ready, ready \cup {[job |-> j, attempt |-> 0]}}
  /\ UNCHANGED <<cancel, available, row, result, control, workerVars, posted, dbUp>>

SubmitRefuse(j) ==
  /\ submit[j] = "refusing"
  /\ UpdateRow(ApiReachesDb, j, [row[j] EXCEPT !.status = "failed"])
  /\ submit' = [submit EXCEPT ![j] = "refused"]
  /\ UNCHANGED <<cancel, available, result, brokerVars, workerVars, posted, envVars>>

SubmitCrash(j) ==
  /\ submit[j] \in {"enqueue", "refusing"}
  /\ Fault("apicrash")
  /\ submit' = [submit EXCEPT ![j] = "crashed"]
  /\ UNCHANGED <<cancel, available, row, result, brokerVars, workerVars, posted, dbUp>>

-----------------------------------------------------------------------------
(* DELETE /batch/{job_id}: read the row, check the result, revoke, write   *)

CancelRead(j) ==
  /\ "cancel" \in Faults
  /\ submit[j] = "accepted"
  /\ cancel[j] = "idle"
  /\ cancel' = [cancel EXCEPT ![j] =
                  IF ApiReachesDb /\ row[j].status # "none" THEN "found" ELSE "missing"]
  /\ Struck("cancel")
  /\ UNCHANGED <<submit, available, row, result, brokerVars, workerVars, posted, dbUp, faults>>

(* What AsyncResult.state answers. *)
Reported(j) == IF result[j].state = "EXPIRED" THEN "PENDING" ELSE result[j].state

CancelCheck(j) ==
  /\ cancel[j] \in {"found", "missing"}
  /\ cancel' = [cancel EXCEPT ![j] =
                  IF cancel[j] = "missing" /\ available /\ Reported(j) = "PENDING"
                  THEN "not_found"
                  ELSE IF Reported(j) \in {"SUCCESS", "FAILURE"}
                  THEN "finished" ELSE "revoking"]
  /\ UNCHANGED <<submit, available, row, result, brokerVars, workerVars, posted, envVars>>

CancelRevoke(j) ==
  /\ cancel[j] = "revoking"
  /\ cancel' = [cancel EXCEPT ![j] = "recording"]
  /\ control' = control \cup (Workers \X {j})
  /\ UNCHANGED <<submit, available, row, result, ready, workerVars, posted, envVars>>

CancelRecord(j) ==
  /\ cancel[j] = "recording"
  /\ UpdateRow(ApiReachesDb, j, [row[j] EXCEPT !.status = "cancelled"])
  /\ cancel' = [cancel EXCEPT ![j] = "cancelled"]
  /\ UNCHANGED <<submit, available, result, brokerVars, workerVars, posted, envVars>>

-----------------------------------------------------------------------------
(* The worker: Celery's delivery, then process_batch step by step *)

Goto(w, label) == pc' = [pc EXCEPT ![w] = label]

Release(w) ==
  /\ pc' = [pc EXCEPT ![w] = "idle"]
  /\ job' = [job EXCEPT ![w] = None]
  /\ attempt' = [attempt EXCEPT ![w] = 0]
  /\ completed' = [completed EXCEPT ![w] = 0]
  /\ failed' = [failed EXCEPT ![w] = 0]

(* task_track_started stores STARTED before the task body runs; acks_late  *)
(* keeps the message unacknowledged, so the worker holds it.               *)
Take(w) ==
  /\ pc[w] = "idle"
  /\ \E m \in ready :
       /\ m.job \notin revoked[w]
       /\ ready' = ready \ {m}
       /\ job' = [job EXCEPT ![w] = m.job]
       /\ attempt' = [attempt EXCEPT ![w] = m.attempt]
       /\ StoreResult(m.job, "STARTED", 0, 0)
  /\ Goto(w, "started")
  /\ UNCHANGED <<apiVars, row, control, completed, failed, revoked, posted, envVars>>

(* A message of a revoked job is acknowledged and marked, never run.       *)
Discard(w) ==
  /\ pc[w] = "idle"
  /\ \E m \in ready :
       /\ m.job \in revoked[w]
       /\ ready' = ready \ {m}
       /\ StoreResult(m.job, "REVOKED", 0, 0)
  /\ UNCHANGED <<apiVars, row, control, workerVars, posted, envVars>>

Begin(w) ==
  /\ pc[w] = "started"
  /\ UpdateRow(dbUp, job[w], [row[job[w]] EXCEPT !.status = "running"])
  /\ Goto(w, "item")
  /\ UNCHANGED <<apiVars, result, brokerVars, job, attempt, completed, failed,
                 revoked, posted, envVars>>

(* One image: a result, or an error object in its place.                   *)
RunItem(w) ==
  /\ pc[w] = "item"
  /\ \/ /\ completed' = [completed EXCEPT ![w] = @ + 1]
        /\ UNCHANGED failed
     \/ /\ failed' = [failed EXCEPT ![w] = @ + 1]
        /\ UNCHANGED completed
  /\ Goto(w, "progress")
  /\ UNCHANGED <<apiVars, row, result, brokerVars, job, attempt, revoked, posted, envVars>>

\* Mutant: the image the limit interrupted gets no error object.
UncountedTimeout(w) == failed

TimedOut(w) == [failed EXCEPT ![w] = @ + 1]

(* The soft limit marks the current image JOB_TIMEOUT and leaves the loop, *)
(* past the progress update.                                               *)
SoftLimit(w) ==
  /\ pc[w] = "item"
  /\ Fault("softlimit")
  /\ failed' = TimedOut(w)
  /\ Goto(w, "record")
  /\ UNCHANGED <<apiVars, row, result, brokerVars, job, attempt, completed, revoked,
                 posted, dbUp>>

LoopDone(w) == completed[w] + failed[w] = Items

Progress(w) ==
  /\ pc[w] = "progress"
  /\ StoreResult(job[w], "PROGRESS", completed[w], failed[w])
  /\ Goto(w, IF LoopDone(w) THEN "record" ELSE "item")
  /\ UNCHANGED <<apiVars, row, brokerVars, job, attempt, completed, failed, revoked,
                 posted, envVars>>

Summary(w) == IF failed[w] = 0 THEN "completed"
              ELSE IF completed[w] = 0 THEN "failed" ELSE "completed"

\* Mutant: the failed items are left out of the row.
SuccessesOnly(w) == [status |-> Summary(w), completed |-> completed[w], failed |-> 0]

Outcome(w) == [status |-> Summary(w), completed |-> completed[w], failed |-> failed[w]]

RecordOutcome(w) ==
  /\ pc[w] = "record"
  /\ UpdateRow(dbUp, job[w], Outcome(w))
  /\ Goto(w, "callback")
  /\ UNCHANGED <<apiVars, result, brokerVars, job, attempt, completed, failed,
                 revoked, posted, envVars>>

(* The soft limit raised inside _record_job is caught there like any other *)
(* exception: the write is lost and the task goes on.                      *)
SoftLimitInRecord(w) ==
  /\ pc[w] \in {"started", "record"}
  /\ Fault("softlimit")
  /\ Goto(w, IF pc[w] = "started" THEN "item" ELSE "callback")
  /\ UNCHANGED <<apiVars, row, result, brokerVars, job, attempt, completed, failed,
                 revoked, posted, dbUp>>

PostCallback(w) ==
  /\ pc[w] = "callback"
  /\ posted' = [posted EXCEPT ![job[w]] = Summary(w)]
  /\ Goto(w, "return")
  /\ UNCHANGED <<apiVars, row, result, brokerVars, job, attempt, completed, failed,
                 revoked, envVars>>

(* Celery stores the returned summary: SUCCESS whatever the summary says.  *)
Return(w) ==
  /\ pc[w] = "return"
  /\ StoreResult(job[w], "SUCCESS", completed[w], failed[w])
  /\ Goto(w, "ack")
  /\ UNCHANGED <<apiVars, row, brokerVars, job, attempt, completed, failed, revoked,
                 posted, envVars>>

Ack(w) ==
  /\ pc[w] = "ack"
  /\ Release(w)
  /\ UNCHANGED <<apiVars, row, result, brokerVars, revoked, posted, envVars>>

\* Mutant: RETRY is stored and nothing is queued again.
RetryNotQueued(w) == ready

Requeued(w) == ready \cup {[job |-> job[w], attempt |-> attempt[w] + 1]}

Running(w) == pc[w] \notin {"idle", "ack"}

(* Outside the per-item handlers a connection may fail or time out while   *)
(* the services are set up and while progress is published.                *)
Connects(w) == pc[w] = "progress" \/ (pc[w] = "item" /\ completed[w] + failed[w] = 0)

(* An exception outside the handlers of the items, of the row and of the   *)
(* callback: autoretry_for queues the task again after one of those, while *)
(* retries are left; any other, the soft limit anywhere between two        *)
(* handlers too, is a FAILURE.                                             *)
Escape(w) ==
  /\ Running(w)
  /\ Fault("escape")
  /\ \/ /\ Connects(w) /\ attempt[w] < MaxRetries
        /\ ready' = Requeued(w)
        /\ StoreResult(job[w], "RETRY", 0, 0)
     \/ /\ StoreResult(job[w], "FAILURE", 0, 0)
        /\ UNCHANGED ready
  /\ Goto(w, "ack")
  /\ UNCHANGED <<apiVars, row, control, job, attempt, completed, failed, revoked,
                 posted, dbUp>>

(* The parent process kills the child, stores FAILURE and acknowledges.    *)
HardLimit(w) ==
  /\ Running(w)
  /\ Fault("hardlimit")
  /\ StoreResult(job[w], "FAILURE", 0, 0)
  /\ Release(w)
  /\ UNCHANGED <<apiVars, row, brokerVars, revoked, posted, dbUp>>

\* Mutant: acknowledged on delivery, so the broker has nothing to redeliver.
AckedOnDelivery(w) == ready

(* acks_late and reject_on_worker_lost: an unacknowledged message returns. *)
Redelivered(w) == ready \cup {[job |-> job[w], attempt |-> attempt[w]]}

(* The message is delivered again.  The set of revoked ids survives the    *)
(* loss of a child process and is lost with the worker itself, as is a     *)
(* broadcast it has not read.                                              *)
Crash(w) ==
  /\ Fault("crash")
  /\ ready' = IF pc[w] = "idle" THEN ready ELSE Redelivered(w)
  /\ \/ /\ pc[w] # "idle"
        /\ UNCHANGED <<revoked, control>>
     \/ /\ revoked' = [revoked EXCEPT ![w] = {}]
        /\ control' = control \ ({w} \X Jobs)
  /\ Release(w)
  /\ UNCHANGED <<apiVars, row, result, posted, dbUp>>

\* Mutant: revoke without terminate=True.
RevokeOnly(w, j) == FALSE

Terminates(w, j) == Running(w) /\ job[w] = j

(* revoke(terminate=True) at a worker: remember the id, and kill the job   *)
(* if it is the one running.                                               *)
ReceiveRevoke(w, j) ==
  /\ <<w, j>> \in control
  /\ control' = control \ {<<w, j>>}
  /\ revoked' = [revoked EXCEPT ![w] = @ \cup {j}]
  /\ IF Terminates(w, j)
     THEN StoreResult(j, "REVOKED", 0, 0) /\ Release(w)
     ELSE UNCHANGED <<result, pc, job, attempt, completed, failed>>
  /\ UNCHANGED <<apiVars, row, ready, posted, envVars>>

-----------------------------------------------------------------------------
(* The environment *)

Outage ==
  /\ dbUp
  /\ Fault("outage")
  /\ dbUp' = FALSE
  /\ UNCHANGED <<apiVars, row, result, brokerVars, workerVars, posted>>

DbRecovers ==
  /\ ~dbUp
  /\ dbUp' = TRUE
  /\ UNCHANGED <<apiVars, row, result, brokerVars, workerVars, posted, history>>

(* DatabaseService.ping, called by the health endpoints.                   *)
Ping ==
  /\ available # dbUp
  /\ available' = dbUp
  /\ UNCHANGED <<submit, cancel, row, result, brokerVars, workerVars, posted, envVars>>

(* result_expires: only the entry of a job no message or worker is left of *)
(* is untouched for 24 hours.                                              *)
Expire(j) ==
  /\ "expire" \in Faults
  /\ result[j].state \in Settled \ {"EXPIRED"}
  /\ \A m \in ready : m.job # j
  /\ \A w \in Workers : job[w] # j
  /\ result' = [result EXCEPT ![j] = [state |-> "EXPIRED", completed |-> 0, failed |-> 0]]
  /\ Struck("expire")
  /\ UNCHANGED <<apiVars, row, brokerVars, workerVars, posted, dbUp, faults>>

-----------------------------------------------------------------------------
Api(j) ==
  \/ SubmitRecord(j) \/ SubmitEnqueue(j) \/ SubmitEnqueueFails(j)
  \/ SubmitRefuse(j) \/ SubmitCrash(j)
  \/ CancelRead(j) \/ CancelCheck(j) \/ CancelRevoke(j) \/ CancelRecord(j)

(* The steps a live worker takes on its own. *)
Work(w) ==
  \/ Take(w) \/ Discard(w) \/ Begin(w) \/ RunItem(w) \/ Progress(w)
  \/ RecordOutcome(w) \/ PostCallback(w) \/ Return(w) \/ Ack(w)

Mishap(w) == SoftLimit(w) \/ SoftLimitInRecord(w) \/ Escape(w) \/ HardLimit(w) \/ Crash(w)

Environment == Outage \/ DbRecovers \/ Ping

Next ==
  \/ \E j \in Jobs : Api(j) \/ Expire(j)
  \/ \E w \in Workers : Work(w) \/ Mishap(w)
  \/ \E w \in Workers, j \in Jobs : ReceiveRevoke(w, j)
  \/ Environment

Spec == Init /\ [][Next]_vars

(* A worker that is up keeps consuming the queue and running its task.     *)
FairSpec == Spec /\ \A w \in Workers : WF_vars(Work(w))

-----------------------------------------------------------------------------
(* GET /batch/{job_id}: what the caller is shown *)

\* Mutant: RETRY missing from the map, so the default applies.
StatusMapWithoutRetry ==
  [s \in ResultState |->
     CASE s \in {"STARTED", "PROGRESS"} -> "running"
       [] s = "SUCCESS" -> "completed"
       [] s = "FAILURE" -> "failed"
       [] s = "REVOKED" -> "cancelled"
       [] OTHER -> "pending"]

StatusMap ==
  [s \in ResultState |->
     CASE s \in {"STARTED", "PROGRESS", "RETRY"} -> "running"
       [] s = "SUCCESS" -> "completed"
       [] s = "FAILURE" -> "failed"
       [] s = "REVOKED" -> "cancelled"
       [] OTHER -> "pending"]

Status(j) ==
  LET record == IF ApiReachesDb THEN row[j].status ELSE "none"
      state  == Reported(j)
  IN  IF state = "PENDING" /\ record # "pending"
      THEN IF record = "none" THEN "not_found" ELSE record
      ELSE StatusMap[state]

-----------------------------------------------------------------------------
(* Properties *)

(* A submission answered 202 is not forgotten: until its result is         *)
(* settled, its message is in the queue or held by a worker that will      *)
(* settle it (task_acks_late, task_reject_on_worker_lost), whatever        *)
(* crashes, retries and cancellations happen in between.                   *)
JobNotLost ==
  \A j \in Jobs :
    submit[j] = "accepted" /\ result[j].state \notin Settled =>
      \/ \E m \in ready : m.job = j
      \/ \E w \in Workers : Running(w) /\ job[w] = j

(* A job cut short by its soft time limit never looks whole: a result with *)
(* no failed item has all of its items.                                    *)
NoSilentTruncation ==
  \A j \in Jobs :
    result[j].state = "SUCCESS" =>
      \/ result[j].completed + result[j].failed = Items
      \/ result[j].failed > 0

(* A worker that knows a job is revoked is not running it: cancelling      *)
(* terminates a running job and drops a queued one.                        *)
RevokedIsNotRun ==
  \A w \in Workers : Running(w) => job[w] \notin revoked[w]

(* Row and result, written one after the other by the worker, agree on the *)
(* item counts of a job both call finished (batch_jobs is what the status  *)
(* endpoint falls back to once the result has expired), unless a worker    *)
(* died and the job was run a second time.                                 *)
RowAgreesWithResult ==
  "crash" \notin struck =>
    \A j \in Jobs :
      /\ submit[j] = "accepted"
      /\ result[j].state = "SUCCESS"
      /\ row[j].status \in {"completed", "failed"}
      => /\ row[j].completed = result[j].completed
         /\ row[j].failed = result[j].failed

(* An accepted job is settled in the end.                                  *)
JobsSettle ==
  \A j \in Jobs : submit[j] = "accepted" ~> result[j].state \in Settled

(* While no worker dies, nobody cancels, no result expires and the queue   *)
(* and the database answer, the status a client is shown takes no step but *)
(* those of the promised life cycle.                                       *)
Shown == [j \in Jobs |-> Status(j)]
Lifecycle == INSTANCE JobLifecycle WITH status <- Shown
LifecycleIsFollowed ==
  [][struck' \subseteq {"apicrash", "escape", "softlimit", "hardlimit"} =>
       Lifecycle!Next \/ Shown' = Shown]_vars
=============================================================================
