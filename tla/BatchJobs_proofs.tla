-------------------------- MODULE BatchJobs_proofs --------------------------
(***************************************************************************)
(* Theorems about BatchJobs, for every set of jobs and workers, every      *)
(* number of items and retries and every choice of faults.                 *)
(***************************************************************************)
EXTENDS BatchJobs, TLAPS

(* A busy worker holds a message of a job; an idle one holds none.         *)
BusyHasJob == \A w \in Workers : pc[w] # "idle" <=> job[w] \in Jobs

(* Between items and before them fewer than Items images are counted.      *)
CountsFit ==
  \A w \in Workers :
    /\ completed[w] + failed[w] <= Items
    /\ pc[w] \in {"started", "item"} => completed[w] + failed[w] < Items
    /\ pc[w] \in {"idle", "started"} => completed[w] = 0 /\ failed[w] = 0

TypeInv == TypeOK /\ BusyHasJob /\ CountsFit

LEMMA InitTypeInv == Init => TypeInv
<1> SUFFICES ASSUME Init PROVE TypeInv
  OBVIOUS
<1> USE ConstantsAssumption DEF Init
<1>1. 0 \in Counts
  BY DEF Counts
<1>2. row \in [Jobs -> [status : RowStatus, completed : Counts, failed : Counts]]
  BY <1>1 DEF RowStatus
<1>3. result \in [Jobs -> [state : ResultState, completed : Counts, failed : Counts]]
  BY <1>1 DEF ResultState
<1>4. /\ dbUp \in BOOLEAN /\ available \in BOOLEAN
  <2>1. dbUp \in BOOLEAN
    BY Zenon
  <2>2. QED
    BY <2>1, Zenon
<1>s. struck \subseteq FaultKinds
  BY DEF FaultKinds
<1>5. TypeOK
  BY <1>1, <1>2, <1>3, <1>4, <1>s DEF TypeOK, SubmitState, CancelState, WorkerState
<1>6. BusyHasJob /\ CountsFit
  BY DEF BusyHasJob, CountsFit
<1>7. QED
  BY <1>5, <1>6 DEF TypeInv

(* What Celery stores is well formed. *)
LEMMA StoredResult ==
  ASSUME TypeOK, NEW j \in Jobs, NEW s \in ResultState, NEW c \in Counts, NEW f \in Counts,
         StoreResult(j, s, c, f)
  PROVE  result' \in [Jobs -> [state : ResultState, completed : Counts, failed : Counts]]
BY DEF StoreResult, TypeOK

LEMMA ApiReachesDbBool == ASSUME TypeOK PROVE ApiReachesDb \in BOOLEAN
BY DEF ApiReachesDb

LEMMA RowWithStatus ==
  ASSUME TypeOK, NEW j \in Jobs, NEW s \in RowStatus
  PROVE  [row[j] EXCEPT !.status = s] \in [status : RowStatus, completed : Counts, failed : Counts]
<1>1. row[j] \in [status : RowStatus, completed : Counts, failed : Counts]
  BY DEF TypeOK
<1>2. QED
  BY ONLY <1>1, s \in RowStatus

LEMMA UpdatedRow ==
  ASSUME TypeOK, NEW j \in Jobs, NEW up \in BOOLEAN,
         NEW r \in [status : RowStatus, completed : Counts, failed : Counts],
         UpdateRow(up, j, r)
  PROVE  row' \in [Jobs -> [status : RowStatus, completed : Counts, failed : Counts]]
BY DEF UpdateRow, TypeOK

(* The handlers of the API and the expiry leave the workers alone. *)
LEMMA ApiKeepsTypeInv ==
  ASSUME TypeInv, NEW j \in Jobs, Api(j) \/ Expire(j)
  PROVE  TypeInv'
<1> USE ConstantsAssumption
    DEF TypeInv, TypeOK, BusyHasJob, CountsFit, SubmitState, CancelState, RowStatus, ResultState,
        WorkerState, Counts, Message, apiVars, brokerVars, workerVars, envVars, history,
        Fault, Struck, UpdateRow
<1>1. CASE SubmitRecord(j)
  <2> DEFINE r == [row[j] EXCEPT !.status = "pending"]
  <2>3. r \in [status : RowStatus, completed : Counts, failed : Counts]
    BY RowWithStatus DEF RowStatus
  <2>4. row' = row \/ row' = [row EXCEPT ![j] = r]
    BY <1>1 DEF SubmitRecord
  <2>1. row' \in [Jobs -> [status : RowStatus, completed : Counts, failed : Counts]]
    BY ONLY TypeOK, <2>3, <2>4, j \in Jobs DEF TypeOK
  <2>2. QED
    BY <1>1, <2>1 DEF SubmitRecord
<1>2. CASE SubmitEnqueue(j)
  BY <1>2 DEF SubmitEnqueue
<1>3. CASE SubmitEnqueueFails(j)
  <2>1. ready' \subseteq Message
    BY <1>3 DEF SubmitEnqueueFails
  <2>2. faults' \in 0 .. MaxFaults /\ struck' \subseteq FaultKinds
    BY <1>3 DEF SubmitEnqueueFails
  <2>3. QED
    BY <1>3, <2>1, <2>2 DEF SubmitEnqueueFails
<1>4. CASE SubmitRefuse(j)
  <2> DEFINE r == [row[j] EXCEPT !.status = "failed"]
  <2>1. r \in [status : RowStatus, completed : Counts, failed : Counts]
    BY RowWithStatus DEF RowStatus
  <2>2. row' \in [Jobs -> [status : RowStatus, completed : Counts, failed : Counts]]
    BY <1>4, <2>1, ApiReachesDbBool, UpdatedRow DEF SubmitRefuse
  <2>3. QED
    BY <1>4, <2>2 DEF SubmitRefuse
<1>5. CASE SubmitCrash(j)
  BY <1>5 DEF SubmitCrash
<1>6. CASE CancelRead(j)
  BY <1>6 DEF CancelRead
<1>7. CASE CancelCheck(j)
  BY <1>7 DEF CancelCheck
<1>8. CASE CancelRevoke(j)
  <2>1. control' \subseteq Workers \X Jobs
    BY <1>8 DEF CancelRevoke
  <2>2. QED
    BY <1>8, <2>1 DEF CancelRevoke
<1>9. CASE CancelRecord(j)
  <2> DEFINE r == [row[j] EXCEPT !.status = "cancelled"]
  <2>1. r \in [status : RowStatus, completed : Counts, failed : Counts]
    BY RowWithStatus DEF RowStatus
  <2>2. row' \in [Jobs -> [status : RowStatus, completed : Counts, failed : Counts]]
    BY <1>9, <2>1, ApiReachesDbBool, UpdatedRow DEF CancelRecord
  <2>3. QED
    BY <1>9, <2>2 DEF CancelRecord
<1>10. CASE Expire(j)
  <2>1. result' \in [Jobs -> [state : ResultState, completed : Counts, failed : Counts]]
    BY <1>10 DEF Expire
  <2>2. QED
    BY <1>10, <2>1 DEF Expire
<1>11. QED
  BY <1>1, <1>2, <1>3, <1>4, <1>5, <1>6, <1>7, <1>8, <1>9, <1>10 DEF Api

LEMMA EnvironmentKeepsTypeInv ==
  ASSUME TypeInv, Environment \/ UNCHANGED vars PROVE TypeInv'
<1> USE DEF TypeInv, TypeOK, BusyHasJob, CountsFit, apiVars, brokerVars, workerVars, envVars,
            history, Fault, Struck
<1>1. CASE Environment
  <2>1. /\ UNCHANGED <<submit, cancel, row, result, ready, control, pc, job, attempt,
                       completed, failed, revoked, posted>>
        /\ faults' \in 0 .. MaxFaults /\ struck' \subseteq FaultKinds
    BY <1>1, ConstantsAssumption DEF Environment, Outage, DbRecovers, Ping
  <2>2. dbUp' \in BOOLEAN /\ available' \in BOOLEAN
    BY <1>1, Zenon DEF Environment, Outage, DbRecovers, Ping
  <2>3. QED
    BY <2>1, <2>2
<1>2. CASE UNCHANGED vars
  BY <1>2 DEF vars
<1>3. QED
  BY <1>1, <1>2

LEMMA WorkKeepsTypeInv ==
  ASSUME TypeInv, NEW w \in Workers, Work(w) PROVE TypeInv'
<1> USE ConstantsAssumption
    DEF TypeInv, TypeOK, BusyHasJob, CountsFit, SubmitState, CancelState, WorkerState, Counts,
        Message, apiVars, brokerVars, workerVars, envVars, history, Goto, Release
<1>1. CASE Take(w)
  BY <1>1, StoredResult DEF Take, ResultState
<1>2. CASE Discard(w)
  BY <1>2, SMTT(30), StoredResult DEF Discard, ResultState
<1>3. CASE Begin(w)
  <2> DEFINE r == [row[job[w]] EXCEPT !.status = "running"]
  <2>1. job[w] \in Jobs
    BY <1>3 DEF Begin
  <2>2. r \in [status : RowStatus, completed : Counts, failed : Counts]
    <3>1. "running" \in RowStatus
      BY DEF RowStatus
    <3>2. QED
      BY <2>1, <3>1, RowWithStatus
  <2>3. row' \in [Jobs -> [status : RowStatus, completed : Counts, failed : Counts]]
    BY <1>3, <2>1, <2>2, UpdatedRow DEF Begin
  <2>4. BusyHasJob' /\ CountsFit'
    BY <1>3 DEF Begin
  <2>5. QED
    BY <1>3, <2>3, <2>4 DEF Begin
<1>4. CASE RunItem(w)
  <2>1. completed[w] + 1 \in Counts /\ failed[w] + 1 \in Counts
    BY <1>4 DEF RunItem
  <2>2. completed' \in [Workers -> Counts] /\ failed' \in [Workers -> Counts]
    <3>1. CASE completed' = [completed EXCEPT ![w] = @ + 1] /\ UNCHANGED failed
      BY <2>1, <3>1
    <3>2. CASE failed' = [failed EXCEPT ![w] = @ + 1] /\ UNCHANGED completed
      BY <2>1, <3>2
    <3>3. QED
      BY <1>4, <3>1, <3>2 DEF RunItem
  <2>3. CountsFit'
    BY <1>4 DEF RunItem
  <2>4. QED
    BY <1>4, <2>2, <2>3 DEF RunItem
<1>5. CASE Progress(w)
  <2>1. result' \in [Jobs -> [state : ResultState, completed : Counts, failed : Counts]]
    BY <1>5, StoredResult DEF Progress, ResultState
  <2>2. CountsFit'
    <3>1. completed[w] + failed[w] <= Items /\ completed' = completed /\ failed' = failed
      BY <1>5 DEF Progress
    <3>2. pc'[w] = "item" => completed[w] + failed[w] < Items
      <4>1. completed[w] \in Nat /\ failed[w] \in Nat /\ Items \in Nat
        OBVIOUS
      <4>2. pc'[w] = "item" => completed[w] + failed[w] # Items
        BY <1>5 DEF Progress, LoopDone
      <4>3. QED
        BY ONLY <3>1, <4>1, <4>2
    <3>3. pc'[w] \in {"record", "item"} /\ \A v \in Workers \ {w} : pc'[v] = pc[v]
      BY <1>5 DEF Progress
    <3>4. QED
      BY <3>1, <3>2, <3>3
  <2>3. QED
    BY <1>5, <2>1, <2>2 DEF Progress
<1>6. CASE RecordOutcome(w)
  <2>1. job[w] \in Jobs /\ Outcome(w) \in [status : RowStatus, completed : Counts, failed : Counts]
    BY <1>6 DEF RecordOutcome, Outcome, Summary, RowStatus
  <2>2. row' \in [Jobs -> [status : RowStatus, completed : Counts, failed : Counts]]
    BY <1>6, <2>1, UpdatedRow DEF RecordOutcome
  <2>3. QED
    BY <1>6, <2>2 DEF RecordOutcome
<1>7. CASE PostCallback(w)
  BY <1>7 DEF PostCallback, Summary
<1>8. CASE Return(w)
  BY <1>8, StoredResult DEF Return, ResultState
<1>9. CASE Ack(w)
  BY <1>9 DEF Ack
<1>10. QED
  BY <1>1, <1>2, <1>3, <1>4, <1>5, <1>6, <1>7, <1>8, <1>9 DEF Work

(* The message a crash or a retry puts back is one the broker can hold.    *)
LEMMA MishapKeepsTypeInv ==
  ASSUME TypeInv, NEW w \in Workers, Mishap(w) PROVE TypeInv'
<1> USE ConstantsAssumption
    DEF TypeInv, TypeOK, BusyHasJob, CountsFit, SubmitState, CancelState, WorkerState, Counts,
        Message, apiVars, brokerVars, workerVars, envVars, history, Goto, Release, Fault, Struck
<1>1. CASE SoftLimit(w)
  <2>1. failed[w] + 1 \in Counts
    BY <1>1 DEF SoftLimit
  <2>2. failed' \in [Workers -> Counts]
    BY <1>1, <2>1 DEF SoftLimit, TimedOut
  <2>3. CountsFit'
    BY <1>1 DEF SoftLimit, TimedOut
  <2>4. BusyHasJob'
    BY <1>1 DEF SoftLimit
  <2>5. faults' \in 0 .. MaxFaults /\ struck' \subseteq FaultKinds
    BY <1>1 DEF SoftLimit
  <2>6. QED
    BY <1>1, <2>2, <2>3, <2>4, <2>5 DEF SoftLimit
<1>2. CASE SoftLimitInRecord(w)
  BY <1>2 DEF SoftLimitInRecord
<1>3. CASE Escape(w)
  <2>0. pc[w] \notin {"idle", "ack"} /\ job[w] \in Jobs
    BY <1>3 DEF Escape, Running
  <2>1. result' \in [Jobs -> [state : ResultState, completed : Counts, failed : Counts]]
    <3>1. job[w] \in Jobs /\ 0 \in Counts /\ "RETRY" \in ResultState /\ "FAILURE" \in ResultState
      BY <2>0 DEF ResultState
    <3>2. CASE StoreResult(job[w], "RETRY", 0, 0)
      BY <3>1, <3>2, StoredResult
    <3>3. CASE StoreResult(job[w], "FAILURE", 0, 0)
      BY <3>1, <3>3, StoredResult
    <3>4. QED
      BY <1>3, <3>2, <3>3 DEF Escape
  <2>2. ready' \subseteq Message
    BY <1>3, <2>0 DEF Escape, Requeued
  <2>3. QED
    BY <1>3, <2>0, <2>1, <2>2 DEF Escape
<1>4. CASE HardLimit(w)
  BY <1>4, SMTT(30), StoredResult DEF HardLimit, Running, ResultState
<1>5. CASE Crash(w)
  <2>1. ready' \subseteq Message
    BY <1>5 DEF Crash, Redelivered
  <2>2. revoked' \in [Workers -> SUBSET Jobs] /\ control' \subseteq Workers \X Jobs
    BY <1>5 DEF Crash
  <2>3. BusyHasJob' /\ CountsFit'
    BY <1>5 DEF Crash
  <2>4. /\ pc' \in [Workers -> WorkerState]
        /\ job' \in [Workers -> Jobs \cup {None}]
        /\ attempt' \in [Workers -> 0 .. MaxRetries]
        /\ completed' \in [Workers -> Counts]
        /\ failed' \in [Workers -> Counts]
        /\ faults' \in 0 .. MaxFaults /\ struck' \subseteq FaultKinds
    BY <1>5 DEF Crash
  <2>5. QED
    BY <1>5, <2>1, <2>2, <2>3, <2>4 DEF Crash
<1>6. QED
  BY <1>1, <1>2, <1>3, <1>4, <1>5 DEF Mishap

LEMMA RevokeKeepsTypeInv ==
  ASSUME TypeInv, NEW w \in Workers, NEW j \in Jobs, ReceiveRevoke(w, j) PROVE TypeInv'
<1> USE ConstantsAssumption
    DEF TypeInv, TypeOK, BusyHasJob, CountsFit, SubmitState, CancelState, WorkerState, Counts,
        Message, apiVars, brokerVars, workerVars, envVars, history, Goto, Release
<1>1. revoked' \in [Workers -> SUBSET Jobs]
  BY DEF ReceiveRevoke
<1>2. result' \in [Jobs -> [state : ResultState, completed : Counts, failed : Counts]]
  BY StoredResult DEF ReceiveRevoke, ResultState
<1>3. /\ BusyHasJob' /\ CountsFit'
      /\ pc' \in [Workers -> WorkerState]
      /\ job' \in [Workers -> Jobs \cup {None}]
      /\ attempt' \in [Workers -> 0 .. MaxRetries]
      /\ completed' \in [Workers -> Counts]
      /\ failed' \in [Workers -> Counts]
  <2>1. CASE Terminates(w, j)
    <3>1. /\ pc' = [pc EXCEPT ![w] = "idle"]
          /\ job' = [job EXCEPT ![w] = None]
          /\ attempt' = [attempt EXCEPT ![w] = 0]
          /\ completed' = [completed EXCEPT ![w] = 0]
          /\ failed' = [failed EXCEPT ![w] = 0]
      BY <2>1 DEF ReceiveRevoke
    <3>2. BusyHasJob' /\ CountsFit'
      BY <3>1
    <3>3. QED
      BY <3>1, <3>2
  <2>2. CASE ~Terminates(w, j)
    BY <2>2 DEF ReceiveRevoke
  <2>3. QED
    BY <2>1, <2>2
<1>4. QED
  BY <1>1, <1>2, <1>3 DEF ReceiveRevoke

LEMMA NextKeepsTypeInv == TypeInv /\ [Next]_vars => TypeInv'
<1> SUFFICES ASSUME TypeInv, [Next]_vars PROVE TypeInv'
  OBVIOUS
<1>1. CASE \E j \in Jobs : Api(j) \/ Expire(j)
  BY <1>1, ApiKeepsTypeInv
<1>2. CASE \E w \in Workers : Work(w) \/ Mishap(w)
  BY <1>2, WorkKeepsTypeInv, MishapKeepsTypeInv
<1>3. CASE \E w \in Workers, j \in Jobs : ReceiveRevoke(w, j)
  BY <1>3, RevokeKeepsTypeInv
<1>4. CASE Environment \/ UNCHANGED vars
  BY <1>4, EnvironmentKeepsTypeInv
<1>5. QED
  BY <1>1, <1>2, <1>3, <1>4 DEF Next

(* Every reachable state is well formed. *)
THEOREM TypeCorrect == Spec => []TypeOK
<1>1. TypeInv => TypeOK
  BY DEF TypeInv
<1>2. QED
  BY <1>1, InitTypeInv, NextKeepsTypeInv, PTL DEF Spec

-----------------------------------------------------------------------------
(* No accepted job is lost *)

HasMessage(j) == \E m \in ready : m.job = j
HasWorker(j)  == \E w \in Workers : Running(w) /\ job[w] = j

(* A step that moves a running worker within its task loses nothing.       *)
LEMMA RunningOnKeepsJobs ==
  ASSUME TypeInv, JobNotLost, NEW w \in Workers, UNCHANGED <<submit, result, ready, job>>,
         NEW label, label \notin {"idle", "ack"}, pc' = [pc EXCEPT ![w] = label]
  PROVE  JobNotLost'
<1>1. \A v \in Workers : Running(v) => Running(v)'
  BY DEF Running, TypeInv, TypeOK
<1>2. QED
  BY <1>1 DEF JobNotLost

(* A message that is queued stays queued but for the one a worker takes.   *)
LEMMA ApiKeepsJobs ==
  ASSUME TypeInv, JobNotLost, NEW i \in Jobs, Api(i) \/ Expire(i)
  PROVE  JobNotLost'
<1> SUFFICES ASSUME NEW j \in Jobs, submit'[j] = "accepted", result'[j].state \notin Settled
             PROVE  HasMessage(j)' \/ HasWorker(j)'
  BY DEF JobNotLost, HasMessage, HasWorker
<1> USE DEF TypeInv, TypeOK, HasMessage, HasWorker, Running, apiVars, brokerVars, workerVars, envVars,
            history
<1>1. CASE SubmitEnqueue(i)
  <2>1. CASE i = j
    <3>1. [job |-> j, attempt |-> 0] \in ready'
      BY <1>1, <2>1 DEF SubmitEnqueue
    <3>2. QED
      BY <3>1
  <2>2. CASE i # j
    BY <1>1, <2>2 DEF SubmitEnqueue, JobNotLost
  <2>3. QED
    BY <2>1, <2>2
<1>2. CASE SubmitEnqueueFails(i)
  BY <1>2 DEF SubmitEnqueueFails, JobNotLost
<1>3. CASE Expire(i)
  BY <1>3 DEF Expire, Settled, JobNotLost
<1>4. CASE SubmitRecord(i) \/ SubmitRefuse(i) \/ SubmitCrash(i)
  BY <1>4 DEF SubmitRecord, SubmitRefuse, SubmitCrash, JobNotLost
<1>5. CASE CancelRead(i) \/ CancelCheck(i) \/ CancelRevoke(i) \/ CancelRecord(i)
  BY <1>5 DEF CancelRead, CancelCheck, CancelRevoke, CancelRecord, JobNotLost
<1>6. QED
  BY <1>1, <1>2, <1>3, <1>4, <1>5 DEF Api

(* What a worker lets go of it has settled, or handed to the queue.        *)
LEMMA WorkKeepsJobs ==
  ASSUME TypeInv, JobNotLost, NEW w \in Workers, Work(w)
  PROVE  JobNotLost'
<1> SUFFICES ASSUME NEW j \in Jobs, submit'[j] = "accepted", result'[j].state \notin Settled
             PROVE  HasMessage(j)' \/ HasWorker(j)'
  BY DEF JobNotLost, HasMessage, HasWorker
<1> USE DEF TypeInv, TypeOK, BusyHasJob, HasMessage, HasWorker, Running, apiVars, brokerVars,
            workerVars, envVars, history, Goto, StoreResult, Settled
<1>1. CASE Take(w)
  <2>1. PICK m \in ready : /\ ready' = ready \ {m}
                           /\ job' = [job EXCEPT ![w] = m.job]
                           /\ StoreResult(m.job, "STARTED", 0, 0)
    BY <1>1 DEF Take
  <2>2. m.job \in Jobs
    BY DEF Message
  <2>3. CASE m.job = j
    BY <1>1, <2>1, <2>3 DEF Take
  <2>4. CASE m.job # j
    <3>1. result'[j] = result[j] /\ submit' = submit
      BY <1>1, <2>1, <2>2, <2>4 DEF Take
    <3>2. HasMessage(j) \/ HasWorker(j)
      BY <3>1 DEF JobNotLost
    <3>3. CASE HasMessage(j)
      BY <2>1, <2>4, <3>3
    <3>4. CASE HasWorker(j)
      <4>1. PICK v \in Workers : Running(v) /\ job[v] = j
        BY <3>4
      <4>2. v # w /\ pc'[v] = pc[v] /\ job'[v] = job[v]
        BY <1>1, <2>1, <4>1 DEF Take
      <4>3. QED
        BY <4>1, <4>2
    <3>5. QED
      BY <3>2, <3>3, <3>4
  <2>5. QED
    BY <2>3, <2>4
<1>2. CASE Discard(w)
  <2>1. PICK m \in ready : /\ ready' = ready \ {m}
                           /\ StoreResult(m.job, "REVOKED", 0, 0)
    BY <1>2 DEF Discard
  <2>2. m.job \in Jobs
    BY DEF Message
  <2>3. m.job # j
    BY <2>1, <2>2
  <2>4. QED
    BY <1>2, <2>1, <2>2, <2>3 DEF Discard, JobNotLost
<1>3. CASE Begin(w) \/ RunItem(w) \/ RecordOutcome(w) \/ PostCallback(w)
  <2>1. UNCHANGED <<submit, result, ready, job>>
    BY <1>3 DEF Begin, RunItem, RecordOutcome, PostCallback
  <2>2. \/ pc' = [pc EXCEPT ![w] = "item"] \/ pc' = [pc EXCEPT ![w] = "progress"]
        \/ pc' = [pc EXCEPT ![w] = "callback"] \/ pc' = [pc EXCEPT ![w] = "return"]
    BY <1>3 DEF Begin, RunItem, RecordOutcome, PostCallback
  <2>3. JobNotLost'
    BY ONLY TypeInv, JobNotLost, <2>1, <2>2, RunningOnKeepsJobs
  <2>4. QED
    BY <2>3 DEF JobNotLost
<1>4. CASE Progress(w)
  <2>1. CASE job[w] = j
    BY <1>4, <2>1 DEF Progress
  <2>2. CASE job[w] # j
    BY <1>4, <2>2 DEF Progress, JobNotLost
  <2>3. QED
    BY <2>1, <2>2
<1>5. CASE Return(w)
  <2>1. job[w] # j
    BY <1>5 DEF Return
  <2>2. QED
    BY <1>5, <2>1 DEF Return, JobNotLost
<1>6. CASE Ack(w)
  BY <1>6 DEF Ack, Release, JobNotLost
<1>7. QED
  BY <1>1, <1>2, <1>3, <1>4, <1>5, <1>6 DEF Work

LEMMA MishapKeepsJobs ==
  ASSUME TypeInv, JobNotLost, NEW w \in Workers, Mishap(w)
  PROVE  JobNotLost'
<1> SUFFICES ASSUME NEW j \in Jobs, submit'[j] = "accepted", result'[j].state \notin Settled
             PROVE  HasMessage(j)' \/ HasWorker(j)'
  BY DEF JobNotLost, HasMessage, HasWorker
<1> USE DEF TypeInv, TypeOK, BusyHasJob, HasMessage, HasWorker, Running, apiVars, brokerVars,
            workerVars, envVars, history, Goto, StoreResult, Settled, Fault
<1>1. CASE SoftLimit(w) \/ SoftLimitInRecord(w)
  <2>1. UNCHANGED <<submit, result, ready, job>>
    BY <1>1 DEF SoftLimit, SoftLimitInRecord
  <2>2. \/ pc' = [pc EXCEPT ![w] = "item"] \/ pc' = [pc EXCEPT ![w] = "record"]
        \/ pc' = [pc EXCEPT ![w] = "callback"]
    BY <1>1 DEF SoftLimit, SoftLimitInRecord
  <2>3. JobNotLost'
    BY ONLY TypeInv, JobNotLost, <2>1, <2>2, RunningOnKeepsJobs
  <2>4. QED
    BY <2>3 DEF JobNotLost
<1>2. CASE Escape(w)
  <2>1. CASE job[w] = j
    <3>1. [job |-> j, attempt |-> attempt[w] + 1] \in ready'
      BY <1>2, <2>1 DEF Escape, Requeued
    <3>2. QED
      BY <3>1
  <2>2. CASE job[w] # j
    BY <1>2, <2>2 DEF Escape, Requeued, JobNotLost
  <2>3. QED
    BY <2>1, <2>2
<1>3. CASE HardLimit(w)
  <2>1. job[w] # j
    BY <1>3 DEF HardLimit
  <2>2. QED
    BY <1>3, <2>1 DEF HardLimit, Release, JobNotLost
<1>4. CASE Crash(w)
  <2>1. CASE pc[w] # "idle" /\ job[w] = j
    <3>1. [job |-> j, attempt |-> attempt[w]] \in ready'
      BY <1>4, <2>1 DEF Crash, Redelivered
    <3>2. QED
      BY <3>1
  <2>2. CASE ~(pc[w] # "idle" /\ job[w] = j)
    BY <1>4, <2>2 DEF Crash, Redelivered, Release, JobNotLost
  <2>3. QED
    BY <2>1, <2>2
<1>5. QED
  BY <1>1, <1>2, <1>3, <1>4 DEF Mishap

LEMMA RevokeKeepsJobs ==
  ASSUME TypeInv, JobNotLost, NEW w \in Workers, NEW i \in Jobs, ReceiveRevoke(w, i)
  PROVE  JobNotLost'
<1> SUFFICES ASSUME NEW j \in Jobs, submit'[j] = "accepted", result'[j].state \notin Settled
             PROVE  HasMessage(j)' \/ HasWorker(j)'
  BY DEF JobNotLost, HasMessage, HasWorker
<1> USE DEF TypeInv, TypeOK, BusyHasJob, HasMessage, HasWorker, Running, apiVars, envVars, history,
            StoreResult, Settled, ReceiveRevoke, Terminates
<1>1. CASE Terminates(w, i)
  <2>1. i # j
    BY <1>1
  <2>2. result'[j] = result[j] /\ submit' = submit /\ ready' = ready
    BY <1>1, <2>1
  <2>3. \A v \in Workers : v # w => pc'[v] = pc[v] /\ job'[v] = job[v]
    BY <1>1 DEF Release
  <2>4. HasMessage(j) \/ HasWorker(j)
    BY <2>2 DEF JobNotLost
  <2>5. CASE HasWorker(j)
    <3>1. PICK v \in Workers : Running(v) /\ job[v] = j
      BY <2>5
    <3>2. v # w
      BY <1>1, <2>1, <3>1
    <3>3. QED
      BY <2>3, <3>1, <3>2
  <2>6. QED
    BY <2>2, <2>4, <2>5
<1>2. CASE ~Terminates(w, i)
  BY <1>2 DEF JobNotLost
<1>3. QED
  BY <1>1, <1>2

(* Whatever crashes, retries, cancellations and outages happen, a job the  *)
(* API answered 202 for is settled, queued or being run.                   *)
THEOREM AcceptedJobsAreKept == Spec => []JobNotLost
<1>1. Init => JobNotLost
  BY DEF Init, JobNotLost
<1>2. TypeInv /\ JobNotLost /\ [Next]_vars => JobNotLost'
  <2> SUFFICES ASSUME TypeInv, JobNotLost, [Next]_vars PROVE JobNotLost'
    OBVIOUS
  <2>1. CASE \E j \in Jobs : Api(j) \/ Expire(j)
    BY <2>1, ApiKeepsJobs
  <2>2. CASE \E w \in Workers : Work(w) \/ Mishap(w)
    BY <2>2, WorkKeepsJobs, MishapKeepsJobs
  <2>3. CASE \E w \in Workers, j \in Jobs : ReceiveRevoke(w, j)
    BY <2>3, RevokeKeepsJobs
  <2>4. CASE Environment \/ UNCHANGED vars
    BY <2>4 DEF Environment, Outage, DbRecovers, Ping, vars, apiVars, brokerVars, workerVars,
                JobNotLost, Running
  <2>5. QED
    BY <2>1, <2>2, <2>3, <2>4 DEF Next
<1>3. QED
  BY <1>1, <1>2, InitTypeInv, NextKeepsTypeInv, PTL DEF Spec

-----------------------------------------------------------------------------
(* A revoked job is not run by a worker that knows it is revoked *)

(* Taking a message checks the revoked ids, learning of a revoke kills the *)
(* running job, and no other step makes a worker run something else.       *)
THEOREM RevokedJobsAreNotRun == Spec => []RevokedIsNotRun
<1>1. Init => RevokedIsNotRun
  BY DEF Init, RevokedIsNotRun, Running
<1>2. TypeInv /\ RevokedIsNotRun /\ [Next]_vars => RevokedIsNotRun'
  <2> SUFFICES ASSUME TypeInv, RevokedIsNotRun, [Next]_vars PROVE RevokedIsNotRun'
    OBVIOUS
  <2> USE DEF TypeInv, TypeOK, RevokedIsNotRun, Running, Goto, Release, apiVars, brokerVars,
              workerVars, envVars, history
  <2>1. CASE \E j \in Jobs : Api(j) \/ Expire(j)
    BY <2>1 DEF Api, SubmitRecord, SubmitEnqueue, SubmitEnqueueFails, SubmitRefuse, SubmitCrash,
                CancelRead, CancelCheck, CancelRevoke, CancelRecord, Expire
  <2>2. ASSUME NEW w \in Workers, Work(w) PROVE RevokedIsNotRun'
    BY <2>2 DEF Work, Take, Discard, Begin, RunItem, Progress, RecordOutcome, PostCallback,
                Return, Ack
  <2>3. ASSUME NEW w \in Workers, Mishap(w) PROVE RevokedIsNotRun'
    BY <2>3 DEF Mishap, SoftLimit, SoftLimitInRecord, Escape, HardLimit, Crash
  <2>4. ASSUME NEW w \in Workers, NEW j \in Jobs, ReceiveRevoke(w, j) PROVE RevokedIsNotRun'
    BY <2>4 DEF ReceiveRevoke, Terminates
  <2>5. CASE Environment \/ UNCHANGED vars
    BY <2>5 DEF Environment, Outage, DbRecovers, Ping, vars
  <2>6. QED
    BY <2>1, <2>2, <2>3, <2>4, <2>5 DEF Next
<1>3. QED
  BY <1>1, <1>2, InitTypeInv, NextKeepsTypeInv, PTL DEF Spec

-----------------------------------------------------------------------------
(* No truncated result looks whole *)

(* A worker past its loop counted every item or has a failed one.          *)
PastLoopCounted ==
  \A w \in Workers :
    pc[w] \in {"record", "callback", "return"} =>
      completed[w] + failed[w] = Items \/ failed[w] > 0

TruncationInv == NoSilentTruncation /\ PastLoopCounted

LEMMA StoredOtherThanSuccess ==
  ASSUME TypeInv, NoSilentTruncation, NEW j \in Jobs, NEW s, s # "SUCCESS", NEW c, NEW f,
         StoreResult(j, s, c, f)
  PROVE  NoSilentTruncation'
BY DEF TypeInv, TypeOK, StoreResult, NoSilentTruncation

(* Leaving the loop early costs the interrupted item a failure, so a       *)
(* result without failures covers every item of the job.                   *)
THEOREM TruncationIsVisible == Spec => []NoSilentTruncation
<1>1. Init => TruncationInv
  BY DEF Init, TruncationInv, NoSilentTruncation, PastLoopCounted
<1>2. TypeInv /\ TruncationInv /\ [Next]_vars => TruncationInv'
  <2> SUFFICES ASSUME TypeInv, TruncationInv, [Next]_vars PROVE TruncationInv'
    OBVIOUS
  <2> USE DEF TypeInv, TypeOK, BusyHasJob, TruncationInv, Goto, Release, Counts,
              apiVars, brokerVars, workerVars, envVars, history
  <2>1. ASSUME NEW j \in Jobs, Api(j) \/ Expire(j) PROVE TruncationInv'
    <3>1. CASE Api(j)
      <4>1. UNCHANGED <<result, pc, completed, failed>>
        BY <3>1 DEF Api, SubmitRecord, SubmitEnqueue, SubmitEnqueueFails, SubmitRefuse,
                    SubmitCrash, CancelRead, CancelCheck, CancelRevoke, CancelRecord
      <4>2. QED
        BY <4>1 DEF NoSilentTruncation, PastLoopCounted
    <3>2. CASE Expire(j)
      BY <3>2 DEF Expire, NoSilentTruncation, PastLoopCounted
    <3>3. QED
      BY <2>1, <3>1, <3>2
  <2>2. ASSUME NEW w \in Workers, Work(w) PROVE TruncationInv'
    <3>1. PastLoopCounted'
      BY <2>2 DEF Work, Take, Discard, Begin, RunItem, Progress, LoopDone, RecordOutcome,
                  PostCallback, Return, Ack, PastLoopCounted
    <3>2. NoSilentTruncation'
      <4>1. CASE Take(w) \/ Discard(w)
        BY <2>2, <4>1, StoredOtherThanSuccess DEF Take, Discard, Message
      <4>2. CASE Progress(w)
        BY <4>2, StoredOtherThanSuccess DEF Progress
      <4>3. CASE Return(w)
        BY <4>3 DEF Return, StoreResult, NoSilentTruncation, PastLoopCounted
      <4>4. CASE Begin(w) \/ RunItem(w) \/ RecordOutcome(w) \/ PostCallback(w) \/ Ack(w)
        BY <4>4 DEF Begin, RunItem, RecordOutcome, PostCallback, Ack, NoSilentTruncation
      <4>5. QED
        BY <2>2, <4>1, <4>2, <4>3, <4>4 DEF Work
    <3>3. QED
      BY <3>1, <3>2
  <2>3. ASSUME NEW w \in Workers, Mishap(w) PROVE TruncationInv'
    <3>1. PastLoopCounted'
      BY <2>3 DEF Mishap, SoftLimit, TimedOut, SoftLimitInRecord, Escape, HardLimit, Crash,
                  PastLoopCounted
    <3>2. NoSilentTruncation'
      <4>1. CASE Escape(w) \/ HardLimit(w)
        BY <4>1, StoredOtherThanSuccess DEF Escape, HardLimit, Running
      <4>2. CASE SoftLimit(w) \/ SoftLimitInRecord(w) \/ Crash(w)
        BY <4>2 DEF SoftLimit, SoftLimitInRecord, Crash, NoSilentTruncation
      <4>3. QED
        BY <2>3, <4>1, <4>2 DEF Mishap
    <3>3. QED
      BY <3>1, <3>2
  <2>4. ASSUME NEW w \in Workers, NEW j \in Jobs, ReceiveRevoke(w, j) PROVE TruncationInv'
    <3>1. CASE Terminates(w, j)
      BY <2>4, <3>1, StoredOtherThanSuccess DEF ReceiveRevoke, PastLoopCounted
    <3>2. CASE ~Terminates(w, j)
      BY <2>4, <3>2 DEF ReceiveRevoke, PastLoopCounted, NoSilentTruncation
    <3>3. QED
      BY <3>1, <3>2
  <2>5. CASE Environment \/ UNCHANGED vars
    BY <2>5 DEF Environment, Outage, DbRecovers, Ping, vars, NoSilentTruncation, PastLoopCounted
  <2>6. QED
    BY <2>1, <2>2, <2>3, <2>4, <2>5 DEF Next
<1>3. QED
  BY <1>1, <1>2, InitTypeInv, NextKeepsTypeInv, PTL DEF Spec, TruncationInv

-----------------------------------------------------------------------------
(* One copy of a job at a time *)

Runs(w, j) == Running(w) /\ job[w] = j

(* A job that is not queued yet has left no trace but its row.             *)
Fresh(j) ==
  submit[j] \in {"idle", "enqueue"} =>
    /\ row[j].status \in {"none", "pending"} /\ cancel[j] = "idle"
    /\ result[j].state = "PENDING"
    /\ ~ HasMessage(j) /\ \A w \in Workers : job[w] # j

OneCopy(j) ==
  /\ \A m, n \in ready : m.job = j /\ n.job = j => m = n
  /\ \A v, w \in Workers : Runs(v, j) /\ Runs(w, j) => v = w
  /\ \A m \in ready, w \in Workers : m.job = j => ~ Runs(w, j)

(* A job with a result is not run again.                                   *)
Over(j) ==
  result[j].state = "SUCCESS" => ~ HasMessage(j) /\ \A w \in Workers : ~ Runs(w, j)

(* A row that calls the job finished has the counts of the one run of it.  *)
RowTells(j) ==
  submit[j] = "accepted" /\ row[j].status \in {"completed", "failed"} =>
    /\ ~ HasMessage(j)
    /\ \A w \in Workers : Runs(w, j) =>
         /\ pc[w] \in {"callback", "return"}
         /\ row[j].completed = completed[w] /\ row[j].failed = failed[w]
    /\ result[j].state = "SUCCESS" =>
         /\ row[j].completed = result[j].completed
         /\ row[j].failed = result[j].failed

(* The faults of LifecycleIsFollowed.                                      *)
Smooth == {"apicrash", "escape", "softlimit", "hardlimit"}

Orderly(j) ==
  /\ submit[j] \notin {"refusing", "refused"}
  /\ cancel[j] = "idle"
  /\ result[j].state \notin {"REVOKED", "EXPIRED"}
  /\ HasMessage(j) => result[j].state \in {"PENDING", "RETRY"}
  /\ \A w \in Workers : Runs(w, j) => result[j].state \in {"STARTED", "PROGRESS"}
  /\ result[j].state = "PENDING" =>
       row[j].status = IF submit[j] = "idle" THEN "none" ELSE "pending"

JobInv(j) ==
  /\ Fresh(j)
  /\ "crash" \notin struck => OneCopy(j) /\ Over(j) /\ RowTells(j)
  /\ struck \subseteq Smooth => Orderly(j)

(* Without an outage, a cancellation or a crash.                           *)
Calm ==
  struck \subseteq Smooth =>
    /\ dbUp /\ available /\ control = {}
    /\ \A w \in Workers : revoked[w] = {}

RunInv == TypeInv /\ Calm /\ \A j \in Jobs : JobInv(j)

-----------------------------------------------------------------------------
(* A step that does not concern a job.                                     *)
Apart(j) ==
  /\ \A m \in ready' : m.job = j => m \in ready
  /\ \A w \in Workers :
       /\ job'[w] = j => job[w] = j
       /\ job'[w] = j => /\ pc'[w] = pc[w]
                         /\ completed'[w] = completed[w] /\ failed'[w] = failed[w]
  /\ result'[j] = result[j] /\ row'[j] = row[j] /\ submit'[j] = submit[j]
  /\ cancel'[j] = cancel[j]

LEMMA ApartKeeps ==
  ASSUME NEW j \in Jobs, JobInv(j), Apart(j), struck \subseteq struck'
  PROVE  JobInv(j)'
<1>1. HasMessage(j)' => HasMessage(j)
  BY DEF HasMessage, Apart
<1>2. \A w \in Workers : Runs(w, j)' => Runs(w, j) /\ pc'[w] = pc[w]
        /\ completed'[w] = completed[w] /\ failed'[w] = failed[w]
  BY DEF Runs, Running, Apart
<1>3. Fresh(j)'
  BY <1>1 DEF JobInv, Fresh, Apart
<1>4. OneCopy(j) => OneCopy(j)'
  BY <1>2 DEF OneCopy, Apart
<1>5. Over(j) => Over(j)'
  BY <1>1, <1>2 DEF Over, Apart
<1>6. RowTells(j) => RowTells(j)'
  BY <1>1, <1>2 DEF RowTells, Apart
<1>7. Orderly(j) => Orderly(j)'
  BY <1>1, <1>2 DEF Orderly, Apart
<1> QED BY <1>3, <1>4, <1>5, <1>6, <1>7 DEF JobInv

(* What happens to the one job a handler is about.                         *)
LEMMA RecordKeeps ==
  ASSUME TypeInv, NEW j \in Jobs, JobInv(j), Calm, SubmitRecord(j) PROVE JobInv(j)'
<1>1. /\ submit[j] = "idle" /\ submit'[j] = "enqueue"
      /\ UNCHANGED <<cancel, result, ready, pc, job, completed, failed, struck>>
  BY DEF SubmitRecord, TypeInv, TypeOK, apiVars, brokerVars, workerVars, envVars, history
<1>2. row'[j].status = "pending" \/ (row' = row /\ ~ ApiReachesDb)
  BY DEF SubmitRecord, TypeInv, TypeOK
<1>3. Fresh(j)' /\ OneCopy(j)' /\ Over(j)' /\ RowTells(j)'
  BY <1>1, <1>2 DEF JobInv, Fresh, OneCopy, Over, RowTells, HasMessage, Runs, Running
<1>4. struck \subseteq Smooth => Orderly(j)'
  BY <1>1, <1>2 DEF JobInv, Calm, ApiReachesDb, Orderly, HasMessage, Runs, Running
<1> QED BY <1>1, <1>3, <1>4 DEF JobInv

(* The message queued, with or without the handler knowing.                *)
LEMMA EnqueueKeeps ==
  ASSUME TypeInv, NEW j \in Jobs, JobInv(j),
         SubmitEnqueue(j) \/ SubmitEnqueueFails(j)
  PROVE  JobInv(j)'
<1> DEFINE m == [job |-> j, attempt |-> 0]
<1>1. /\ submit[j] = "enqueue" /\ submit'[j] \in {"accepted", "refusing"}
      /\ UNCHANGED <<cancel, row, result, pc, job, completed, failed>>
      /\ ready' \in {ready, ready \cup {m}}
      /\ \/ submit'[j] = "accepted" /\ struck' = struck
         \/ struck' = struck \cup {"broker"}
  BY DEF SubmitEnqueue, SubmitEnqueueFails, Fault, Struck, TypeInv, TypeOK, brokerVars,
         workerVars, envVars, history
<1>2. m.job = j
  OBVIOUS
<1> HIDE DEF m
<1>3. Fresh(j)' /\ OneCopy(j)' /\ Over(j)' /\ RowTells(j)'
  BY <1>1, <1>2 DEF JobInv, Fresh, OneCopy, Over, RowTells, HasMessage, Runs, Running
<1>4. struck' \subseteq Smooth => Orderly(j)'
  <2> SUFFICES ASSUME struck' \subseteq Smooth PROVE Orderly(j)'
    OBVIOUS
  <2>1. submit'[j] = "accepted" /\ struck' = struck
    BY <1>1 DEF Smooth
  <2> QED BY <1>1, <2>1 DEF JobInv, Fresh, Orderly, Runs, Running
<1> QED BY <1>3, <1>4 DEF JobInv

(* A submission that is refused, or whose handler dies, is never accepted. *)
LEMMA RefuseKeeps ==
  ASSUME TypeInv, NEW j \in Jobs, JobInv(j), SubmitRefuse(j) \/ SubmitCrash(j)
  PROVE  JobInv(j)'
<1>1. /\ submit[j] \in {"enqueue", "refusing"} /\ submit'[j] \in {"refused", "crashed"}
      /\ UNCHANGED <<cancel, result, ready, pc, job, completed, failed>>
      /\ \/ submit[j] = "refusing"
         \/ submit'[j] = "crashed" /\ row' = row
      /\ struck \subseteq struck'
      /\ "crash" \in struck' => "crash" \in struck
  BY DEF SubmitRefuse, SubmitCrash, Fault, Struck, TypeInv, TypeOK, brokerVars, workerVars,
         envVars, history
<1>2. Fresh(j)' /\ RowTells(j)'
  BY <1>1 DEF Fresh, RowTells
<1>3. "crash" \notin struck' => OneCopy(j)' /\ Over(j)'
  BY <1>1 DEF JobInv, OneCopy, Over, HasMessage, Runs, Running
<1>4. struck' \subseteq Smooth => Orderly(j)'
  <2> SUFFICES ASSUME struck' \subseteq Smooth PROVE Orderly(j)'
    OBVIOUS
  <2>1. Orderly(j)
    BY <1>1 DEF JobInv
  <2>2. submit[j] = "enqueue" /\ submit'[j] = "crashed" /\ row' = row
    BY <1>1, <2>1 DEF Orderly
  <2> QED BY <1>1, <2>1, <2>2 DEF Orderly, HasMessage, Runs, Running
<1> QED BY <1>2, <1>3, <1>4 DEF JobInv

LEMMA CancelKeeps ==
  ASSUME TypeInv, NEW j \in Jobs, JobInv(j),
         CancelRead(j) \/ CancelCheck(j) \/ CancelRevoke(j) \/ CancelRecord(j)
  PROVE  JobInv(j)'
<1>1. UNCHANGED <<submit, result, ready, pc, job, completed, failed>>
  BY DEF CancelRead, CancelCheck, CancelRevoke, CancelRecord, apiVars, brokerVars,
         workerVars, envVars, history
<1>2. \/ submit[j] = "accepted" /\ row' = row /\ struck' = struck \cup {"cancel"}
      \/ /\ cancel[j] # "idle" /\ struck' = struck
         /\ row' = row \/ row'[j].status = "cancelled"
  <2>1. CASE CancelRead(j)
    BY <2>1 DEF CancelRead, Struck
  <2>2. CASE CancelCheck(j) \/ CancelRevoke(j)
    BY <2>2 DEF CancelCheck, CancelRevoke, envVars, history
  <2>3. CASE CancelRecord(j)
    <3>1. cancel[j] # "idle" /\ struck' = struck
      BY <2>3 DEF CancelRecord, envVars, history
    <3>2. row' = row \/ row' = [row EXCEPT ![j] = [row[j] EXCEPT !.status = "cancelled"]]
      BY <2>3 DEF CancelRecord, UpdateRow
    <3>3. row' = row \/ row'[j].status = "cancelled"
      BY <3>2 DEF TypeInv, TypeOK
    <3> QED BY <3>1, <3>3
  <2> QED BY <2>1, <2>2, <2>3
<1>3. Fresh(j)'
  <2>1. submit[j] \notin {"idle", "enqueue"}
    BY <1>2 DEF JobInv, Fresh
  <2> QED BY <1>1, <2>1 DEF Fresh
<1>4. ~ (struck' \subseteq Smooth)
  <2>1. CASE struck' = struck \cup {"cancel"}
    BY <2>1 DEF Smooth
  <2>2. CASE cancel[j] # "idle" /\ struck' = struck
    BY <2>2 DEF JobInv, Orderly
  <2> QED BY <1>2, <2>1, <2>2
<1>5. "crash" \notin struck' => "crash" \notin struck
  BY <1>2
<1>6. OneCopy(j) /\ Over(j) /\ RowTells(j) => OneCopy(j)' /\ Over(j)' /\ RowTells(j)'
  BY <1>1, <1>2 DEF OneCopy, Over, RowTells, HasMessage, Runs, Running
<1> QED BY <1>3, <1>4, <1>5, <1>6 DEF JobInv

LEMMA ExpireKeeps ==
  ASSUME TypeInv, NEW j \in Jobs, JobInv(j), Expire(j) PROVE JobInv(j)'
<1>1. /\ UNCHANGED <<submit, cancel, row, ready, pc, job, completed, failed>>
      /\ result[j].state # "PENDING" /\ result'[j].state = "EXPIRED"
      /\ struck' = struck \cup {"expire"}
  BY DEF Expire, Struck, Settled, TypeInv, TypeOK, apiVars, brokerVars, workerVars
<1>2. ~ (struck' \subseteq Smooth)
  BY <1>1 DEF Smooth
<1> QED BY <1>1, <1>2
        DEF JobInv, Fresh, OneCopy, Over, RowTells, HasMessage, Runs, Running

LEMMA ApiIsApart ==
  ASSUME TypeInv, NEW i \in Jobs, Api(i) \/ Expire(i), NEW j \in Jobs \ {i}
  PROVE  Apart(j)
<1> USE DEF TypeInv, TypeOK, apiVars, brokerVars, workerVars, envVars, history, Apart
<1>1. CASE SubmitRecord(i)
  BY <1>1 DEF SubmitRecord
<1>2. CASE SubmitEnqueue(i)
  BY <1>2 DEF SubmitEnqueue
<1>3. CASE SubmitEnqueueFails(i)
  BY <1>3 DEF SubmitEnqueueFails
<1>4. CASE SubmitRefuse(i)
  BY <1>4 DEF SubmitRefuse, UpdateRow
<1>5. CASE SubmitCrash(i)
  BY <1>5 DEF SubmitCrash
<1>6. CASE CancelRead(i) \/ CancelCheck(i) \/ CancelRevoke(i)
  BY <1>6 DEF CancelRead, CancelCheck, CancelRevoke
<1>7. CASE CancelRecord(i)
  BY <1>7 DEF CancelRecord, UpdateRow
<1>8. CASE Expire(i)
  BY <1>8 DEF Expire
<1> QED BY <1>1, <1>2, <1>3, <1>4, <1>5, <1>6, <1>7, <1>8 DEF Api

-----------------------------------------------------------------------------
(* The workers. *)

(* A running worker goes on with its job.                                  *)
LEMMA StayKeeps ==
  ASSUME TypeInv, NEW w \in Workers, NEW j \in Jobs, Runs(w, j), JobInv(j),
         UNCHANGED <<submit, cancel, ready, job>>,
         \A v \in Workers \ {w} :
           pc'[v] = pc[v] /\ completed'[v] = completed[v] /\ failed'[v] = failed[v],
         struck' \in {struck, struck \cup {"softlimit"}},
         result'[j] = result[j] \/ result'[j].state = "PROGRESS",
         \/ pc[w] \notin {"callback", "return"}
         \/ /\ pc'[w] \in {"callback", "return"}
            /\ completed'[w] = completed[w] /\ failed'[w] = failed[w],
         \/ row'[j] = row[j] \/ row'[j].status = "running"
         \/ /\ pc'[w] = "callback"
            /\ row'[j].completed = completed'[w] /\ row'[j].failed = failed'[w]
  PROVE  JobInv(j)'
<1>1. submit[j] \notin {"idle", "enqueue"}
  BY DEF JobInv, Fresh, Runs
<1>2. "crash" \notin struck' => "crash" \notin struck
  OBVIOUS
<1>3. struck' \subseteq Smooth => struck \subseteq Smooth /\ "crash" \notin struck
  BY DEF Smooth
<1>4. \A v \in Workers \ {w} : Runs(v, j)' => Runs(v, j)
  BY DEF Runs, Running
<1>5. ASSUME OneCopy(j), Over(j), RowTells(j)
      PROVE  OneCopy(j)' /\ Over(j)' /\ RowTells(j)'
  <2>1. ~ HasMessage(j) /\ result[j].state # "SUCCESS" /\ \A v \in Workers \ {w} : ~ Runs(v, j)'
    BY <1>4, <1>5 DEF OneCopy, Over, HasMessage
  <2>2. ~ HasMessage(j)' /\ result'[j].state # "SUCCESS"
    BY <2>1 DEF HasMessage
  <2>3. OneCopy(j)' /\ Over(j)'
    BY <2>1, <2>2 DEF OneCopy, Over, HasMessage
  <2>4. ASSUME submit[j] = "accepted", row'[j].status \in {"completed", "failed"}
        PROVE  /\ pc'[w] \in {"callback", "return"}
               /\ row'[j].completed = completed'[w] /\ row'[j].failed = failed'[w]
    BY <1>5, <2>4 DEF RowTells
  <2> QED BY <2>1, <2>2, <2>3, <2>4 DEF RowTells
<1>6. ASSUME OneCopy(j), Orderly(j) PROVE Orderly(j)'
  <2>1. ~ HasMessage(j)'
    BY <1>6 DEF OneCopy, HasMessage
  <2>2. result[j].state \in {"STARTED", "PROGRESS"} /\ result'[j].state \in {"STARTED", "PROGRESS"}
    BY <1>6 DEF Orderly
  <2> QED BY <1>6, <2>1, <2>2 DEF Orderly
<1> QED BY <1>1, <1>2, <1>3, <1>5, <1>6 DEF JobInv, Fresh

(* A worker that starts a job.                                             *)
LEMMA TakeKeeps ==
  ASSUME TypeInv, NEW w \in Workers, pc[w] = "idle", NEW m \in ready, m.job \in Jobs,
         JobInv(m.job),
         ready' = ready \ {m}, job' = [job EXCEPT ![w] = m.job],
         pc' = [pc EXCEPT ![w] = "started"],
         StoreResult(m.job, "STARTED", 0, 0),
         UNCHANGED <<submit, cancel, row, completed, failed, struck>>
  PROVE  JobInv(m.job)'
<1> DEFINE j == m.job
<1>1. submit[j] \notin {"idle", "enqueue"} /\ HasMessage(j)
  BY DEF JobInv, Fresh, HasMessage
<1>2. result[j].state # "SUCCESS" => result'[j].state = "STARTED"
  BY DEF StoreResult, TypeInv, TypeOK
<1>3. /\ \A v \in Workers \ {w} : Runs(v, j)' <=> Runs(v, j)
      /\ Runs(w, j)' /\ pc'[w] = "started"
  BY DEF Runs, Running, TypeInv, TypeOK
<1>4. ASSUME OneCopy(j) PROVE ~ HasMessage(j)' /\ \A v \in Workers \ {w} : ~ Runs(v, j)'
  BY <1>3, <1>4 DEF OneCopy, HasMessage
<1>5. ASSUME OneCopy(j), Over(j), RowTells(j)
      PROVE  OneCopy(j)' /\ Over(j)' /\ RowTells(j)'
  <2>1. result'[j].state = "STARTED"
    BY <1>1, <1>2, <1>5 DEF Over
  <2>2. OneCopy(j)'
    BY <1>3, <1>4, <1>5 DEF OneCopy, HasMessage
  <2>3. ~ (submit[j] = "accepted" /\ row[j].status \in {"completed", "failed"})
    BY <1>1, <1>5 DEF RowTells
  <2> QED BY <2>1, <2>2, <2>3 DEF Over, RowTells
<1>6. ASSUME OneCopy(j), Over(j), Orderly(j) PROVE Orderly(j)'
  <2>1. result'[j].state = "STARTED"
    BY <1>1, <1>2, <1>6 DEF Over
  <2> QED BY <1>1, <1>4, <1>6, <2>1 DEF Orderly
<1>7. struck \subseteq Smooth => "crash" \notin struck
  BY DEF Smooth
<1>8. Fresh(j)'
  BY <1>1 DEF Fresh
<1> HIDE DEF j
<1>9. JobInv(j)'
  BY <1>5, <1>6, <1>7, <1>8 DEF JobInv, j
<1> QED BY <1>9 DEF j

(* A worker stops running its job: the job is over, or queued again.       *)
LEMMA LeaveKeeps ==
  ASSUME TypeInv, NEW w \in Workers, NEW j \in Jobs, Runs(w, j), JobInv(j),
         UNCHANGED <<submit, cancel, row>>,
         ~ Runs(w, j)', \A v \in Workers \ {w} : Runs(v, j)' => Runs(v, j),
         struck \subseteq struck', "REVOKED" = result'[j].state => ~ (struck' \subseteq Smooth),
         result[j].state # "SUCCESS" =>
           \/ /\ ready' = ready /\ result'[j].state \in {"FAILURE", "REVOKED"}
           \/ /\ ready' = ready /\ result'[j].state = "SUCCESS" /\ pc[w] = "return"
              /\ result'[j].completed = completed[w] /\ result'[j].failed = failed[w]
           \/ /\ result'[j].state = "RETRY" /\ pc[w] \notin {"callback", "return"}
              /\ \E m : ready' = ready \cup {m}
  PROVE  JobInv(j)'
<1>1. submit[j] \notin {"idle", "enqueue"}
  BY DEF JobInv, Fresh, Runs
<1>2. ASSUME OneCopy(j), Over(j)
      PROVE  /\ ~ HasMessage(j) /\ result[j].state # "SUCCESS"
             /\ \A v \in Workers : ~ Runs(v, j)'
  BY <1>2 DEF OneCopy, Over, HasMessage
<1>3. ASSUME OneCopy(j), Over(j), RowTells(j)
      PROVE  OneCopy(j)' /\ Over(j)' /\ RowTells(j)'
  <2>1. CASE ready' = ready /\ result'[j].state \in {"FAILURE", "REVOKED"}
    <3>1. ~ HasMessage(j)'
      BY <1>2, <1>3, <2>1 DEF HasMessage
    <3> QED BY <1>2, <1>3, <2>1, <3>1 DEF OneCopy, Over, RowTells, HasMessage
  <2>2. CASE /\ ready' = ready /\ result'[j].state = "SUCCESS" /\ pc[w] = "return"
             /\ result'[j].completed = completed[w] /\ result'[j].failed = failed[w]
    <3>1. ~ HasMessage(j)'
      BY <1>2, <1>3, <2>2 DEF HasMessage
    <3> QED BY <1>2, <1>3, <2>2, <3>1 DEF OneCopy, Over, RowTells, HasMessage
  <2>3. CASE /\ result'[j].state = "RETRY" /\ pc[w] \notin {"callback", "return"}
             /\ \E m : ready' = ready \cup {m}
    <3>1. PICK m : ready' = ready \cup {m}
      BY <2>3
    <3>2. \A n \in ready' : n.job = j => n = m
      BY <1>2, <1>3, <3>1 DEF HasMessage
    <3> QED BY <1>2, <1>3, <2>3, <3>2 DEF OneCopy, Over, RowTells
  <2> QED BY <1>2, <1>3, <2>1, <2>2, <2>3
<1>4. ASSUME OneCopy(j), Over(j), Orderly(j), struck' \subseteq Smooth PROVE Orderly(j)'
  <2>1. HasMessage(j)' => result'[j].state = "RETRY"
    BY <1>2, <1>4 DEF HasMessage
  <2>2. result'[j].state \notin {"PENDING", "REVOKED", "EXPIRED"}
    BY <1>2, <1>4
  <2> QED BY <1>2, <1>4, <2>1, <2>2 DEF Orderly
<1>5. struck' \subseteq Smooth => struck \subseteq Smooth /\ "crash" \notin struck
  BY DEF Smooth
<1>6. Fresh(j)'
  BY <1>1 DEF Fresh
<1> QED BY <1>3, <1>4, <1>5, <1>6 DEF JobInv

(* After a crash only what Fresh says is claimed.                          *)
LEMMA CrashKeeps ==
  ASSUME TypeInv, NEW j \in Jobs, JobInv(j), "crash" \in struck',
         submit[j] \notin {"idle", "enqueue"}, UNCHANGED submit
  PROVE  JobInv(j)'
<1>1. ~ (struck' \subseteq Smooth)
  BY DEF Smooth
<1> QED BY <1>1 DEF JobInv, Fresh

(* The steps of a worker that moves on within its job.                     *)
LEMMA WithinJob ==
  ASSUME TypeInv, NEW w \in Workers,
         \/ Begin(w) \/ RunItem(w) \/ Progress(w) \/ RecordOutcome(w) \/ PostCallback(w)
         \/ SoftLimit(w) \/ SoftLimitInRecord(w)
  PROVE  /\ pc[w] # "idle" /\ Running(w) /\ job[w] \in Jobs
         /\ UNCHANGED <<submit, cancel, ready, job>>
         /\ \A v \in Workers \ {w} :
              pc'[v] = pc[v] /\ completed'[v] = completed[v] /\ failed'[v] = failed[v]
         /\ struck' \in {struck, struck \cup {"softlimit"}}
<1> USE DEF TypeInv, TypeOK, BusyHasJob, Running, Goto, apiVars, brokerVars, workerVars,
            envVars, history
<1>1. CASE Begin(w) \/ Progress(w) \/ RecordOutcome(w) \/ PostCallback(w)
  BY <1>1 DEF Begin, Progress, RecordOutcome, PostCallback
<1>2. CASE RunItem(w)
  BY <1>2 DEF RunItem
<1>3. CASE SoftLimit(w)
  BY <1>3 DEF SoftLimit, TimedOut, Fault, Struck
<1>4. CASE SoftLimitInRecord(w)
  BY <1>4 DEF SoftLimitInRecord, Fault, Struck
<1> QED BY <1>1, <1>2, <1>3, <1>4

LEMMA WithinJobKeeps ==
  ASSUME TypeInv, NEW w \in Workers, NEW j \in Jobs, job[w] = j, JobInv(j),
         \/ Begin(w) \/ RunItem(w) \/ Progress(w) \/ RecordOutcome(w) \/ PostCallback(w)
         \/ SoftLimit(w) \/ SoftLimitInRecord(w)
  PROVE  JobInv(j)'
<1>0. j \in Jobs /\ Runs(w, j) /\ job'[w] = j
  BY WithinJob DEF Runs
<1> USE DEF TypeInv, TypeOK, Goto
<1>1. result'[j] = result[j] \/ result'[j].state = "PROGRESS"
  BY <1>0 DEF Begin, RunItem, Progress, RecordOutcome, PostCallback, SoftLimit,
     SoftLimitInRecord, StoreResult
<1>2. \/ pc[w] \notin {"callback", "return"}
      \/ /\ pc'[w] \in {"callback", "return"}
         /\ completed'[w] = completed[w] /\ failed'[w] = failed[w]
  BY DEF Begin, RunItem, Progress, RecordOutcome, PostCallback, SoftLimit, SoftLimitInRecord
<1>3. \/ row'[j] = row[j] \/ row'[j].status = "running"
      \/ /\ pc'[w] = "callback"
         /\ row'[j].completed = completed'[w] /\ row'[j].failed = failed'[w]
  <2>1. CASE Begin(w)
    BY <1>0, <2>1 DEF Begin, UpdateRow
  <2>2. CASE RecordOutcome(w)
    BY <1>0, <2>2 DEF RecordOutcome, UpdateRow, Outcome
  <2>3. CASE ~ Begin(w) /\ ~ RecordOutcome(w)
    BY <2>3 DEF RunItem, Progress, PostCallback, SoftLimit, SoftLimitInRecord
  <2> QED BY <2>1, <2>2, <2>3
<1>4. /\ UNCHANGED <<submit, cancel, ready, job>>
      /\ \A v \in Workers \ {w} :
           pc'[v] = pc[v] /\ completed'[v] = completed[v] /\ failed'[v] = failed[v]
      /\ struck' \in {struck, struck \cup {"softlimit"}}
  BY WithinJob
<1> QED BY ONLY TypeInv, JobInv(j), w \in Workers, j \in Jobs, <1>0, <1>1, <1>2, <1>3, <1>4, StayKeeps

(* What a worker does to its own job leaves the others apart.              *)
LEMMA WithinJobIsApart ==
  ASSUME TypeInv, NEW w \in Workers,
         \/ Begin(w) \/ RunItem(w) \/ Progress(w) \/ RecordOutcome(w) \/ PostCallback(w)
         \/ SoftLimit(w) \/ SoftLimitInRecord(w),
         NEW j \in Jobs, job[w] # j
  PROVE  Apart(j)
<1>1. /\ job[w] \in Jobs /\ UNCHANGED <<submit, cancel, ready, job>>
      /\ \A v \in Workers \ {w} :
           pc'[v] = pc[v] /\ completed'[v] = completed[v] /\ failed'[v] = failed[v]
  BY WithinJob
<1>2. result'[j] = result[j]
  BY <1>1 DEF Begin, RunItem, Progress, RecordOutcome, PostCallback, SoftLimit,
     SoftLimitInRecord, StoreResult, TypeInv, TypeOK
<1>3. row'[j] = row[j]
  BY <1>1 DEF Begin, RunItem, Progress, RecordOutcome, PostCallback, SoftLimit,
     SoftLimitInRecord, UpdateRow, TypeInv, TypeOK
<1> QED BY <1>1, <1>2, <1>3 DEF Apart

LEMMA TakeStep ==
  ASSUME RunInv, NEW w \in Workers, Take(w)
  PROVE  \A j \in Jobs : JobInv(j)'
<1>1. PICK m \in ready :
        /\ ready' = ready \ {m} /\ job' = [job EXCEPT ![w] = m.job]
        /\ StoreResult(m.job, "STARTED", 0, 0)
  BY DEF Take
<1>2. /\ pc[w] = "idle" /\ pc' = [pc EXCEPT ![w] = "started"]
      /\ UNCHANGED <<submit, cancel, row, completed, failed, struck>>
  BY DEF Take, Goto, apiVars, envVars, history
<1>3. TypeInv /\ m.job \in Jobs
  BY DEF RunInv, TypeInv, TypeOK, Message
<1>4. JobInv(m.job)'
  BY <1>1, <1>2, <1>3, TakeKeeps DEF RunInv
<1>5. ASSUME NEW j \in Jobs, j # m.job PROVE JobInv(j)'
  <2>1. Apart(j)
    BY <1>1, <1>2, <1>3, <1>5 DEF Apart, StoreResult, TypeInv, TypeOK
  <2> QED BY <1>2, <2>1, ApartKeeps DEF RunInv
<1> QED BY <1>4, <1>5

(* A message that is dropped was the only copy.                            *)
LEMMA DiscardStep ==
  ASSUME RunInv, NEW w \in Workers, Discard(w)
  PROVE  \A j \in Jobs : JobInv(j)'
<1>1. PICK m \in ready :
        /\ m.job \in revoked[w] /\ ready' = ready \ {m}
        /\ StoreResult(m.job, "REVOKED", 0, 0)
  BY DEF Discard
<1>2. UNCHANGED <<submit, cancel, row, pc, job, completed, failed, struck>>
  BY DEF Discard, apiVars, workerVars, envVars, history
<1>3. TypeInv /\ m.job \in Jobs
  BY DEF RunInv, TypeInv, TypeOK, Message
<1>4. ~ (struck \subseteq Smooth)
  BY <1>1 DEF RunInv, Calm
<1>5. HasMessage(m.job) /\ (result[m.job].state # "SUCCESS" => result'[m.job].state = "REVOKED")
  BY <1>1, <1>3 DEF HasMessage, StoreResult, TypeInv, TypeOK
<1>6. JobInv(m.job)
  BY <1>3 DEF RunInv
<1>7. JobInv(m.job)'
  <2>1. Fresh(m.job)'
    BY <1>2, <1>5, <1>6 DEF JobInv, Fresh
  <2>2. ASSUME OneCopy(m.job), Over(m.job), RowTells(m.job)
        PROVE  OneCopy(m.job)' /\ Over(m.job)' /\ RowTells(m.job)'
    <3>1. result'[m.job].state = "REVOKED"
      BY <1>5, <2>2 DEF Over
    <3>2. ~ (submit[m.job] = "accepted" /\ row[m.job].status \in {"completed", "failed"})
      BY <1>5, <2>2 DEF RowTells
    <3>3. OneCopy(m.job)'
      BY <1>1, <1>2, <2>2 DEF OneCopy, Runs, Running
    <3> QED BY <1>2, <3>1, <3>2, <3>3 DEF Over, RowTells
  <2> QED BY <1>2, <1>4, <1>6, <2>1, <2>2 DEF JobInv
<1>8. ASSUME NEW j \in Jobs, j # m.job PROVE JobInv(j)'
  <2>1. Apart(j)
    BY <1>1, <1>2, <1>3, <1>8 DEF Apart, StoreResult, TypeInv, TypeOK
  <2> QED BY <1>2, <2>1, ApartKeeps DEF RunInv
<1> QED BY <1>7, <1>8

(* A worker lets go of its job. *)
LEMMA ReturnStep ==
  ASSUME RunInv, NEW w \in Workers, Return(w)
  PROVE  \A j \in Jobs : JobInv(j)'
<1> USE DEF TypeInv, TypeOK, BusyHasJob
<1>1. /\ pc[w] = "return" /\ pc' = [pc EXCEPT ![w] = "ack"] /\ job[w] \in Jobs
      /\ StoreResult(job[w], "SUCCESS", completed[w], failed[w])
      /\ UNCHANGED <<submit, cancel, row, ready, job, completed, failed, struck>>
  BY DEF Return, Goto, RunInv, apiVars, brokerVars, envVars, history
<1>2. ASSUME NEW j \in Jobs, j = job[w] PROVE JobInv(j)'
  <2>1. Runs(w, j) /\ ~ Runs(w, j)' /\ \A v \in Workers \ {w} : Runs(v, j)' => Runs(v, j)
    BY <1>1, <1>2 DEF RunInv, Runs, Running
  <2>2. result[j].state # "SUCCESS" =>
          /\ result'[j].state = "SUCCESS"
          /\ result'[j].completed = completed[w] /\ result'[j].failed = failed[w]
    BY <1>1, <1>2 DEF RunInv, StoreResult
  <2>3. result'[j].state # "REVOKED" \/ result'[j] = result[j]
    BY <1>1, <1>2 DEF RunInv, StoreResult
  <2>4. "REVOKED" = result'[j].state => ~ (struck' \subseteq Smooth)
    BY <1>1, <2>3 DEF RunInv, JobInv, Orderly
  <2>5. TypeInv /\ JobInv(j)
    BY DEF RunInv
  <2> QED BY ONLY w \in Workers, j \in Jobs, <1>1, <2>1, <2>2, <2>4, <2>5, LeaveKeeps
<1>3. ASSUME NEW j \in Jobs, j # job[w] PROVE JobInv(j)'
  <2>1. Apart(j)
    BY <1>1, <1>3 DEF RunInv, Apart, StoreResult
  <2> QED BY <1>1, <2>1, ApartKeeps DEF RunInv
<1> QED BY <1>2, <1>3

LEMMA AckStep ==
  ASSUME RunInv, NEW w \in Workers, Ack(w)
  PROVE  \A j \in Jobs : JobInv(j)'
<1> SUFFICES ASSUME NEW j \in Jobs PROVE JobInv(j)'
  OBVIOUS
<1>1. /\ pc' = [pc EXCEPT ![w] = "idle"] /\ job' = [job EXCEPT ![w] = None]
      /\ completed' = [completed EXCEPT ![w] = 0] /\ failed' = [failed EXCEPT ![w] = 0]
      /\ UNCHANGED <<submit, cancel, row, result, ready, struck>>
  BY DEF Ack, Release, apiVars, brokerVars, envVars, history
<1>2. Apart(j)
  BY <1>1, ConstantsAssumption DEF RunInv, TypeInv, TypeOK, Apart
<1> QED BY <1>1, <1>2, ApartKeeps DEF RunInv

(* A release leaves the jobs of the other workers alone.                   *)
LEMMA Released ==
  ASSUME TypeInv, NEW w \in Workers, Release(w), NEW j \in Jobs
  PROVE  /\ ~ Runs(w, j)' /\ job'[w] # j
         /\ \A v \in Workers \ {w} :
              /\ Runs(v, j)' => Runs(v, j)
              /\ job'[v] = job[v] /\ pc'[v] = pc[v]
              /\ completed'[v] = completed[v] /\ failed'[v] = failed[v]
BY ConstantsAssumption DEF Release, TypeInv, TypeOK, Runs, Running

LEMMA HardLimitStep ==
  ASSUME RunInv, NEW w \in Workers, HardLimit(w)
  PROVE  \A j \in Jobs : JobInv(j)'
<1> USE DEF TypeInv, TypeOK, BusyHasJob
<1>0. TypeInv
  BY DEF RunInv
<1>1. /\ Running(w) /\ job[w] \in Jobs /\ StoreResult(job[w], "FAILURE", 0, 0) /\ Release(w)
      /\ UNCHANGED <<submit, cancel, row, ready>> /\ struck' = struck \cup {"hardlimit"}
  BY <1>0 DEF HardLimit, Running, Fault, Struck, apiVars, brokerVars
<1>2. ASSUME NEW j \in Jobs, j = job[w] PROVE JobInv(j)'
  <2>1. Runs(w, j) /\ ~ Runs(w, j)' /\ \A v \in Workers \ {w} : Runs(v, j)' => Runs(v, j)
    BY <1>0, <1>1, <1>2, Released DEF Runs
  <2>2. result[j].state # "SUCCESS" => result'[j].state \in {"FAILURE", "REVOKED"}
    BY <1>0, <1>1, <1>2 DEF StoreResult
  <2>3. result'[j].state # "REVOKED"
    BY <1>0, <1>1, <1>2 DEF StoreResult
  <2>4. JobInv(j) /\ struck \subseteq struck'
    BY <1>1 DEF RunInv
  <2> QED BY ONLY w \in Workers, j \in Jobs, <1>0, <1>1, <2>1, <2>2, <2>3, <2>4, LeaveKeeps
<1>3. ASSUME NEW j \in Jobs, j # job[w] PROVE JobInv(j)'
  <2>1. result'[j] = result[j]
    BY <1>0, <1>1, <1>3 DEF StoreResult
  <2>2. Apart(j)
    BY <1>0, <1>1, <2>1, Released DEF Apart
  <2> QED BY <1>1, <2>2, ApartKeeps DEF RunInv
<1> QED BY <1>2, <1>3

LEMMA EscapeStep ==
  ASSUME RunInv, NEW w \in Workers, Escape(w)
  PROVE  \A j \in Jobs : JobInv(j)'
<1> USE DEF TypeInv, TypeOK, BusyHasJob
<1>0. TypeInv
  BY DEF RunInv
<1>1. /\ pc[w] \notin {"idle", "ack"} /\ job[w] \in Jobs /\ pc' = [pc EXCEPT ![w] = "ack"]
      /\ UNCHANGED <<submit, cancel, row, job, completed, failed>>
      /\ struck' = struck \cup {"escape"}
  BY <1>0 DEF Escape, Running, Goto, Fault, Struck, apiVars
<1>2. \/ ready' = ready /\ StoreResult(job[w], "FAILURE", 0, 0)
      \/ /\ pc[w] \in {"progress", "item"}
         /\ ready' = Requeued(w) /\ StoreResult(job[w], "RETRY", 0, 0)
  BY DEF Escape, Connects
<1>3. ASSUME NEW j \in Jobs, j = job[w] PROVE JobInv(j)'
  <2>1. Runs(w, j) /\ ~ Runs(w, j)' /\ \A v \in Workers \ {w} : Runs(v, j)' => Runs(v, j)
    BY <1>0, <1>1, <1>3 DEF Runs, Running
  <2>2. result[j].state # "SUCCESS" =>
          \/ ready' = ready /\ result'[j].state \in {"FAILURE", "REVOKED"}
          \/ /\ result'[j].state = "RETRY" /\ pc[w] \notin {"callback", "return"}
             /\ \E m : ready' = ready \cup {m}
    <3>1. Requeued(w) = ready \cup {[job |-> job[w], attempt |-> attempt[w] + 1]}
      BY DEF Requeued
    <3>2. ready' = Requeued(w) => \E m : ready' = ready \cup {m}
      BY <3>1
    <3>3. CASE ready' = ready /\ StoreResult(job[w], "FAILURE", 0, 0)
      BY <1>0, <1>1, <1>3, <3>3 DEF StoreResult
    <3>4. CASE /\ pc[w] \in {"progress", "item"}
               /\ ready' = Requeued(w) /\ StoreResult(job[w], "RETRY", 0, 0)
      <4>1. result[j].state # "SUCCESS" => result'[j].state = "RETRY"
        BY <1>0, <1>1, <1>3, <3>4 DEF StoreResult
      <4> QED BY <3>2, <3>4, <4>1
    <3> QED BY <1>2, <3>3, <3>4
  <2>3. result'[j].state # "REVOKED"
    BY <1>0, <1>1, <1>2, <1>3 DEF StoreResult
  <2>4. JobInv(j) /\ struck \subseteq struck'
    BY <1>1 DEF RunInv
  <2> QED BY ONLY w \in Workers, j \in Jobs, <1>0, <1>1, <2>1, <2>2, <2>3, <2>4, LeaveKeeps
<1>4. ASSUME NEW j \in Jobs, j # job[w] PROVE JobInv(j)'
  <2>1. result'[j] = result[j] /\ \A m \in ready' : m.job = j => m \in ready
    BY <1>0, <1>1, <1>2, <1>4 DEF StoreResult, Requeued
  <2>2. Apart(j)
    BY <1>0, <1>1, <1>4, <2>1 DEF Apart
  <2> QED BY <1>1, <2>2, ApartKeeps DEF RunInv
<1> QED BY <1>3, <1>4

LEMMA CrashStep ==
  ASSUME RunInv, NEW w \in Workers, Crash(w)
  PROVE  \A j \in Jobs : JobInv(j)'
<1> SUFFICES ASSUME NEW j \in Jobs PROVE JobInv(j)'
  OBVIOUS
<1>0. TypeInv /\ JobInv(j)
  BY DEF RunInv
<1>1. /\ Release(w) /\ UNCHANGED <<submit, cancel, row, result>>
      /\ struck' = struck \cup {"crash"}
      /\ ready' = IF pc[w] = "idle" THEN ready ELSE Redelivered(w)
  BY DEF Crash, Fault, Struck, apiVars
<1>2. CASE job[w] = j
  <2>1. submit[j] \notin {"idle", "enqueue"}
    BY <1>0, <1>2 DEF JobInv, Fresh
  <2> QED BY <1>0, <1>1, <2>1, CrashKeeps
<1>3. CASE job[w] # j
  <2>1. \A m \in ready' : m.job = j => m \in ready
    BY <1>1, <1>3 DEF Redelivered
  <2>2. Apart(j)
    BY <1>0, <1>1, <2>1, Released DEF Apart
  <2> QED BY <1>0, <1>1, <2>2, ApartKeeps
<1> QED BY <1>2, <1>3

LEMMA RevokeStep ==
  ASSUME RunInv, NEW w \in Workers, NEW i \in Jobs, ReceiveRevoke(w, i)
  PROVE  \A j \in Jobs : JobInv(j)'
<1> USE DEF TypeInv, TypeOK, BusyHasJob
<1>0. TypeInv /\ UNCHANGED <<submit, cancel, row, ready, struck>> /\ ~ (struck \subseteq Smooth)
  BY DEF RunInv, Calm, ReceiveRevoke, apiVars, envVars, history
<1>1. CASE Terminates(w, i)
  <2>1. StoreResult(i, "REVOKED", 0, 0) /\ Release(w) /\ Runs(w, i)
    BY <1>1 DEF ReceiveRevoke, Terminates, Runs
  <2>2. JobInv(i)'
    <3>1. ~ Runs(w, i)' /\ \A v \in Workers \ {w} : Runs(v, i)' => Runs(v, i)
      BY <1>0, <2>1, Released
    <3>2. result[i].state # "SUCCESS" => result'[i].state \in {"FAILURE", "REVOKED"}
      BY <1>0, <2>1 DEF StoreResult
    <3>3. JobInv(i) /\ struck \subseteq struck' /\ ~ (struck' \subseteq Smooth)
      BY <1>0 DEF RunInv
    <3> QED BY ONLY w \in Workers, i \in Jobs, <1>0, <2>1, <3>1, <3>2, <3>3, LeaveKeeps
  <2>3. ASSUME NEW j \in Jobs, j # i PROVE JobInv(j)'
    <3>1. result'[j] = result[j]
      BY <1>0, <2>1, <2>3 DEF StoreResult
    <3>2. Apart(j)
      BY <1>0, <2>1, <3>1, Released DEF Apart
    <3> QED BY <1>0, <3>2, ApartKeeps DEF RunInv
  <2> QED BY <2>2, <2>3
<1>2. CASE ~ Terminates(w, i)
  <2>1. UNCHANGED <<result, pc, job, completed, failed>>
    BY <1>2 DEF ReceiveRevoke
  <2> QED BY <1>0, <2>1, ApartKeeps DEF Apart, RunInv
<1> QED BY <1>1, <1>2

LEMMA EnvironmentStep ==
  ASSUME RunInv, Environment \/ UNCHANGED vars
  PROVE  \A j \in Jobs : JobInv(j)'
<1>1. /\ UNCHANGED <<submit, cancel, row, result, ready, pc, job, completed, failed>>
      /\ struck \subseteq struck'
  BY DEF Environment, Outage, DbRecovers, Ping, Fault, Struck, vars, apiVars, brokerVars,
         workerVars, envVars, history
<1> QED BY <1>1, ApartKeeps DEF Apart, RunInv

LEMMA ApiStep ==
  ASSUME RunInv, NEW i \in Jobs, Api(i) \/ Expire(i)
  PROVE  \A j \in Jobs : JobInv(j)'
<1>1. TypeInv /\ Calm /\ \A j \in Jobs : JobInv(j)
  BY DEF RunInv
<1>2. JobInv(i)'
  BY <1>1, RecordKeeps, EnqueueKeeps, RefuseKeeps, CancelKeeps, ExpireKeeps DEF Api
<1>3. struck \subseteq struck'
  BY DEF Api, SubmitRecord, SubmitEnqueue, SubmitEnqueueFails, SubmitRefuse, SubmitCrash,
         CancelRead, CancelCheck, CancelRevoke, CancelRecord, Expire, Fault, Struck,
         envVars, history
<1>4. ASSUME NEW j \in Jobs, j # i PROVE JobInv(j)'
  BY <1>1, <1>3, <1>4, ApiIsApart, ApartKeeps
<1> QED BY <1>2, <1>4

LEMMA WorkerStep ==
  ASSUME RunInv, NEW w \in Workers, Work(w) \/ Mishap(w)
  PROVE  \A j \in Jobs : JobInv(j)'
<1>1. CASE \/ Begin(w) \/ RunItem(w) \/ Progress(w) \/ RecordOutcome(w) \/ PostCallback(w)
           \/ SoftLimit(w) \/ SoftLimitInRecord(w)
  <2>1. TypeInv /\ \A j \in Jobs : JobInv(j)
    BY DEF RunInv
  <2>2. struck \subseteq struck'
    BY <1>1, <2>1, WithinJob
  <2>3. ASSUME NEW j \in Jobs, job[w] = j PROVE JobInv(j)'
    BY <1>1, <2>1, <2>3, WithinJobKeeps
  <2>4. ASSUME NEW j \in Jobs, job[w] # j PROVE JobInv(j)'
    BY <1>1, <2>1, <2>2, <2>4, WithinJobIsApart, ApartKeeps
  <2> QED BY <2>3, <2>4
<1> QED BY <1>1, TakeStep, DiscardStep, ReturnStep, AckStep, EscapeStep, HardLimitStep, CrashStep
        DEF Work, Mishap

-----------------------------------------------------------------------------
(* Without an outage, a cancellation or a crash nothing disturbs a run.    *)
LEMMA CalmStays == ASSUME RunInv, [Next]_vars PROVE Calm'
<1> USE DEF TypeInv, TypeOK, apiVars, brokerVars, workerVars, envVars, history, Fault, Struck
<1>1. /\ struck \subseteq struck'
      /\ struck' \subseteq Smooth => UNCHANGED <<dbUp, available, control, revoked>>
  <2>1. CASE \E j \in Jobs : CancelRevoke(j)
    <3>1. PICK j \in Jobs : CancelRevoke(j)
      BY <2>1
    <3>2. cancel[j] # "idle" /\ struck' = struck /\ Orderly(j) => cancel[j] = "idle"
      BY <3>1 DEF CancelRevoke, Orderly
    <3> QED BY <3>1, <3>2 DEF RunInv, JobInv, CancelRevoke
  <2>2. ASSUME NEW j \in Jobs, Api(j) \/ Expire(j), ~ CancelRevoke(j)
        PROVE  struck \subseteq struck' /\ UNCHANGED <<dbUp, available, control, revoked>>
    BY <2>2 DEF Api, SubmitRecord, SubmitEnqueue, SubmitEnqueueFails, SubmitRefuse, SubmitCrash,
         CancelRead, CancelCheck, CancelRecord, Expire
  <2>3. ASSUME NEW w \in Workers, Work(w)
        PROVE  struck \subseteq struck' /\ UNCHANGED <<dbUp, available, control, revoked>>
    BY <2>3 DEF Work, Take, Discard, Begin, RunItem, Progress, RecordOutcome, PostCallback,
         Return, Ack
  <2>4. ASSUME NEW w \in Workers, Mishap(w)
        PROVE  /\ struck \subseteq struck'
               /\ struck' \subseteq Smooth => UNCHANGED <<dbUp, available, control, revoked>>
    <3>1. CASE Crash(w)
      BY <3>1 DEF Crash, Smooth
    <3> QED BY <2>4, <3>1 DEF Mishap, SoftLimit, SoftLimitInRecord, Escape, HardLimit
  <2>5. ASSUME NEW w \in Workers, NEW j \in Jobs, ReceiveRevoke(w, j)
        PROVE  struck \subseteq struck' /\ ~ (struck' \subseteq Smooth)
    BY <2>5 DEF ReceiveRevoke, RunInv, Calm
  <2>6. CASE Environment \/ UNCHANGED vars
    <3>1. CASE Outage \/ DbRecovers \/ Ping
      <4>1. ASSUME struck' \subseteq Smooth PROVE FALSE
        <5>0. Outage => struck' = struck \cup {"outage"}
          BY DEF Outage
        <5>1. ~ Outage
          BY <4>1, <5>0 DEF Smooth
        <5>3. struck' = struck
          BY <3>1, <5>1 DEF DbRecovers, Ping
        <5>2. dbUp /\ available
          BY <4>1, <5>3 DEF RunInv, Calm
        <5> QED BY <3>1, <5>1, <5>2, Zenon DEF DbRecovers, Ping
      <4>2. struck \subseteq struck'
        BY <3>1 DEF Outage, DbRecovers, Ping
      <4> QED BY <4>1, <4>2
    <3>2. CASE UNCHANGED vars
      BY <3>2 DEF vars
    <3> QED BY <2>6, <3>1, <3>2 DEF Environment
  <2> QED BY <2>1, <2>2, <2>3, <2>4, <2>5, <2>6 DEF Next
<1> QED BY <1>1 DEF RunInv, Calm

LEMMA RunInvStays == ASSUME RunInv, [Next]_vars PROVE RunInv'
<1>1. \A j \in Jobs : JobInv(j)'
  BY ApiStep, WorkerStep, RevokeStep, EnvironmentStep DEF Next
<1>2. TypeInv'
  BY NextKeepsTypeInv DEF RunInv
<1> QED BY <1>1, <1>2, CalmStays DEF RunInv

LEMMA RunInvHolds == Spec => []RunInv
<1>1. Init => RunInv
  <2> SUFFICES ASSUME Init PROVE RunInv
    OBVIOUS
  <2>1. Calm
    BY DEF Init, Calm, Smooth
  <2>2. ASSUME NEW j \in Jobs PROVE JobInv(j)
    <3>1. /\ submit[j] = "idle" /\ cancel[j] = "idle" /\ row[j].status = "none"
          /\ result[j].state = "PENDING" /\ ready = {} /\ \A w \in Workers : job[w] = None
      BY DEF Init
    <3> QED BY <3>1, ConstantsAssumption
            DEF JobInv, Fresh, OneCopy, Over, RowTells, Orderly, HasMessage, Runs
  <2> QED BY <2>1, <2>2, InitTypeInv DEF RunInv
<1> QED BY <1>1, RunInvStays, PTL DEF Spec

(* The row a finished job falls back to has the counts of its result, as   *)
(* long as no worker died: there is one copy of a message at a time, so    *)
(* the run that writes the row is the run that stores the result.          *)
THEOREM RowStaysTrue == Spec => []RowAgreesWithResult
<1>1. RunInv => RowAgreesWithResult
  BY DEF RunInv, JobInv, RowTells, RowAgreesWithResult
<1> QED BY <1>1, RunInvHolds, PTL

-----------------------------------------------------------------------------
(* The promised life cycle *)

(* While nothing but Smooth happens, what a client is shown is told by the *)
(* result and by whether the job was submitted.                            *)
Face(j) ==
  IF result[j].state = "PENDING"
  THEN IF submit[j] = "idle" THEN "not_found" ELSE "pending"
  ELSE StatusMap[result[j].state]

Faces == [j \in Jobs |-> Face(j)]

LEMMA ShownIsFaces == RunInv /\ struck \subseteq Smooth => Shown = Faces
<1> SUFFICES ASSUME RunInv, struck \subseteq Smooth PROVE Shown = Faces
  OBVIOUS
<1>1. ASSUME NEW j \in Jobs PROVE Status(j) = Face(j)
  <2>1. ApiReachesDb
    BY DEF RunInv, Calm, ApiReachesDb
  <2>2. Orderly(j)
    BY DEF RunInv, JobInv
  <2>3. result[j].state # "EXPIRED" /\ Reported(j) = result[j].state
    BY <2>2 DEF Orderly, Reported
  <2>4. result[j].state \in ResultState
    BY DEF RunInv, TypeInv, TypeOK
  <2>5. CASE result[j].state = "PENDING"
    <3>1. StatusMap["PENDING"] = "pending"
      BY DEF StatusMap, ResultState
    <3> QED BY <2>1, <2>2, <2>3, <2>5, <3>1 DEF Orderly, Status, Face
  <2>6. CASE result[j].state # "PENDING"
    BY <2>3, <2>6 DEF Status, Face
  <2> QED BY <2>5, <2>6
<1> QED BY <1>1 DEF Shown, Faces

(* One job's status moves at a time, and only along the life cycle.        *)
MovesOn(i) ==
  \/ Face(i)' = Face(i)
  \/ Face(i) = "not_found" /\ Face(i)' = "pending"
  \/ Face(i) = "pending" /\ Face(i)' = "running"
  \/ Face(i) = "running" /\ Face(i)' \in {"completed", "failed"}

LEMMA MoveIsPromised ==
  ASSUME NEW i \in Jobs, MovesOn(i), \A j \in Jobs \ {i} : Face(j)' = Face(j),
         Shown = Faces, Shown' = Faces'
  PROVE  Lifecycle!Next \/ Shown' = Shown
<1>1. Shown' = [Shown EXCEPT ![i] = Face(i)'] /\ Shown[i] = Face(i)
  BY DEF Faces
<1>2. CASE Face(i)' = Face(i)
  <2>1. \A j \in Jobs : Face(j)' = Face(j)
    BY <1>2
  <2> QED BY <2>1 DEF Faces
<1>3. CASE Face(i)' # Face(i)
  BY <1>1, <1>3 DEF MovesOn, Lifecycle!Next, Lifecycle!Submit, Lifecycle!Start, Lifecycle!Finish,
     Lifecycle!Move
<1> QED BY <1>2, <1>3

LEMMA ApartShowsTheSame ==
  ASSUME NEW j \in Jobs, Apart(j) PROVE Face(j)' = Face(j)
BY DEF Apart, Face

LEMMA StatusOf ==
  /\ StatusMap["STARTED"] = "running" /\ StatusMap["PROGRESS"] = "running"
  /\ StatusMap["RETRY"] = "running"
  /\ StatusMap["SUCCESS"] = "completed" /\ StatusMap["FAILURE"] = "failed"
BY DEF StatusMap, ResultState

(* What a run under RunInv knows of a running worker's job.                *)
LEMMA RunningShows ==
  ASSUME RunInv, struck \subseteq Smooth, NEW w \in Workers, Running(w), job[w] \in Jobs
  PROVE  /\ result[job[w]].state \in {"STARTED", "PROGRESS"} /\ Face(job[w]) = "running"
         /\ submit[job[w]] \notin {"idle", "enqueue"}
<1>1. Runs(w, job[w]) /\ JobInv(job[w])
  BY DEF RunInv, Runs
<1> QED BY <1>1, StatusOf DEF JobInv, Orderly, Fresh, Face

LEMMA ApiMoves ==
  ASSUME RunInv, struck' \subseteq Smooth, NEW i \in Jobs, Api(i) \/ Expire(i)
  PROVE  MovesOn(i) /\ \A j \in Jobs \ {i} : Face(j)' = Face(j)
<1>1. TypeInv /\ JobInv(i)
  BY DEF RunInv
<1>2. \A j \in Jobs \ {i} : Face(j)' = Face(j)
  BY <1>1, ApiIsApart, ApartShowsTheSame
<1>3. CASE SubmitRecord(i)
  <2>1. submit[i] = "idle" /\ submit'[i] = "enqueue" /\ result' = result
    BY <1>1, <1>3 DEF SubmitRecord, TypeInv, TypeOK
  <2>2. result[i].state = "PENDING"
    BY <1>1, <2>1 DEF JobInv, Fresh
  <2> QED BY <1>2, <2>1, <2>2 DEF MovesOn, Face
<1>4. CASE Api(i) /\ ~ SubmitRecord(i)
  <2>1. /\ submit[i] \in {"enqueue", "refusing"} \/ submit' = submit
        /\ submit'[i] # "idle" \/ submit' = submit
        /\ result' = result
    BY <1>1, <1>4 DEF Api, SubmitEnqueue, SubmitEnqueueFails, SubmitRefuse, SubmitCrash,
       CancelRead, CancelCheck, CancelRevoke, CancelRecord, TypeInv, TypeOK
  <2> QED BY <1>2, <2>1 DEF MovesOn, Face
<1>5. CASE Expire(i)
  BY <1>5 DEF Expire, Struck, Smooth
<1> QED BY <1>3, <1>4, <1>5

(* A message is taken for the first time, or again after a RETRY.          *)
LEMMA TakeMoves ==
  ASSUME RunInv, struck \subseteq Smooth, NEW w \in Workers, Take(w)
  PROVE  \E i \in Jobs : MovesOn(i) /\ \A j \in Jobs \ {i} : Face(j)' = Face(j)
<1>1. PICK m \in ready :
        StoreResult(m.job, "STARTED", 0, 0) /\ UNCHANGED submit
  BY DEF Take, apiVars
<1> DEFINE i == m.job
<1>2. i \in Jobs /\ HasMessage(i) /\ TypeInv
  BY DEF RunInv, TypeInv, TypeOK, Message, HasMessage
<1>3. result[i].state \in {"PENDING", "RETRY"} /\ submit[i] # "idle"
  BY <1>2 DEF RunInv, JobInv, Orderly, Fresh
<1>4. result'[i].state = "STARTED" /\ \A j \in Jobs \ {i} : result'[j] = result[j]
  BY <1>1, <1>2, <1>3 DEF StoreResult, TypeInv, TypeOK
<1>5. \A j \in Jobs \ {i} : Face(j)' = Face(j)
  BY <1>1, <1>4 DEF Face
<1>6. Face(i)' = "running" /\ Face(i) \in {"pending", "running"}
  BY <1>1, <1>3, <1>4, StatusOf DEF Face
<1> QED BY <1>2, <1>5, <1>6 DEF MovesOn

(* A running job goes on, ends, or goes back to the queue as RETRY.        *)
LEMMA RunMoves ==
  ASSUME RunInv, struck \subseteq Smooth, NEW w \in Workers, Running(w), NEW i \in Jobs,
         job[w] = i, NEW s \in {"PROGRESS", "SUCCESS", "FAILURE", "RETRY"}, NEW c, NEW f,
         StoreResult(i, s, c, f), UNCHANGED submit
  PROVE  MovesOn(i) /\ \A j \in Jobs \ {i} : Face(j)' = Face(j)
<1>1. /\ result[i].state \in {"STARTED", "PROGRESS"} /\ Face(i) = "running"
      /\ submit[i] # "idle"
  BY RunningShows
<1>2. result'[i].state = s /\ \A j \in Jobs \ {i} : result'[j] = result[j]
  BY <1>1 DEF StoreResult, RunInv, TypeInv, TypeOK
<1>3. \A j \in Jobs \ {i} : Face(j)' = Face(j)
  BY <1>2 DEF Face
<1>4. StatusMap[s] \in {"running", "completed", "failed"} /\ s # "PENDING"
  BY StatusOf
<1>5. Face(i)' = StatusMap[s]
  BY <1>2, <1>4 DEF Face
<1>6. MovesOn(i)
  BY <1>1, <1>4, <1>5 DEF MovesOn
<1> QED BY <1>3, <1>6

(* What leaves the results alone leaves what clients are shown alone.      *)
LEMMA RestShowsTheSame ==
  ASSUME UNCHANGED <<submit, result>> PROVE Faces' = Faces
BY DEF Faces, Face

LEMMA WorkerMoves ==
  ASSUME RunInv, struck \subseteq Smooth, struck' \subseteq Smooth, NEW w \in Workers,
         Work(w) \/ Mishap(w)
  PROVE  \/ Faces' = Faces
         \/ \E i \in Jobs : MovesOn(i) /\ \A j \in Jobs \ {i} : Face(j)' = Face(j)
<1>1. UNCHANGED submit
  BY DEF Work, Mishap, Take, Discard, Begin, RunItem, Progress, RecordOutcome, PostCallback,
     Return, Ack, SoftLimit, SoftLimitInRecord, Escape, HardLimit, Crash, apiVars
<1>2. Running(w) => job[w] \in Jobs
  BY DEF RunInv, TypeInv, BusyHasJob, Running
<1>3. CASE Take(w)
  BY <1>3, TakeMoves
<1>4. CASE Discard(w) \/ Crash(w)
  <2>1. ~ Discard(w)
    BY DEF RunInv, Calm, Discard
  <2>2. ~ Crash(w)
    BY DEF Crash, Fault, Struck, Smooth
  <2> QED BY <1>4, <2>1, <2>2
<1>5. CASE Progress(w)
  BY <1>1, <1>2, <1>5, RunMoves DEF Progress, Running
<1>6. CASE Return(w)
  BY <1>1, <1>2, <1>6, RunMoves DEF Return, Running
<1>7. CASE Escape(w)
  BY <1>1, <1>2, <1>7, RunMoves DEF Escape, Running
<1>8. CASE HardLimit(w)
  BY <1>1, <1>2, <1>8, RunMoves DEF HardLimit, Running
<1>9. CASE \/ Begin(w) \/ RunItem(w) \/ RecordOutcome(w) \/ PostCallback(w) \/ Ack(w)
           \/ SoftLimit(w) \/ SoftLimitInRecord(w)
  <2>1. UNCHANGED result
    BY <1>9 DEF Begin, RunItem, RecordOutcome, PostCallback, Ack, SoftLimit, SoftLimitInRecord
  <2> QED BY <1>1, <2>1, RestShowsTheSame
<1> QED BY <1>3, <1>4, <1>5, <1>6, <1>7, <1>8, <1>9 DEF Work, Mishap

LEMMA StruckGrows == ASSUME [Next]_vars PROVE struck \subseteq struck'
BY DEF Next, Api, Work, Mishap, Environment, SubmitRecord, SubmitEnqueue, SubmitEnqueueFails,
   SubmitRefuse, SubmitCrash, CancelRead, CancelCheck, CancelRevoke, CancelRecord, Expire,
   Take, Discard, Begin, RunItem, Progress, RecordOutcome, PostCallback, Return, Ack,
   SoftLimit, SoftLimitInRecord, Escape, HardLimit, Crash, ReceiveRevoke, Outage, DbRecovers,
   Ping, Fault, Struck, vars, envVars, history


(* The initial states of the program are those of the life cycle.          *)
LEMMA NobodyIsKnownAtFirst == Init => Lifecycle!Init
<1> SUFFICES ASSUME Init PROVE Lifecycle!Init
  OBVIOUS
<1>1. ASSUME NEW j \in Jobs PROVE Status(j) = "not_found"
  <2>1. row[j].status = "none" /\ Reported(j) = "PENDING"
    BY DEF Init, Reported
  <2> QED BY <2>1 DEF Status
<1> QED BY <1>1 DEF Shown, Lifecycle!Init

(* A run without crash, cancellation, expiry or outage implements          *)
(* JobLifecycle: every step a client can see is one of its steps.          *)
THEOREM LifecycleIsKept == Spec => LifecycleIsFollowed
<1> DEFINE Told == struck \subseteq Smooth => Shown = Faces
<1>1. RunInv => Told
  BY ShownIsFaces
<1>2. RunInv /\ Told /\ Told' /\ [Next]_vars =>
        [struck' \subseteq Smooth => Lifecycle!Next \/ Shown' = Shown]_vars
  <2> SUFFICES ASSUME RunInv, Told, Told', [Next]_vars, struck' \subseteq Smooth
               PROVE  Lifecycle!Next \/ Shown' = Shown
    OBVIOUS
  <2>1. struck \subseteq Smooth /\ Shown = Faces /\ Shown' = Faces'
    BY StruckGrows DEF Smooth
  <2>2. CASE \E i \in Jobs : Api(i) \/ Expire(i)
    BY <2>1, <2>2, ApiMoves, MoveIsPromised
  <2>3. CASE \E w \in Workers : Work(w) \/ Mishap(w)
    BY <2>1, <2>3, WorkerMoves, MoveIsPromised
  <2>4. CASE \E w \in Workers, j \in Jobs : ReceiveRevoke(w, j)
    BY <2>1, <2>4 DEF ReceiveRevoke, RunInv, Calm
  <2>5. CASE Environment \/ UNCHANGED vars
    <3>1. UNCHANGED <<submit, result>>
      BY <2>5 DEF Environment, Outage, DbRecovers, Ping, vars, apiVars
    <3> QED BY <2>1, <3>1, RestShowsTheSame
  <2> QED BY <2>2, <2>3, <2>4, <2>5 DEF Next
<1>3. (struck' \subseteq Smooth => Lifecycle!Next \/ Shown' = Shown) =>
      (struck' \subseteq {"apicrash", "escape", "softlimit", "hardlimit"} =>
         Lifecycle!Next \/ Shown' = Shown)
  BY DEF Smooth
<1> QED BY <1>1, <1>2, <1>3, RunInvHolds, PTL DEF Spec, LifecycleIsFollowed
=============================================================================
