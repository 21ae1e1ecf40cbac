-------------------------- MODULE InferenceSlots ---------------------------
(***************************************************************************)
(* How many forward passes run at once in an API process                   *)
(* (api/services/inference_service.py): the asyncio semaphore with its     *)
(* queue of waiters, the in-flight count the readiness probe reads, and    *)
(* the threads the work really runs on, which a timeout cannot stop.       *)
(***************************************************************************)
EXTENDS Integers, Sequences, FiniteSets

CONSTANTS
  Requests,  \* requests being handled at the same time
  Max,       \* max_concurrent_inferences
  Pool       \* threads of the event loop's default executor

ASSUME SlotsAssumption ==
  Max \in Nat \ {0} /\ Pool \in Nat \ {0} /\ IsFiniteSet(Requests)

VARIABLES
  pc,        \* where a request is
  job,       \* its call of asyncio.to_thread
  value,     \* Semaphore._value
  waiters,   \* Semaphore._waiters, oldest first
  woken,     \* the waiters whose future has been set
  inflight,  \* InferenceService._inflight
  orphans    \* forward passes still running whose request has given up

semaphore == <<value, waiters, woken>>
vars == <<pc, job, semaphore, inflight, orphans>>

Answers == {"ok", "failed", "timeout", "overloaded"}

TypeOK ==
  /\ pc \in [Requests -> {"idle", "prepare", "acquire", "infer"} \cup Answers]
  /\ job \in [Requests -> {"none", "queued", "running", "done"}]
  /\ value \in 0 .. Max
  /\ waiters \in Seq(Requests)
  /\ woken \subseteq Requests
  /\ inflight \in 0 .. Max
  /\ orphans \in 0 .. Pool

Init ==
  /\ pc = [p \in Requests |-> "idle"]
  /\ job = [p \in Requests |-> "none"]
  /\ value = Max
  /\ waiters = <<>>
  /\ woken = {}
  /\ inflight = 0
  /\ orphans = 0

-----------------------------------------------------------------------------
(* The thread pool.                                                        *)

Running == {p \in Requests : job[p] = "running"}

Start(p) ==
  /\ job[p] = "queued"
  /\ Cardinality(Running) + orphans < Pool
  /\ job' = [job EXCEPT ![p] = "running"]
  /\ UNCHANGED <<pc, semaphore, inflight, orphans>>

Finish(p) ==
  /\ job[p] = "running"
  /\ job' = [job EXCEPT ![p] = "done"]
  /\ UNCHANGED <<pc, semaphore, inflight, orphans>>

OrphanEnds ==
  /\ orphans > 0
  /\ orphans' = orphans - 1
  /\ UNCHANGED <<pc, job, semaphore, inflight>>

-----------------------------------------------------------------------------
(* asyncio.Semaphore                                                       *)

(* The sleepers of a queue up to a place in it.                            *)
SleepersTo(i, queue, awake) == {j \in 1 .. i : queue[j] \notin awake}

(* Among the oldest k sleepers of a queue.                                 *)
Oldest(k, queue, awake) ==
  {i \in SleepersTo(Len(queue), queue, awake) :
     Cardinality(SleepersTo(i, queue, awake)) <= k}

(* At most a number of free slots go to the oldest sleepers of a queue.    *)
HandOver(slots, most, queue, awake) ==
  LET granted == {queue[i] : i \in Oldest(IF slots < most THEN slots ELSE most, queue, awake)}
  IN  /\ value' = slots - Cardinality(granted)
      /\ woken' = awake \cup granted

(* deque.remove()                                                          *)
Without(p, queue) ==
  LET at == CHOOSE i \in DOMAIN queue : queue[i] = p
  IN  [j \in 1 .. Len(queue) - 1 |-> queue[IF j < at THEN j ELSE j + 1]]

-----------------------------------------------------------------------------
(* A request.                                                              *)

(* _prepare() preprocesses the image in a thread, without a deadline.      *)
Arrive(p) ==
  /\ pc[p] = "idle"
  /\ pc' = [pc EXCEPT ![p] = "prepare"]
  /\ job' = [job EXCEPT ![p] = "queued"]
  /\ UNCHANGED <<semaphore, inflight, orphans>>

(* _run_model() has the slot: count it and hand the pass to a thread.      *)
Enter(p) ==
  /\ pc' = [pc EXCEPT ![p] = "infer"]
  /\ job' = [job EXCEPT ![p] = "queued"]
  /\ inflight' = inflight + 1

Taken == value - 1

(* A slot is free and nobody waits for it, or the request queues up.       *)
Acquire(p) ==
  /\ pc[p] = "prepare" /\ job[p] = "done"
  /\ IF value > 0 /\ waiters = <<>>
       THEN /\ value' = Taken
            /\ Enter(p)
            /\ UNCHANGED <<waiters, woken>>
       ELSE /\ waiters' = Append(waiters, p)
            /\ pc' = [pc EXCEPT ![p] = "acquire"]
            /\ job' = [job EXCEPT ![p] = "none"]
            /\ UNCHANGED <<value, woken, inflight>>
  /\ UNCHANGED orphans

(* The waiter goes on, and wakes those who have queued up although slots   *)
(* were free.                                                              *)
Resume(p) ==
  /\ pc[p] = "acquire" /\ p \in woken
  /\ waiters' = Without(p, waiters)
  /\ HandOver(value, Max, waiters', woken \ {p})
  /\ Enter(p)
  /\ UNCHANGED orphans

(* A slot that was granted in the moment of the timeout is given back.     *)
GivenBack(p) == IF p \in woken THEN 1 ELSE 0

(* wait_for(acquire, 2.0) gives up: 503.                                   *)
Overload(p) ==
  /\ pc[p] = "acquire"
  /\ pc' = [pc EXCEPT ![p] = "overloaded"]
  /\ waiters' = Without(p, waiters)
  /\ HandOver(value + GivenBack(p), Max, waiters', woken \ {p})
  /\ UNCHANGED <<job, inflight, orphans>>

\* Mutant: the slot is released on success only.
OnSuccessOnly(answer) == answer = "ok"

Releases(answer) == TRUE

(* finally: the count and the slot.                                        *)
Leave(p, answer) ==
  /\ pc' = [pc EXCEPT ![p] = answer]
  /\ job' = [job EXCEPT ![p] = "none"]
  /\ inflight' = inflight - 1
  /\ IF Releases(answer) THEN HandOver(value + 1, 1, waiters, woken)
     ELSE UNCHANGED <<value, woken>>
  /\ UNCHANGED waiters

Complete(p) ==
  /\ pc[p] = "infer" /\ job[p] = "done"
  /\ \E answer \in {"ok", "failed"} : Leave(p, answer)
  /\ UNCHANGED orphans

(* wait_for(to_thread(infer)) gives up.  A pass that has not started is    *)
(* cancelled; one that runs goes on, and nobody waits for it.              *)
Timeout(p) ==
  /\ pc[p] = "infer"
  /\ Leave(p, "timeout")
  /\ orphans' = IF job[p] = "running" THEN orphans + 1 ELSE orphans

Respond(p) ==
  /\ pc[p] \in Answers
  /\ pc' = [pc EXCEPT ![p] = "idle"]
  /\ UNCHANGED <<job, semaphore, inflight, orphans>>

Next ==
  \/ \E p \in Requests :
       \/ Arrive(p) \/ Acquire(p) \/ Resume(p) \/ Overload(p)
       \/ Complete(p) \/ Timeout(p) \/ Respond(p)
       \/ Start(p) \/ Finish(p)
  \/ OrphanEnds

Spec == Init /\ [][Next]_vars

(* The event loop runs what is ready, every pass ends, and the executor's  *)
(* queue is first in, first out.  No deadline need ever expire.            *)
Fairness ==
  /\ \A p \in Requests :
       /\ WF_vars(Acquire(p) \/ Resume(p) \/ Complete(p) \/ Finish(p))
       /\ SF_vars(Start(p))
  /\ WF_vars(OrphanEnds)

FairSpec == Spec /\ Fairness

-----------------------------------------------------------------------------
(* Properties.                                                             *)

Inferring == {p \in Requests : pc[p] = "infer"}

(* No slot is lost or made up, whatever order waiters, timeouts and        *)
(* failures come in, the readiness probe's count is the slots in use, and  *)
(* when a slot is free a request only sleeps while another is on its way   *)
(* to wake it.                                                             *)
SlotsAreKept ==
  /\ value + Cardinality(woken) + Cardinality(Inferring) = Max
  /\ inflight = Cardinality(Inferring)
  /\ value > 0 /\ (\E p \in Requests : pc[p] = "acquire" /\ p \notin woken) => woken # {}

(* Every request is answered, whichever of the others time out, and even   *)
(* if its own deadlines never expire: the queue for a slot always moves.   *)
RequestsAreAnswered ==
  \A p \in Requests :
    pc[p] \in {"prepare", "acquire", "infer"} ~> pc[p] \in Answers

(* "Hard ceiling on concurrent inference calls" (api/config.py): no more   *)
(* forward passes run than there are slots.                                *)
HardCeiling ==
  Cardinality(Inferring \cap Running) + orphans <= Max
=============================================================================
