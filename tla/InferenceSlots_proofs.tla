---------------------- MODULE InferenceSlots_proofs ------------------------
(* Proofs about InferenceSlots and, in a section of its own, about the     *)
(* cache and the models in front of the slots (ServingCache): no slot is   *)
(* lost or made up, and what is answered is what was asked for.            *)
EXTENDS InferenceSlots, MCServingCache, FiniteSetTheorems, FunctionTheorems, NaturalsInduction,
        WellFoundedInduction, TLAPS

Sleeping == {p \in Requests : pc[p] = "acquire"}

(* The queue is the requests that wait, each of them once, and only they   *)
(* are granted a slot.                                                     *)
QueueIsWaiting ==
  /\ \A i, j \in DOMAIN waiters : waiters[i] = waiters[j] => i = j
  /\ {waiters[i] : i \in DOMAIN waiters} = Sleeping
  /\ woken \subseteq Sleeping

PoolIsKept == Cardinality(Running) + orphans <= Pool

Inv == TypeOK /\ QueueIsWaiting /\ PoolIsKept /\ SlotsAreKept

-----------------------------------------------------------------------------
(* Sets of natural numbers.                                                *)

LEMMA LeastNumber ==
  ASSUME NEW T \in SUBSET Nat, T # {}
  PROVE  \E least \in T : \A n \in T : least <= n
<1>1. PICK least \in T : \A n \in T : <<n, least>> \notin OpToRel(<, Nat)
  BY NatLessThanWellFounded, WFMin
<1>2. \A n \in T : ~(n < least)
  BY <1>1 DEF OpToRel
<1> QED
  BY <1>2

LEMMA GreatestNumber ==
  ASSUME NEW T \in SUBSET Nat, T # {}, NEW b \in Nat, \A n \in T : n <= b
  PROVE  \E greatest \in T : \A n \in T : n <= greatest
<1> DEFINE U == {m \in Nat : \A n \in T : n <= m}
<1>1. b \in U
  OBVIOUS
<1>2. PICK least \in U : \A m \in U : least <= m
  BY <1>1, LeastNumber
<1>3. SUFFICES ASSUME least \notin T PROVE FALSE
  BY <1>2
<1>4. \A n \in T : n <= least - 1
  BY <1>3
<1>5. PICK t \in T : TRUE
  OBVIOUS
<1>6. least - 1 \in U
  BY <1>4, <1>5
<1> QED
  BY <1>2, <1>6

-----------------------------------------------------------------------------
(* The queue.                                                              *)

LEMMA SleepersAreFinite ==
  ASSUME NEW queue, NEW awake, NEW i \in Nat
  PROVE  /\ IsFiniteSet(SleepersTo(i, queue, awake))
         /\ Cardinality(SleepersTo(i, queue, awake)) \in Nat
         /\ \A T \in SUBSET SleepersTo(i, queue, awake) :
              IsFiniteSet(T) /\ Cardinality(T) \in Nat
                /\ Cardinality(T) <= Cardinality(SleepersTo(i, queue, awake))
<1>1. IsFiniteSet(1 .. i)
  BY FS_Interval
<1>2. SleepersTo(i, queue, awake) \in SUBSET (1 .. i)
  BY DEF SleepersTo
<1>3. IsFiniteSet(SleepersTo(i, queue, awake))
  BY <1>1, <1>2, FS_Subset
<1> QED
  BY <1>3, FS_Subset, FS_CardinalityType

(* The oldest k sleepers are at most k.                                    *)
LEMMA OldestAreFew ==
  ASSUME NEW queue, Len(queue) \in Nat, NEW awake, NEW k \in Nat
  PROVE  Cardinality(Oldest(k, queue, awake)) <= k
<1> DEFINE O == Oldest(k, queue, awake)
<1>1. CASE O = {}
  BY <1>1, FS_EmptySet
<1>2. CASE O # {}
  <2>1. O \in SUBSET Nat /\ \A n \in O : n <= Len(queue)
    BY DEF Oldest, SleepersTo
  <2>2. PICK last \in O : \A n \in O : n <= last
    BY <1>2, <2>1, GreatestNumber
  <2>3. O \subseteq SleepersTo(last, queue, awake)
    BY <2>1, <2>2 DEF Oldest, SleepersTo
  <2>4. Cardinality(O) <= Cardinality(SleepersTo(last, queue, awake)) 
        /\ Cardinality(O) \in Nat /\ Cardinality(SleepersTo(last, queue, awake)) \in Nat
    BY <2>1, <2>3, SleepersAreFinite
  <2>5. Cardinality(SleepersTo(last, queue, awake)) <= k
    BY DEF Oldest
  <2> QED
    BY <2>4, <2>5
<1> QED
  BY <1>1, <1>2

(* When there is a sleeper, the oldest one is among the oldest k.          *)
LEMMA SomebodyIsOldest ==
  ASSUME NEW queue, Len(queue) \in Nat, NEW awake, NEW k \in Nat \ {0},
         SleepersTo(Len(queue), queue, awake) # {}
  PROVE  Oldest(k, queue, awake) # {}
<1> DEFINE S == SleepersTo(Len(queue), queue, awake)
<1>1. S \in SUBSET Nat
  BY DEF SleepersTo
<1>2. PICK first \in S : \A n \in S : first <= n
  BY <1>1, LeastNumber
<1>3. SleepersTo(first, queue, awake) = {first}
  BY <1>1, <1>2 DEF SleepersTo
<1>4. Cardinality(SleepersTo(first, queue, awake)) = 1
  BY <1>3, FS_Singleton
<1>5. first \in Oldest(k, queue, awake)
  BY <1>4 DEF Oldest
<1> QED
  BY <1>5

(* A queue of distinct requests.                                           *)
Distinct(queue) == \A i, j \in DOMAIN queue : queue[i] = queue[j] => i = j
Members(queue) == {queue[i] : i \in DOMAIN queue}

(* Handing over keeps the sum of the free and the granted slots, grants    *)
(* them to members of the queue only, and at least one if it can.          *)
LEMMA HandOverKeepsSlots ==
  ASSUME NEW slots \in Nat, NEW most \in Nat \ {0}, NEW queue \in Seq(Requests),
         NEW awake \in SUBSET Members(queue),
         HandOver(slots, most, queue, awake)
  PROVE  /\ value' \in 0 .. slots
         /\ woken' \in SUBSET Members(queue)
         /\ Cardinality(woken') \in Nat
         /\ value' + Cardinality(woken') = slots + Cardinality(awake)
         /\ value' > 0 /\ Members(queue) \ woken' # {} => woken' # {}
<1> DEFINE k == IF slots < most THEN slots ELSE most
           O == Oldest(k, queue, awake)
           granted == {queue[i] : i \in O}
<1>1. k \in Nat /\ k <= slots /\ (slots > 0 => k > 0) /\ Len(queue) \in Nat
  OBVIOUS
<1>2. value' = slots - Cardinality(granted) /\ woken' = awake \cup granted
  BY DEF HandOver
<1>3. O \subseteq SleepersTo(Len(queue), queue, awake)
  BY DEF Oldest
<1>4. O \subseteq DOMAIN queue /\ \A i \in O : queue[i] \notin awake
  BY <1>3 DEF SleepersTo
<1>5. IsFiniteSet(O) /\ Cardinality(O) \in Nat
  BY <1>1, <1>3, SleepersAreFinite
<1>6. IsFiniteSet(granted) /\ Cardinality(granted) <= Cardinality(O)
  <2> DEFINE f == [i \in O |-> queue[i]]
  <2>1. f \in Surjection(O, granted)
    BY DEF Surjection
  <2> QED
    BY <2>1, <1>5, FS_Surjection
<1>7. Cardinality(granted) \in Nat /\ Cardinality(granted) <= slots
  <2>1. Cardinality(O) <= k
    BY <1>1, OldestAreFew
  <2>2. Cardinality(granted) \in Nat
    BY <1>6, FS_CardinalityType
  <2> QED
    BY <2>1, <2>2, <1>1, <1>5, <1>6
<1>8. awake \cap granted = {} /\ granted \subseteq Members(queue)
  BY <1>4 DEF Members
<1>9. IsFiniteSet(awake)
  <2>1. IsFiniteSet(Requests)
    BY SlotsAssumption
  <2>2. awake \subseteq Requests
    BY DEF Members
  <2> QED
    BY <2>1, <2>2, FS_Subset
<1>10. Cardinality(awake) \in Nat /\ Cardinality(awake \cap granted) = 0
  BY <1>8, <1>9, FS_CardinalityType, FS_EmptySet
<1>11. Cardinality(awake \cup granted) = Cardinality(awake) + Cardinality(granted)
  <2>1. Cardinality(awake \cup granted)
          = Cardinality(awake) + Cardinality(granted) - Cardinality(awake \cap granted)
    BY <1>6, <1>9, FS_Union, Zenon
  <2> QED
    BY <2>1, <1>7, <1>10
<1>12. ASSUME value' > 0, Members(queue) \ woken' # {} PROVE granted # {}
  <2>1. slots > 0
    BY <1>2, <1>7, <1>12
  <2>2. SleepersTo(Len(queue), queue, awake) # {}
    BY <1>2, <1>12 DEF Members, SleepersTo
  <2>3. O # {}
    BY <1>1, <2>1, <2>2, SomebodyIsOldest
  <2> QED
    BY <2>3
<1>13. value' \in 0 .. slots
  BY <1>2, <1>7
<1>14. value' + Cardinality(woken') = slots + Cardinality(awake) /\ Cardinality(woken') \in Nat
  BY <1>2, <1>7, <1>10, <1>11
<1> QED
  BY <1>2, <1>8, <1>12, <1>13, <1>14

(* Taking a member out of the queue.                                       *)
LEMMA WithoutRemoves ==
  ASSUME NEW queue \in Seq(Requests), Distinct(queue), NEW p \in Members(queue)
  PROVE  /\ Without(p, queue) \in Seq(Requests)
         /\ Distinct(Without(p, queue))
         /\ Members(Without(p, queue)) = Members(queue) \ {p}
<1> DEFINE at == CHOOSE i \in DOMAIN queue : queue[i] = p
           left == Without(p, queue)
<1>1. at \in 1 .. Len(queue) /\ queue[at] = p
  BY DEF Members
<1>2. left = [j \in 1 .. Len(queue) - 1 |-> queue[IF j < at THEN j ELSE j + 1]]
  BY DEF Without
<1> HIDE DEF at, left
<1>3. DOMAIN left = 1 .. Len(queue) - 1 /\ Len(queue) \in Nat /\ DOMAIN queue = 1 .. Len(queue)
  BY <1>2
<1>4. \A j \in DOMAIN left :
        /\ left[j] = queue[IF j < at THEN j ELSE j + 1]
        /\ (IF j < at THEN j ELSE j + 1) \in DOMAIN queue \ {at}
  BY <1>1, <1>2, <1>3
<1>5. left \in Seq(Requests)
  BY <1>1, <1>2, <1>3, <1>4
<1>6. Distinct(left)
  BY <1>1, <1>3, <1>4 DEF Distinct
<1>7. Members(left) \subseteq Members(queue) \ {p}
  BY <1>1, <1>4 DEF Distinct, Members
<1>8. ASSUME NEW i \in DOMAIN queue, queue[i] # p PROVE queue[i] \in Members(left)
  <2>1. CASE i < at
    <3>1. i \in DOMAIN left /\ left[i] = queue[i]
      BY <1>1, <1>3, <1>4, <2>1
    <3> QED
      BY <3>1 DEF Members
  <2>2. CASE i > at
    <3>1. i - 1 \in DOMAIN left /\ left[i - 1] = queue[i]
      BY <1>1, <1>3, <1>4, <2>2
    <3> QED
      BY <3>1 DEF Members
  <2> QED
    BY <1>1, <1>3, <1>8, <2>1, <2>2
<1>9. Members(queue) \ {p} \subseteq Members(left)
  BY <1>8 DEF Members
<1> QED
  BY <1>5, <1>6, <1>7, <1>9 DEF left

-----------------------------------------------------------------------------
(* The invariant.                                                          *)

LEMMA QueueFacts ==
  ASSUME QueueIsWaiting, waiters \in Seq(Requests)
  PROVE  Distinct(waiters) /\ Members(waiters) = Sleeping /\ woken \in SUBSET Members(waiters)
  BY DEF QueueIsWaiting, Distinct, Members

(* A step that adds a forward pass, takes one away, or leaves them be.     *)
LEMMA InferringIsFinite ==
  ASSUME pc \in [Requests -> {"idle", "prepare", "acquire", "infer"} \cup Answers]
  PROVE  IsFiniteSet(Inferring) /\ Cardinality(Inferring) \in Nat
<1>1. Inferring \in SUBSET Requests
  BY DEF Inferring
<1> QED
  BY <1>1, SlotsAssumption, FS_Subset, FS_CardinalityType

LEMMA OneMorePass ==
  ASSUME TypeOK, NEW p \in Requests, pc[p] # "infer",
         pc' = [pc EXCEPT ![p] = "infer"]
  PROVE  Cardinality(Inferring') = Cardinality(Inferring) + 1
<1>1. Inferring' = Inferring \cup {p} /\ p \notin Inferring
  BY DEF Inferring, TypeOK
<1> QED
  BY <1>1, InferringIsFinite, FS_AddElement DEF TypeOK

LEMMA OnePassLess ==
  ASSUME TypeOK, NEW p \in Requests, pc[p] = "infer",
         NEW answer \in Answers, pc' = [pc EXCEPT ![p] = answer]
  PROVE  Cardinality(Inferring') = Cardinality(Inferring) - 1
<1>1. Inferring' = Inferring \ {p} /\ p \in Inferring
  BY DEF Inferring, TypeOK, Answers
<1> QED
  BY <1>1, InferringIsFinite, FS_RemoveElement DEF TypeOK

(* A step after which no thread runs that did not run before keeps the     *)
(* pool, whatever it does to the threads otherwise.                        *)
LEMMA NoNewThread ==
  ASSUME TypeOK, PoolIsKept, Running' \subseteq Running, orphans' = orphans
  PROVE  PoolIsKept'
<1>1. Running \in SUBSET Requests
  BY DEF Running
<1>2. IsFiniteSet(Running) /\ Cardinality(Running) \in Nat
  BY <1>1, SlotsAssumption, FS_Subset, FS_CardinalityType
<1>3. Cardinality(Running') <= Cardinality(Running) /\ Cardinality(Running') \in Nat
  BY <1>2, FS_Subset, FS_CardinalityType
<1> QED
  BY <1>2, <1>3, SlotsAssumption DEF PoolIsKept, TypeOK

(* The counts have their types when they add up.                           *)
LEMMA CountsAreTyped ==
  ASSUME NEW v \in Nat, NEW w \in Nat, NEW i \in Nat, v + w + i = Max
  PROVE  v \in 0 .. Max /\ i \in 0 .. Max
  BY SlotsAssumption

LEMMA InitOK ==
  ASSUME Init
  PROVE  Inv
<1>1. Sleeping = {} /\ Inferring = {} /\ Running = {}
  BY DEF Init, Sleeping, Inferring, Running
<1>2. Cardinality(Inferring) = 0 /\ Cardinality(Running) = 0 /\ Cardinality(woken) = 0
  BY <1>1, FS_EmptySet DEF Init
<1>3. TypeOK
  BY SlotsAssumption DEF Init, TypeOK
<1>4. QueueIsWaiting
  BY <1>1 DEF Init, QueueIsWaiting
<1>5. PoolIsKept /\ SlotsAreKept
  BY <1>2, SlotsAssumption DEF Init, PoolIsKept, SlotsAreKept
<1> QED
  BY <1>3, <1>4, <1>5 DEF Inv

LEMMA ArriveOK ==
  ASSUME Inv, NEW p \in Requests, Arrive(p)
  PROVE  Inv'
<1> USE DEF Inv
<1>1. TypeOK'
  BY DEF TypeOK, Arrive, semaphore
<1>2. Sleeping' = Sleeping /\ Inferring' = Inferring /\ Running' \subseteq Running
  BY DEF Arrive, TypeOK, Sleeping, Inferring, Running
<1>3. QueueIsWaiting'
  BY <1>2 DEF QueueIsWaiting, Arrive, semaphore
<1>4. PoolIsKept'
  BY <1>2, NoNewThread DEF Arrive
<1>5. SlotsAreKept'
  BY <1>2 DEF SlotsAreKept, Arrive, semaphore, TypeOK
<1> QED
  BY <1>1, <1>3, <1>4, <1>5

LEMMA RespondOK ==
  ASSUME Inv, NEW p \in Requests, Respond(p)
  PROVE  Inv'
<1> USE DEF Inv
<1>1. TypeOK'
  BY DEF TypeOK, Respond, semaphore
<1>2. Sleeping' = Sleeping /\ Inferring' = Inferring /\ Running' \subseteq Running
  BY DEF Respond, TypeOK, Sleeping, Inferring, Running, Answers
<1>3. QueueIsWaiting'
  BY <1>2 DEF QueueIsWaiting, Respond, semaphore
<1>4. PoolIsKept'
  BY <1>2, NoNewThread DEF Respond
<1>5. SlotsAreKept'
  BY <1>2 DEF SlotsAreKept, Respond, semaphore, TypeOK
<1> QED
  BY <1>1, <1>3, <1>4, <1>5

LEMMA StartOK ==
  ASSUME Inv, NEW p \in Requests, Start(p)
  PROVE  Inv'
<1> USE DEF Inv
<1>1. TypeOK'
  BY DEF TypeOK, Start, semaphore
<1>2. Sleeping' = Sleeping /\ Inferring' = Inferring
  BY DEF Start, Sleeping, Inferring
<1>3. QueueIsWaiting'
  BY <1>2 DEF QueueIsWaiting, Start, semaphore
<1>4. PoolIsKept'
  <2>1. Running' = Running \cup {p}
    BY DEF Start, TypeOK, Running
  <2>2. Running \in SUBSET Requests
    BY DEF Running
  <2>3. IsFiniteSet(Running) /\ Cardinality(Running) \in Nat
    BY <2>2, SlotsAssumption, FS_Subset, FS_CardinalityType
  <2>4. Cardinality(Running') <= Cardinality(Running) + 1 /\ Cardinality(Running') \in Nat
    BY ONLY <2>1, <2>3, FS_AddElement
  <2>5. /\ Cardinality(Running) + orphans < Pool /\ orphans' = orphans
        /\ orphans \in Nat /\ Pool \in Nat
    <3>1. TypeOK /\ Start(p)
      OBVIOUS
    <3> QED
      BY ONLY <3>1, SlotsAssumption DEF Start, TypeOK
  <2>6. Cardinality(Running') + orphans' <= Pool
    BY ONLY <2>3, <2>4, <2>5
  <2> QED
    BY <2>6 DEF PoolIsKept
<1>5. SlotsAreKept'
  BY <1>2 DEF SlotsAreKept, Start, semaphore
<1> QED
  BY <1>1, <1>3, <1>4, <1>5

LEMMA FinishOK ==
  ASSUME Inv, NEW p \in Requests, Finish(p)
  PROVE  Inv'
<1> USE DEF Inv
<1>1. TypeOK'
  BY DEF TypeOK, Finish, semaphore
<1>2. Sleeping' = Sleeping /\ Inferring' = Inferring /\ Running' \subseteq Running
  BY DEF Finish, TypeOK, Sleeping, Inferring, Running
<1>3. QueueIsWaiting'
  BY <1>2 DEF QueueIsWaiting, Finish, semaphore
<1>4. PoolIsKept'
  BY <1>2, NoNewThread DEF Finish
<1>5. SlotsAreKept'
  BY <1>2 DEF SlotsAreKept, Finish, semaphore
<1> QED
  BY <1>1, <1>3, <1>4, <1>5

LEMMA OrphanEndsOK ==
  ASSUME Inv, OrphanEnds
  PROVE  Inv'
<1> USE DEF Inv
<1>1. TypeOK'
  BY SlotsAssumption DEF TypeOK, OrphanEnds, semaphore
<1>2. Sleeping' = Sleeping /\ Inferring' = Inferring /\ Running' = Running
  BY DEF OrphanEnds, Sleeping, Inferring, Running
<1>3. QueueIsWaiting'
  BY <1>2 DEF QueueIsWaiting, OrphanEnds, semaphore
<1>4. PoolIsKept'
  <2>1. Running \in SUBSET Requests
    BY DEF Running
  <2>2. Cardinality(Running) \in Nat
    BY <2>1, SlotsAssumption, FS_Subset, FS_CardinalityType
  <2> QED
    BY <1>2, <2>2, SlotsAssumption DEF OrphanEnds, PoolIsKept, TypeOK
<1>5. SlotsAreKept'
  BY <1>2 DEF SlotsAreKept, OrphanEnds, semaphore
<1> QED
  BY <1>1, <1>3, <1>4, <1>5

(* A request takes a free slot, or queues up.                              *)
LEMMA AcquireOK ==
  ASSUME Inv, NEW p \in Requests, Acquire(p)
  PROVE  Inv'
<1> USE DEF Inv
<1>1. pc[p] = "prepare" /\ p \notin Sleeping /\ job[p] = "done" /\ orphans' = orphans
  BY DEF Acquire, Sleeping
<1>2. IsFiniteSet(Inferring) /\ Cardinality(Inferring) \in Nat
  BY InferringIsFinite DEF TypeOK
<1>3. CASE value > 0 /\ waiters = <<>>
  <2>1. /\ value' = value - 1 /\ waiters' = waiters /\ woken' = woken
        /\ pc' = [pc EXCEPT ![p] = "infer"] /\ job' = [job EXCEPT ![p] = "queued"]
        /\ inflight' = inflight + 1
    BY <1>3 DEF Acquire, Taken, Enter
  <2>2. Sleeping' = Sleeping /\ Running' \subseteq Running
    BY <1>1, <2>1 DEF TypeOK, Sleeping, Running
  <2>3. QueueIsWaiting'
    BY <2>1, <2>2 DEF QueueIsWaiting
  <2>4. PoolIsKept'
    BY <1>1, <2>2, NoNewThread
  <2>5. Cardinality(Inferring') = Cardinality(Inferring) + 1
    BY <1>1, <2>1, OneMorePass
  <2>6. woken = {} /\ Sleeping = {}
    BY <1>3 DEF QueueIsWaiting
  <2>7. SlotsAreKept'
    <3>1. Cardinality(woken) = 0 /\ Sleeping' = {}
      BY <2>2, <2>6, FS_EmptySet
    <3>2. value' + Cardinality(woken') + Cardinality(Inferring') = Max
          /\ inflight' = Cardinality(Inferring')
      BY <2>1, <2>5, <3>1, <1>2 DEF SlotsAreKept, TypeOK
    <3> QED
      BY <3>1, <3>2 DEF SlotsAreKept, Sleeping
  <2>8. value' \in Nat /\ Cardinality(woken') = 0 /\ Cardinality(Inferring') \in Nat
    BY <1>2, <1>3, <2>1, <2>5, <2>6, FS_EmptySet DEF TypeOK
  <2>9. value' \in 0 .. Max /\ inflight' \in 0 .. Max
    BY <2>7, <2>8, CountsAreTyped DEF SlotsAreKept
  <2>10. TypeOK'
    BY <1>1, <2>1, <2>9 DEF TypeOK
  <2> QED
    BY <2>3, <2>4, <2>7, <2>10
<1>4. CASE ~ (value > 0 /\ waiters = <<>>)
  <2>1. /\ value' = value /\ woken' = woken /\ inflight' = inflight
        /\ waiters' = Append(waiters, p)
        /\ pc' = [pc EXCEPT ![p] = "acquire"] /\ job' = [job EXCEPT ![p] = "none"]
    BY <1>4 DEF Acquire
  <2>2. /\ Sleeping' = Sleeping \cup {p} /\ Inferring' = Inferring
        /\ Running' \subseteq Running
    BY <1>1, <2>1 DEF TypeOK, Sleeping, Inferring, Running
  <2>3. TypeOK'
    BY <1>1, <2>1 DEF TypeOK
  <2>4. /\ Distinct(waiters) /\ Members(waiters) = Sleeping
        /\ waiters \in Seq(Requests)
    BY QueueFacts DEF TypeOK
  <2>5. /\ DOMAIN waiters' = 1 .. Len(waiters) + 1 /\ DOMAIN waiters = 1 .. Len(waiters)
        /\ Len(waiters) \in Nat
        /\ waiters'[Len(waiters) + 1] = p
        /\ \A i \in DOMAIN waiters : waiters'[i] = waiters[i]
    BY <2>1, <2>4
  <2>6. Distinct(waiters')
    BY <1>1, <2>4, <2>5 DEF Distinct, Members
  <2>7. Members(waiters') = Sleeping \cup {p}
    BY <2>4, <2>5 DEF Members
  <2>8. QueueIsWaiting'
    BY <2>1, <2>2, <2>6, <2>7 DEF QueueIsWaiting, Distinct, Members
  <2>9. PoolIsKept'
    BY <1>1, <2>2, NoNewThread
  <2>10. value > 0 => woken # {}
    <3>1. SUFFICES ASSUME value > 0 PROVE woken # {}
      OBVIOUS
    <3>2. waiters # <<>>
      BY <1>4, <3>1
    <3>3. 1 \in DOMAIN waiters
      BY <2>4, <3>2
    <3>4. waiters[1] \in Sleeping
      BY <2>4, <3>3 DEF Members
    <3> QED
      BY <3>1, <3>4 DEF SlotsAreKept, Sleeping
  <2>11. SlotsAreKept'
    BY <2>1, <2>2, <2>10 DEF SlotsAreKept
  <2> QED
    BY <2>3, <2>8, <2>9, <2>11
<1> QED
  BY <1>3, <1>4

(* What a hand-over of slots leaves behind, when the slots it began with   *)
(* and the grants that stood then made up the rest.                        *)
LEMMA HandedOver ==
  ASSUME TypeOK, NEW slots \in Nat, NEW most \in Nat \ {0}, NEW queue \in Seq(Requests),
         NEW awake \in SUBSET Members(queue),
         HandOver(slots, most, queue, awake),
         waiters' = queue, Distinct(queue), Members(queue) = Sleeping',
         Cardinality(Inferring') \in Nat, inflight' = Cardinality(Inferring'),
         slots + Cardinality(awake) + Cardinality(Inferring') = Max,
         Cardinality(awake) \in Nat
  PROVE  /\ QueueIsWaiting' /\ SlotsAreKept'
         /\ value' \in 0 .. Max /\ inflight' \in 0 .. Max
         /\ woken' \subseteq Requests /\ waiters' \in Seq(Requests)
<1>1. /\ value' \in 0 .. slots
      /\ woken' \in SUBSET Members(queue)
      /\ Cardinality(woken') \in Nat
      /\ value' + Cardinality(woken') = slots + Cardinality(awake)
      /\ value' > 0 /\ Members(queue) \ woken' # {} => woken' # {}
  BY HandOverKeepsSlots
<1>2. value' + Cardinality(woken') + Cardinality(Inferring') = Max
  BY <1>1
<1>3. value' \in 0 .. Max /\ inflight' \in 0 .. Max
  BY <1>1, <1>2, CountsAreTyped
<1>4. QueueIsWaiting'
  BY <1>1 DEF QueueIsWaiting, Distinct, Members
<1>5. value' > 0 /\ (\E p \in Requests : pc'[p] = "acquire" /\ p \notin woken') => woken' # {}
  BY <1>1 DEF Sleeping
<1>6. SlotsAreKept'
  BY <1>2, <1>5 DEF SlotsAreKept
<1>7. woken' \subseteq Requests /\ waiters' \in Seq(Requests)
  BY <1>1 DEF Members
<1> QED
  BY <1>3, <1>4, <1>6, <1>7

(* Taking a request out of those that were granted a slot.                 *)
LEMMA GrantTaken ==
  ASSUME TypeOK, NEW p
  PROVE  /\ IsFiniteSet(woken) /\ Cardinality(woken) \in Nat
         /\ Cardinality(woken \ {p}) \in Nat
         /\ Cardinality(woken \ {p}) + GivenBack(p) = Cardinality(woken)
<1>1. IsFiniteSet(woken) /\ Cardinality(woken) \in Nat
  BY SlotsAssumption, FS_Subset, FS_CardinalityType DEF TypeOK
<1>2. IsFiniteSet(woken \ {p}) /\ Cardinality(woken \ {p}) \in Nat
      /\ Cardinality(woken \ {p}) = IF p \in woken THEN Cardinality(woken) - 1 ELSE Cardinality(woken)
  BY <1>1, FS_RemoveElement, FS_CardinalityType
<1> QED
  BY <1>1, <1>2 DEF GivenBack

(* A waiter leaves the queue.                                              *)
LEMMA WaiterGone ==
  ASSUME Inv, NEW p \in Sleeping
  PROVE  /\ Without(p, waiters) \in Seq(Requests) /\ Distinct(Without(p, waiters))
         /\ Members(Without(p, waiters)) = Sleeping \ {p}
         /\ woken \ {p} \in SUBSET Members(Without(p, waiters))
<1>1. /\ Distinct(waiters) /\ Members(waiters) = Sleeping /\ woken \in SUBSET Members(waiters)
      /\ waiters \in Seq(Requests)
  BY QueueFacts DEF Inv, TypeOK
<1>2. /\ Without(p, waiters) \in Seq(Requests) /\ Distinct(Without(p, waiters))
      /\ Members(Without(p, waiters)) = Members(waiters) \ {p}
  BY <1>1, WithoutRemoves
<1> QED
  BY <1>1, <1>2

LEMMA ResumeOK ==
  ASSUME Inv, NEW p \in Requests, Resume(p)
  PROVE  Inv'
<1> USE DEF Inv
<1>1. /\ pc[p] = "acquire" /\ p \in woken /\ p \in Sleeping /\ orphans' = orphans
      /\ waiters' = Without(p, waiters)
      /\ HandOver(value, Max, Without(p, waiters), woken \ {p})
      /\ pc' = [pc EXCEPT ![p] = "infer"] /\ job' = [job EXCEPT ![p] = "queued"]
      /\ inflight' = inflight + 1
  BY DEF Resume, Enter, Sleeping
<1>2. Sleeping' = Sleeping \ {p} /\ Running' \subseteq Running
  BY <1>1 DEF TypeOK, Sleeping, Running
<1>3. Cardinality(Inferring') = Cardinality(Inferring) + 1 /\ Cardinality(Inferring) \in Nat
  BY <1>1, OneMorePass, InferringIsFinite DEF TypeOK
<1>4. GivenBack(p) = 1 /\ Cardinality(woken \ {p}) \in Nat /\ Cardinality(woken) \in Nat
      /\ Cardinality(woken \ {p}) + GivenBack(p) = Cardinality(woken)
  BY <1>1, GrantTaken DEF GivenBack
<1>5. value + Cardinality(woken \ {p}) + Cardinality(Inferring') = Max
      /\ inflight' = Cardinality(Inferring')
  BY <1>1, <1>3, <1>4 DEF SlotsAreKept, TypeOK
<1>6. /\ QueueIsWaiting' /\ SlotsAreKept'
      /\ value' \in 0 .. Max /\ inflight' \in 0 .. Max
      /\ woken' \subseteq Requests /\ waiters' \in Seq(Requests)
  <2>1. value \in Nat /\ Max \in Nat \ {0} /\ Cardinality(Inferring') \in Nat
    BY <1>3, SlotsAssumption DEF TypeOK
  <2> QED
    BY <1>1, <1>2, <1>4, <1>5, <2>1, WaiterGone, HandedOver
<1>7. PoolIsKept'
  BY <1>1, <1>2, NoNewThread
<1>8. TypeOK'
  BY <1>1, <1>6 DEF TypeOK
<1> QED
  BY <1>6, <1>7, <1>8

LEMMA OverloadOK ==
  ASSUME Inv, NEW p \in Requests, Overload(p)
  PROVE  Inv'
<1> USE DEF Inv
<1>1. /\ pc[p] = "acquire" /\ p \in Sleeping /\ orphans' = orphans
      /\ waiters' = Without(p, waiters)
      /\ HandOver(value + GivenBack(p), Max, Without(p, waiters), woken \ {p})
      /\ pc' = [pc EXCEPT ![p] = "overloaded"] /\ job' = job
      /\ inflight' = inflight
  BY DEF Overload, Sleeping
<1>2. Sleeping' = Sleeping \ {p} /\ Running' \subseteq Running /\ Inferring' = Inferring
  BY <1>1 DEF TypeOK, Sleeping, Running, Inferring
<1>3. Cardinality(Inferring) \in Nat
  BY InferringIsFinite DEF TypeOK
<1>4. GivenBack(p) \in {0, 1} /\ Cardinality(woken \ {p}) \in Nat /\ Cardinality(woken) \in Nat
      /\ Cardinality(woken \ {p}) + GivenBack(p) = Cardinality(woken)
  BY GrantTaken DEF GivenBack
<1>5. value + GivenBack(p) + Cardinality(woken \ {p}) + Cardinality(Inferring') = Max
      /\ inflight' = Cardinality(Inferring')
  BY <1>1, <1>2, <1>3, <1>4 DEF SlotsAreKept, TypeOK
<1>6. /\ QueueIsWaiting' /\ SlotsAreKept'
      /\ value' \in 0 .. Max /\ inflight' \in 0 .. Max
      /\ woken' \subseteq Requests /\ waiters' \in Seq(Requests)
  <2>1. value + GivenBack(p) \in Nat /\ Max \in Nat \ {0} /\ Cardinality(Inferring') \in Nat
    BY <1>2, <1>3, <1>4, SlotsAssumption DEF TypeOK
  <2> QED
    BY <1>1, <1>2, <1>4, <1>5, <2>1, WaiterGone, HandedOver
<1>7. PoolIsKept'
  BY <1>1, <1>2, NoNewThread
<1>8. TypeOK'
  BY <1>1, <1>6 DEF TypeOK, Answers
<1> QED
  BY <1>6, <1>7, <1>8

(* The slot of a request that answers goes back and on.                    *)
LEMMA LeaveKeepsSlots ==
  ASSUME Inv, NEW p \in Requests, NEW answer \in Answers, pc[p] = "infer", Leave(p, answer)
  PROVE  /\ QueueIsWaiting' /\ SlotsAreKept'
         /\ value' \in 0 .. Max /\ inflight' \in 0 .. Max
         /\ woken' \subseteq Requests /\ waiters' \in Seq(Requests)
         /\ pc' = [pc EXCEPT ![p] = answer] /\ job' = [job EXCEPT ![p] = "none"]
         /\ Running' = Running \ {p}
<1> USE DEF Inv
<1>1. /\ waiters' = waiters /\ HandOver(value + 1, 1, waiters, woken)
      /\ pc' = [pc EXCEPT ![p] = answer] /\ job' = [job EXCEPT ![p] = "none"]
      /\ inflight' = inflight - 1
  BY DEF Leave, Releases
<1>2. Sleeping' = Sleeping /\ Running' = Running \ {p}
  BY <1>1 DEF TypeOK, Sleeping, Running, Answers
<1>3. Cardinality(Inferring') = Cardinality(Inferring) - 1 /\ Cardinality(Inferring) \in Nat
  BY <1>1, OnePassLess, InferringIsFinite DEF TypeOK
<1>4. Cardinality(Inferring') \in Nat
  <2>1. Inferring' \in SUBSET Requests
    BY DEF Inferring
  <2> QED
    BY <2>1, SlotsAssumption, FS_Subset, FS_CardinalityType
<1>5. Cardinality(woken) \in Nat
  BY GrantTaken
<1>6. value + 1 + Cardinality(woken) + Cardinality(Inferring') = Max
      /\ inflight' = Cardinality(Inferring')
  BY <1>1, <1>3, <1>5 DEF SlotsAreKept, TypeOK
<1>7. /\ Distinct(waiters) /\ Members(waiters) = Sleeping'
      /\ woken \in SUBSET Members(waiters)
      /\ waiters \in Seq(Requests) /\ value + 1 \in Nat
  BY <1>2, QueueFacts DEF TypeOK
<1> QED
  BY <1>1, <1>2, <1>4, <1>5, <1>6, <1>7, HandedOver

LEMMA CompleteOK ==
  ASSUME Inv, NEW p \in Requests, Complete(p)
  PROVE  Inv'
<1> USE DEF Inv
<1>1. PICK answer \in {"ok", "failed"} : Leave(p, answer)
  BY DEF Complete
<1>2. answer \in Answers /\ pc[p] = "infer" /\ orphans' = orphans
  BY DEF Answers, Complete
<1>3. /\ QueueIsWaiting' /\ SlotsAreKept'
      /\ value' \in 0 .. Max /\ inflight' \in 0 .. Max
      /\ woken' \subseteq Requests /\ waiters' \in Seq(Requests)
      /\ pc' = [pc EXCEPT ![p] = answer] /\ job' = [job EXCEPT ![p] = "none"]
      /\ Running' = Running \ {p}
  BY <1>1, <1>2, LeaveKeepsSlots
<1>4. TypeOK'
  BY <1>2, <1>3 DEF TypeOK
<1>5. PoolIsKept'
  BY <1>2, <1>3, NoNewThread
<1> QED
  BY <1>3, <1>4, <1>5

LEMMA TimeoutOK ==
  ASSUME Inv, NEW p \in Requests, Timeout(p)
  PROVE  Inv'
<1> USE DEF Inv
<1>1. "timeout" \in Answers /\ pc[p] = "infer" /\ Leave(p, "timeout")
      /\ orphans' = IF job[p] = "running" THEN orphans + 1 ELSE orphans
  BY DEF Answers, Timeout
<1>2. /\ QueueIsWaiting' /\ SlotsAreKept'
      /\ value' \in 0 .. Max /\ inflight' \in 0 .. Max
      /\ woken' \subseteq Requests /\ waiters' \in Seq(Requests)
      /\ pc' = [pc EXCEPT ![p] = "timeout"] /\ job' = [job EXCEPT ![p] = "none"]
      /\ Running' = Running \ {p}
  BY <1>1, LeaveKeepsSlots
<1>3. IsFiniteSet(Running) /\ Cardinality(Running) \in Nat
  <2>1. Running \in SUBSET Requests
    BY DEF Running
  <2> QED
    BY <2>1, SlotsAssumption, FS_Subset, FS_CardinalityType
<1>4. /\ Cardinality(Running') = IF job[p] = "running" THEN Cardinality(Running) - 1
                                 ELSE Cardinality(Running)
      /\ Cardinality(Running') \in Nat
  <2>1. p \in Running <=> job[p] = "running"
    BY DEF Running
  <2> QED
    BY <1>2, <1>3, <2>1, FS_RemoveElement, FS_CardinalityType
<1>5. orphans' \in Nat /\ Cardinality(Running') + orphans' <= Pool
  BY <1>1, <1>3, <1>4 DEF PoolIsKept, TypeOK
<1>6. PoolIsKept' /\ orphans' \in 0 .. Pool
  BY <1>4, <1>5, SlotsAssumption DEF PoolIsKept
<1>7. TypeOK'
  BY <1>1, <1>2, <1>6 DEF TypeOK
<1> QED
  BY <1>2, <1>6, <1>7

LEMMA NextKeeps ==
  ASSUME Inv, [Next]_vars
  PROVE  Inv'
<1>1. CASE UNCHANGED vars
  <2>1. TypeOK' /\ QueueIsWaiting' /\ PoolIsKept' /\ SlotsAreKept'
    BY <1>1 DEF Inv, vars, semaphore, TypeOK, QueueIsWaiting, PoolIsKept, SlotsAreKept,
         Sleeping, Running, Inferring
  <2> QED
    BY <2>1 DEF Inv
<1>2. CASE Next
  BY <1>2, ArriveOK, AcquireOK, ResumeOK, OverloadOK, CompleteOK, TimeoutOK, RespondOK,
     StartOK, FinishOK, OrphanEndsOK DEF Next
<1> QED
  BY <1>1, <1>2

LEMMA InvHolds == Spec => []Inv
  BY InitOK, NextKeeps, PTL DEF Spec

(* Every variable keeps to its type; in particular the semaphore's count   *)
(* is never negative and the abandoned passes fit in the pool.             *)
THEOREM TypeCorrect == Spec => []TypeOK
  BY InvHolds, PTL DEF Inv

(* No slot is lost or made up, and no request sleeps unnoticed beside a    *)
(* free one, for any number of requests and slots and any size of pool.    *)
THEOREM SlotsStay == Spec => []SlotsAreKept
  BY InvHolds, PTL DEF Inv

(* A slot is only ever granted to a request that waits for it, and each    *)
(* request that waits is in the queue exactly once.                        *)
THEOREM GrantsAreWanted == Spec => []QueueIsWaiting
  BY InvHolds, PTL DEF Inv

-----------------------------------------------------------------------------
(* The prediction cache in front of the slots (ServingCache).              *)

UnderWay == {"get", "resolve", "load", "fallback", "set"}

(* The key of a request under way names the version that was pinned and    *)
(* the format that was asked for; a version is loaded for who asked for it.*)
OnItsWay(q) ==
  /\ q.pc \in UnderWay =>
       /\ q.key \in Cache!Key /\ q.key.runtime = Cache!Preferred(q.runtime)
       /\ q.pin # None => q.key.version = q.pin
  /\ q.pc \in {"get", "resolve", "load", "fallback"} => ~ q.degraded
  /\ q.pc \in {"load", "fallback"} =>
       q.version \in Cache!Versions /\ (q.pin # None => q.version = q.pin)
  /\ q.pc \in {"set", "answered"} => q.answer # None

CacheTypeInv ==
  /\ Cache!TypeOK
  /\ \A v \in Cache!Versions, rt \in Asked :
       loaded[v][rt] # None => loaded[v][rt].version = v
  /\ \A p \in Lookups : OnItsWay(request[p])

(* Without a reload between its two resolutions a request is answered for  *)
(* the version in its key.                                                 *)
Consistent(q) ==
  /\ q.pc \in {"get", "resolve"} /\ q.pin = None => q.key.version = Cache!Resolve(None)
  /\ q.pc \in {"load", "fallback"} => q.version = q.key.version
  /\ q.pc = "set" /\ ~ q.degraded => q.answer.version = q.key.version
  /\ q.pc = "answered" /\ q.pin # None /\ ~ q.degraded => q.answer.version = q.pin

VersionInv ==
  "moved" \notin struck =>
    /\ \A k \in Cache!Key : cache[k] # None => cache[k].version = k.version
    /\ \A p \in Lookups : Consistent(request[p])

(* The artifact a key stands for: the content of the first is in the key,  *)
(* the second is the one on disk.                                          *)
ContentFor(k, f) == IF f = "onnx" THEN k.fingerprint ELSE disk[k.version][f]

FormatFor(k) ==
  IF ContentFor(k, k.runtime) # 0 THEN k.runtime ELSE Cache!Other(k.runtime)

Meant(k) ==
  IF ContentFor(k, FormatFor(k)) = 0 THEN None
  ELSE [version |-> k.version, format |-> FormatFor(k), content |-> ContentFor(k, FormatFor(k))]

(* Nothing is loaded, cached or on its way into the cache that is not what *)
(* its version, format and content say.                                    *)
Fresh(q) ==
  /\ q.pc \in UnderWay => q.key.fingerprint = disk[q.key.version]["onnx"]
  /\ q.pc = "set" /\ ~ q.degraded => q.answer = Meant(q.key)

FreshInv ==
  struck = {} =>
    /\ \A v \in Cache!Versions, rt \in Asked :
         loaded[v][rt] # None => loaded[v][rt] = Cache!Build(v, rt)
    /\ \A k \in Cache!Key : cache[k] # None => cache[k] = Meant(k)
    /\ \A p \in Lookups : Fresh(request[p])

CacheInv == CacheTypeInv /\ VersionInv /\ FreshInv

-----------------------------------------------------------------------------
(* What is resolved, built and loaded.                                     *)

LEMMA ResolvedIs ==
  ASSUME Cache!ServingAssumption, Cache!TypeOK, NEW pin \in Cache!Pinned
  PROVE  /\ Cache!Resolve(pin) \in Cache!Versions \cup {None}
         /\ pin # None => Cache!Resolve(pin) \in {pin, None}
<1>1. entries.active \subseteq Cache!Versions /\ entries.default \in Cache!Versions
  BY DEF Cache!TypeOK, Cache!Registry
<1>2. ASSUME entries.active # {} PROVE Cache!Newest(entries.active) \in entries.active
  <2>1. entries.active \subseteq Nat /\ Highest \in Nat /\ \A v \in entries.active : v <= Highest
    BY <1>1 DEF Cache!Versions, Cache!ServingAssumption
  <2>2. \E v \in entries.active : \A w \in entries.active : w <= v
    BY <1>2, <2>1, GreatestNumber
  <2> QED
    BY <2>2 DEF Cache!Newest
<1> QED
  BY <1>1, <1>2 DEF Cache!Resolve, Cache!Pinned

LEMMA BuiltIs ==
  ASSUME Cache!ServingAssumption, Cache!TypeOK, NEW v \in Cache!Versions,
         NEW rt \in Asked \cup Cache!Formats
  PROVE  /\ Cache!Build(v, rt) \in Cache!Artifact \cup {None}
         /\ Cache!Build(v, rt) # None => Cache!Build(v, rt).version = v
         /\ Cache!CacheKey(v, rt) \in Cache!Key
         /\ Cache!CacheKey(v, rt).version = v
         /\ Cache!CacheKey(v, rt).runtime = Cache!Preferred(rt)
         /\ Cache!CacheKey(v, rt).fingerprint = disk[v]["onnx"]
         /\ Cache!Build(v, rt) = Meant(Cache!CacheKey(v, rt))
<1>1. Cache!Preferred(rt) \in Cache!Formats
  BY DEF Cache!Preferred, Cache!Formats, Cache!ServingAssumption
<1>2. \A f \in Cache!Formats : Cache!Other(f) \in Cache!Formats /\ disk[v][f] \in Cache!Content
  BY DEF Cache!Other, Cache!Formats, Cache!TypeOK
<1>3. PICK k \in Cache!Key : /\ k = Cache!CacheKey(v, rt)
                             /\ k.version = v /\ k.fingerprint = disk[v]["onnx"]
                             /\ k.runtime = Cache!Preferred(rt)
  <2>1. disk[v]["onnx"] \in Cache!Content
    BY <1>2 DEF Cache!Formats
  <2>2. [version |-> v, fingerprint |-> disk[v]["onnx"], runtime |-> Cache!Preferred(rt)]
          \in Cache!Key
    BY <1>1, <2>1 DEF Cache!Key
  <2> QED
    BY <2>2 DEF Cache!CacheKey, Cache!Fingerprint
<1>4. \A f : ContentFor(k, f) = disk[v][f]
  BY <1>3 DEF ContentFor
<1> DEFINE fmt == IF disk[v][Cache!Preferred(rt)] # 0 THEN Cache!Preferred(rt)
                  ELSE Cache!Other(Cache!Preferred(rt))
<1>5. FormatFor(k) = fmt
  BY <1>3, <1>4 DEF FormatFor
<1>6. Cache!Build(v, rt) = IF disk[v][fmt] = 0 THEN None
                           ELSE [version |-> v, format |-> fmt, content |-> disk[v][fmt]]
  BY DEF Cache!Build
<1>7. Cache!Build(v, rt) = Meant(k)
  BY <1>3, <1>4, <1>5, <1>6 DEF Meant
<1>8. fmt \in Cache!Formats
  BY <1>1, <1>2
<1>9. /\ Cache!Build(v, rt) \in Cache!Artifact \cup {None}
      /\ Cache!Build(v, rt) # None => Cache!Build(v, rt).version = v
  BY <1>2, <1>6, <1>8 DEF Cache!Artifact
<1> QED
  BY <1>3, <1>7, <1>9

LEMMA LoadedIs ==
  ASSUME Cache!ServingAssumption, CacheInv, NEW v \in Cache!Versions, NEW rt \in Asked
  PROVE  /\ Cache!Load(v, rt) \in Cache!Artifact \cup {None}
         /\ Cache!Load(v, rt) # None => Cache!Load(v, rt).version = v
         /\ struck = {} => Cache!Load(v, rt) = Cache!Build(v, rt)
<1>1. loaded[v][rt] \in Cache!Artifact \cup {None}
  BY DEF CacheInv, CacheTypeInv, Cache!TypeOK
<1>2. /\ loaded[v][rt] # None => loaded[v][rt].version = v
      /\ struck = {} /\ loaded[v][rt] # None => loaded[v][rt] = Cache!Build(v, rt)
  BY DEF CacheInv, CacheTypeInv, FreshInv
<1>3. Cache!TypeOK
  BY DEF CacheInv, CacheTypeInv
<1> QED
  BY <1>1, <1>2, <1>3, BuiltIs DEF Cache!Load

-----------------------------------------------------------------------------
(* A request goes on.                                                      *)

Sound(q) ==
  /\ q \in Cache!Request /\ OnItsWay(q)
  /\ "moved" \notin struck => Consistent(q)
  /\ struck = {} => Fresh(q)

(* Everything else that changes is what this request loads or stores.      *)
Advance(p) ==
  /\ \E q : Sound(q) /\ request' = [request EXCEPT ![p] = q]
  /\ UNCHANGED <<disk, registry, entries, events, struck>>
  /\ \/ UNCHANGED loaded
     \/ \E v \in Cache!Versions, rt \in Asked :
          loaded' = [loaded EXCEPT ![v][rt] = Cache!Load(v, rt)]
  /\ \/ UNCHANGED cache
     \/ \E k \in Cache!Key, artifact \in Cache!Artifact :
          /\ cache' = [cache EXCEPT ![k] = artifact]
          /\ "moved" \notin struck => artifact.version = k.version
          /\ struck = {} => artifact = Meant(k)

LEMMA AdvanceKeeps ==
  ASSUME Cache!ServingAssumption, CacheInv, NEW p \in Lookups, Advance(p)
  PROVE  CacheInv'
<1>1. PICK q : Sound(q) /\ request' = [request EXCEPT ![p] = q]
  BY DEF Advance
<1>2. UNCHANGED <<disk, registry, entries, events, struck>>
  BY DEF Advance
<1>3. \A r \in Lookups : Sound(request[r])
  BY DEF CacheInv, CacheTypeInv, VersionInv, FreshInv, Sound, Cache!TypeOK
<1>4. request \in [Lookups -> Cache!Request]
  BY DEF CacheInv, CacheTypeInv, Cache!TypeOK
<1>5. request' \in [Lookups -> Cache!Request] /\ \A r \in Lookups : Sound(request'[r])
  <2>1. \A r \in Lookups : request'[r] = IF r = p THEN q ELSE request[r]
    BY <1>1, <1>4
  <2> QED
    BY <1>1, <1>3, <1>4, <2>1 DEF Sound
<1>6. /\ loaded' \in [Cache!Versions -> [Asked -> Cache!Artifact \cup {None}]]
      /\ \A v \in Cache!Versions, rt \in Asked :
           loaded'[v][rt] # None =>
             /\ loaded'[v][rt].version = v
             /\ struck = {} => loaded'[v][rt] = Cache!Build(v, rt)
  <2>1. loaded \in [Cache!Versions -> [Asked -> Cache!Artifact \cup {None}]]
    BY DEF CacheInv, CacheTypeInv, Cache!TypeOK
  <2>2. \A v \in Cache!Versions, rt \in Asked :
           loaded[v][rt] # None =>
             /\ loaded[v][rt].version = v
             /\ struck = {} => loaded[v][rt] = Cache!Build(v, rt)
    BY DEF CacheInv, CacheTypeInv, FreshInv
  <2>3. CASE UNCHANGED loaded
    BY <2>1, <2>2, <2>3
  <2>4. ASSUME NEW v \in Cache!Versions, NEW rt \in Asked,
               loaded' = [loaded EXCEPT ![v][rt] = Cache!Load(v, rt)]
        PROVE  <1>6!2 /\ <1>6!1
    <3>1. \A w \in Cache!Versions, ft \in Asked :
             loaded'[w][ft] = IF w = v /\ ft = rt THEN Cache!Load(v, rt) ELSE loaded[w][ft]
      BY <2>1, <2>4
    <3>2. loaded' \in [Cache!Versions -> [Asked -> Cache!Artifact \cup {None}]]
      BY <2>1, <2>4, LoadedIs
    <3> QED
      BY <2>2, <3>1, <3>2, LoadedIs
  <2> QED
    BY <2>3, <2>4 DEF Advance
<1>7. /\ cache' \in [Cache!Key -> Cache!Artifact \cup {None}]
      /\ "moved" \notin struck => \A k \in Cache!Key : cache'[k] # None => cache'[k].version = k.version
      /\ struck = {} => \A k \in Cache!Key : cache'[k] # None => cache'[k] = Meant(k)
  <2>1. cache \in [Cache!Key -> Cache!Artifact \cup {None}]
    BY DEF CacheInv, CacheTypeInv, Cache!TypeOK
  <2>2. CASE UNCHANGED cache
    BY <2>1, <2>2 DEF CacheInv, VersionInv, FreshInv
  <2>3. ASSUME NEW k \in Cache!Key, NEW artifact \in Cache!Artifact,
               cache' = [cache EXCEPT ![k] = artifact],
               "moved" \notin struck => artifact.version = k.version,
               struck = {} => artifact = Meant(k)
        PROVE  <1>7!1 /\ <1>7!2 /\ <1>7!3
    <3>1. \A l \in Cache!Key : cache'[l] = IF l = k THEN artifact ELSE cache[l]
      BY <2>1, <2>3
    <3>2. cache' \in [Cache!Key -> Cache!Artifact \cup {None}]
      BY <2>1, <2>3
    <3> QED
      BY <2>3, <3>1, <3>2 DEF CacheInv, VersionInv, FreshInv
  <2> QED
    BY <2>2, <2>3 DEF Advance
<1>8. /\ Cache!Resolve(None)' = Cache!Resolve(None)
      /\ \A k : Meant(k)' = Meant(k)
      /\ \A v, rt : Cache!Build(v, rt)' = Cache!Build(v, rt)
  BY <1>2 DEF Cache!Resolve, Cache!Newest, Meant, FormatFor, ContentFor, Cache!Build
<1>9. CacheTypeInv'
  BY <1>2, <1>5, <1>6, <1>7 DEF CacheTypeInv, Cache!TypeOK, CacheInv, Sound
<1>10. VersionInv'
  BY <1>2, <1>5, <1>7, <1>8 DEF VersionInv, Sound, Consistent
<1>11. FreshInv'
  BY <1>2, <1>5, <1>6, <1>7, <1>8 DEF FreshInv, Sound, Fresh
<1> QED
  BY <1>9, <1>10, <1>11 DEF CacheInv

LEMMA UnderWayIs ==
  ASSUME CacheInv, NEW p \in Lookups
  PROVE  /\ request[p] \in Cache!Request /\ Sound(request[p])
         /\ request[p].pin \in Cache!Pinned /\ request[p].runtime \in Asked
         /\ request[p].pc \in UnderWay => request[p].key \in Cache!Key
<1>1. request[p] \in Cache!Request
  BY DEF CacheInv, CacheTypeInv, Cache!TypeOK
<1>2. Sound(request[p])
  BY <1>1 DEF CacheInv, CacheTypeInv, VersionInv, FreshInv, Sound
<1> QED
  BY <1>1, <1>2 DEF Sound, OnItsWay, Cache!Request

LEMMA IdleIsSound ==
  ASSUME Cache!ServingAssumption
  PROVE  Sound(Cache!NoRequest) /\ Sound(Cache!Refusal)
<1>1. Cache!NoRequest \in Cache!Request
  BY DEF Cache!NoRequest, Cache!Request, Cache!Pinned, Cache!ServingAssumption
<1>2. Cache!Refusal \in Cache!Request /\ Cache!Refusal.pc = "refused"
  BY <1>1 DEF Cache!Refusal, Cache!Request
<1>3. Cache!NoRequest.pc = "idle"
  BY DEF Cache!NoRequest
<1> QED
  BY <1>1, <1>2, <1>3 DEF Sound, OnItsWay, Consistent, Fresh, UnderWay

LEMMA AnswerIsSound ==
  ASSUME Cache!ServingAssumption, NEW q \in Cache!Request, NEW artifact \in Cache!Artifact,
         artifact # None,
         "moved" \notin struck /\ q.pin # None /\ ~ q.degraded => artifact.version = q.pin
  PROVE  Sound(Cache!Answered(q, artifact))
<1>1. Cache!NoRequest \in Cache!Request
  BY DEF Cache!NoRequest, Cache!Request, Cache!Pinned, Cache!ServingAssumption
<1> DEFINE a == [Cache!NoRequest EXCEPT !.pc = "answered", !.pin = q.pin,
                    !.degraded = q.degraded, !.answer = artifact]
<1>2. /\ a \in Cache!Request /\ a.pc = "answered" /\ a.pin = q.pin
      /\ a.degraded = q.degraded /\ a.answer = artifact
  BY <1>1 DEF Cache!Request
<1> HIDE DEF a
<1>3. Sound(a)
  BY <1>2 DEF Sound, OnItsWay, Consistent, Fresh, UnderWay
<1> QED
  BY <1>3 DEF Cache!Answered, a

LEMMA LookupGoes ==
  ASSUME Cache!ServingAssumption, CacheInv, NEW p \in Lookups, Cache!Lookup(p)
  PROVE  Advance(p)
<1>1. PICK pin \in Pins, rt \in Asked :
        request' = [request EXCEPT ![p] =
          IF Cache!Resolve(pin) = None THEN Cache!Refusal
          ELSE [[Cache!NoRequest EXCEPT !.pin = pin, !.runtime = rt]
                  EXCEPT !.pc = "get", !.key = Cache!CacheKey(Cache!Resolve(pin), rt)]]
  BY DEF Cache!Lookup
<1>2. Cache!TypeOK /\ pin \in Cache!Pinned
  BY DEF CacheInv, CacheTypeInv, Cache!ServingAssumption, Cache!Pinned, Cache!Versions
<1>3. CASE Cache!Resolve(pin) = None
  BY <1>1, <1>3, IdleIsSound DEF Advance, Cache!Lookup
<1>4. CASE Cache!Resolve(pin) # None
  <2> DEFINE k == Cache!CacheKey(Cache!Resolve(pin), rt)
             q == [[Cache!NoRequest EXCEPT !.pin = pin, !.runtime = rt]
                     EXCEPT !.pc = "get", !.key = k]
  <2>1. /\ Cache!Resolve(pin) \in Cache!Versions
        /\ pin # None => Cache!Resolve(pin) = pin
    BY <1>2, <1>4, ResolvedIs
  <2>2. /\ k \in Cache!Key /\ k.version = Cache!Resolve(pin)
        /\ k.runtime = Cache!Preferred(rt) /\ k.fingerprint = disk[Cache!Resolve(pin)]["onnx"]
    BY <1>2, <2>1, BuiltIs
  <2> HIDE DEF k
  <2>3. /\ q.pc = "get" /\ q.pin = pin /\ q.runtime = rt /\ q.key = k /\ q.degraded = FALSE
        /\ q \in Cache!Request
    BY <1>2, <2>2 DEF Cache!NoRequest, Cache!Request, Cache!Pinned
  <2> HIDE DEF q
  <2>4. Sound(q)
    BY <2>1, <2>2, <2>3 DEF Sound, OnItsWay, Consistent, Fresh, UnderWay
  <2>5. request' = [request EXCEPT ![p] = q]
    BY <1>1, <1>4 DEF q, k
  <2> QED
    BY <2>4, <2>5 DEF Advance, Cache!Lookup
<1> QED
  BY <1>3, <1>4

LEMMA CacheGetGoes ==
  ASSUME Cache!ServingAssumption, CacheInv, NEW p \in Lookups, Cache!CacheGet(p)
  PROVE  Advance(p)
<1> DEFINE old == request[p]
<1>1. /\ old \in Cache!Request /\ Sound(old) /\ old.pc = "get"
      /\ old.pin \in Cache!Pinned /\ old.key \in Cache!Key
  BY UnderWayIs DEF Cache!CacheGet, UnderWay
<1>2. request' = [request EXCEPT ![p] = IF cache[old.key] # None
                                        THEN Cache!Answered(old, cache[old.key])
                                        ELSE [old EXCEPT !.pc = "resolve"]]
  <2>1. request \in [Lookups -> Cache!Request]
    BY DEF CacheInv, CacheTypeInv, Cache!TypeOK
  <2> QED
    BY <2>1 DEF Cache!CacheGet
<1>3. CASE cache[old.key] # None
  <2>1. cache[old.key] \in Cache!Artifact
    BY <1>1, <1>3 DEF CacheInv, CacheTypeInv, Cache!TypeOK
  <2>2. /\ "moved" \notin struck => cache[old.key].version = old.key.version
        /\ old.pin # None => old.key.version = old.pin
    BY <1>1, <1>3 DEF CacheInv, VersionInv, Sound, OnItsWay, UnderWay
  <2>3. Sound(Cache!Answered(old, cache[old.key]))
    BY <1>1, <1>3, <2>1, <2>2, AnswerIsSound
  <2> QED
    BY <1>2, <1>3, <2>3 DEF Advance, Cache!CacheGet
<1>4. CASE cache[old.key] = None
  <2> DEFINE q == [old EXCEPT !.pc = "resolve"]
  <2>1. /\ q \in Cache!Request /\ q.pc = "resolve" /\ q.pin = old.pin /\ q.key = old.key
        /\ q.runtime = old.runtime /\ q.degraded = old.degraded
    BY <1>1 DEF Cache!Request
  <2>2. request' = [request EXCEPT ![p] = q]
    BY <1>2, <1>4
  <2> HIDE DEF q
  <2>3. Sound(q)
    BY <1>1, <2>1 DEF Sound, OnItsWay, Consistent, Fresh, UnderWay
  <2> QED
    BY <2>2, <2>3 DEF Advance, Cache!CacheGet
<1> QED
  BY <1>3, <1>4

LEMMA ResolveAgainGoes ==
  ASSUME Cache!ServingAssumption, CacheInv, NEW p \in Lookups, Cache!ResolveAgain(p)
  PROVE  Advance(p)
<1> DEFINE old == request[p]
           v == Cache!Resolve(old.pin)
<1>1. /\ old \in Cache!Request /\ Sound(old) /\ old.pc = "resolve" /\ old.pin \in Cache!Pinned
  BY UnderWayIs DEF Cache!ResolveAgain, UnderWay
<1>2. CASE v = None
  <2>1. request' = [request EXCEPT ![p] = Cache!Refusal]
    BY <1>2 DEF Cache!ResolveAgain, Cache!Refused
  <2> QED
    BY <2>1, IdleIsSound DEF Advance, Cache!ResolveAgain
<1>3. CASE v # None
  <2> DEFINE q == [old EXCEPT !.pc = "load", !.version = v]
  <2>1. v \in Cache!Versions /\ (old.pin # None => v = old.pin)
    BY <1>1, <1>3, ResolvedIs DEF CacheInv, CacheTypeInv
  <2>2. request' = [request EXCEPT ![p] = q]
    BY <1>3 DEF Cache!ResolveAgain
  <2>3. old.pin = None => v = Cache!Resolve(None)
    OBVIOUS
  <2> HIDE DEF v
  <2>4. /\ q \in Cache!Request /\ q.pc = "load" /\ q.pin = old.pin /\ q.key = old.key
        /\ q.runtime = old.runtime /\ q.degraded = old.degraded /\ q.version = v
    BY <1>1, <2>1 DEF Cache!Request, Cache!Pinned
  <2> HIDE DEF q
  <2>5. Sound(q)
    BY <1>1, <2>1, <2>3, <2>4 DEF Sound, OnItsWay, Consistent, Fresh, UnderWay
  <2> QED
    BY <2>2, <2>5 DEF Advance, Cache!ResolveAgain
<1> QED
  BY <1>2, <1>3

(* A model that loads: what it made is what is answered.                   *)
LEMMA UseGoes ==
  ASSUME Cache!ServingAssumption, CacheInv, NEW p \in Lookups,
         NEW v \in Cache!Versions, NEW rt \in Asked, NEW d \in BOOLEAN,
         request[p].pc \in {"load", "fallback"},
         Cache!Load(v, rt) # None,
         d \/ (v = request[p].version /\ rt = request[p].runtime),
         loaded' = [loaded EXCEPT ![v][rt] = Cache!Load(v, rt)],
         UNCHANGED <<disk, registry, entries, cache, events, struck>>,
         NEW q \in Cache!Request,
         q.pc = "set", q.pin = request[p].pin, q.key = request[p].key,
         q.runtime = request[p].runtime, q.degraded = d, q.answer = Cache!Load(v, rt),
         request' = [request EXCEPT ![p] = q]
  PROVE  Advance(p)
<1> DEFINE old == request[p]
<1>1. /\ Sound(old) /\ old.pc \in UnderWay /\ old.key \in Cache!Key
  BY UnderWayIs DEF UnderWay
<1>2. OnItsWay(q)
  BY <1>1 DEF Sound, OnItsWay, UnderWay
<1>3. ASSUME "moved" \notin struck PROVE Consistent(q)
  <2>1. ASSUME ~ d PROVE q.answer.version = q.key.version
    BY <1>1, <1>3, <2>1, LoadedIs DEF Sound, Consistent
  <2> QED
    BY <2>1 DEF Consistent
<1>4. ASSUME struck = {} PROVE Fresh(q)
  <2>1. ASSUME ~ d PROVE q.answer = Meant(q.key)
    <3>1. v = old.key.version
      BY <1>1, <1>4, <2>1 DEF Sound, Consistent
    <3>2. old.key.fingerprint = disk[v]["onnx"] /\ old.key.runtime = Cache!Preferred(rt)
      BY <1>1, <1>4, <2>1, <3>1 DEF Sound, Fresh, OnItsWay
    <3>3. Cache!TypeOK
      BY DEF CacheInv, CacheTypeInv
    <3>4. /\ Cache!Load(v, rt) = Meant(Cache!CacheKey(v, rt))
          /\ Cache!CacheKey(v, rt) \in Cache!Key
          /\ Cache!CacheKey(v, rt).version = v
          /\ Cache!CacheKey(v, rt).runtime = Cache!Preferred(rt)
          /\ Cache!CacheKey(v, rt).fingerprint = disk[v]["onnx"]
      BY <1>4, <3>3, LoadedIs, BuiltIs
    <3>5. \A k, l \in Cache!Key : k.version = l.version /\ k.runtime = l.runtime
                                    /\ k.fingerprint = l.fingerprint => k = l
      BY DEF Cache!Key
    <3>6. old.key = Cache!CacheKey(v, rt)
      BY <1>1, <3>1, <3>2, <3>4, <3>5
    <3> QED
      BY <3>4, <3>6
  <2> QED
    BY <1>1, <1>4, <2>1 DEF Sound, Fresh
<1>5. Sound(q)
  BY <1>2, <1>3, <1>4 DEF Sound
<1> QED
  BY <1>5 DEF Advance

LEMMA LoadModelGoes ==
  ASSUME Cache!ServingAssumption, CacheInv, NEW p \in Lookups, Cache!LoadModel(p)
  PROVE  Advance(p)
<1> DEFINE old == request[p]
<1>1. /\ old \in Cache!Request /\ Sound(old) /\ old.pc = "load" /\ old.runtime \in Asked
      /\ old.version \in Cache!Versions /\ ~ old.degraded
  BY UnderWayIs DEF Cache!LoadModel, UnderWay, Sound, OnItsWay
<1>2. CASE Cache!Load(old.version, old.runtime) # None
  <2> DEFINE artifact == Cache!Load(old.version, old.runtime)
             q == [old EXCEPT !.pc = "set", !.answer = artifact]
  <2>1. /\ request' = [request EXCEPT ![p] = q]
        /\ loaded' = [loaded EXCEPT ![old.version][old.runtime] = artifact]
        /\ UNCHANGED <<disk, registry, entries, cache, events, struck>>
    BY <1>2 DEF Cache!LoadModel, Cache!Use
  <2>2. artifact \in Cache!Artifact \cup {None}
    BY <1>1, LoadedIs
  <2>3. /\ q \in Cache!Request /\ q.pc = "set" /\ q.pin = old.pin /\ q.key = old.key
        /\ q.runtime = old.runtime /\ q.degraded = FALSE /\ q.answer = artifact
    <3> HIDE DEF artifact
    <3> QED
      BY <1>1, <2>2 DEF Cache!Request
  <2> HIDE DEF q
  <2> QED
    BY <1>1, <1>2, <2>1, <2>3, UseGoes
<1>3. CASE Cache!Load(old.version, old.runtime) = None
  <2>1. UNCHANGED <<disk, registry, entries, loaded, cache, events, struck>>
    BY <1>3 DEF Cache!LoadModel
  <2>2. CASE request' = [request EXCEPT ![p] = Cache!Refusal]
    BY <2>1, <2>2, IdleIsSound DEF Advance
  <2>3. CASE request' = [request EXCEPT ![p].pc = "fallback"]
    <3> DEFINE q == [old EXCEPT !.pc = "fallback"]
    <3>1. /\ q \in Cache!Request /\ q.pc = "fallback" /\ q.pin = old.pin /\ q.key = old.key
          /\ q.runtime = old.runtime /\ q.degraded = old.degraded /\ q.version = old.version
      BY <1>1 DEF Cache!Request
    <3>2. request' = [request EXCEPT ![p] = q]
      BY <2>3
    <3> HIDE DEF q
    <3>3. Sound(q)
      BY <1>1, <3>1 DEF Sound, OnItsWay, Consistent, Fresh, UnderWay
    <3> QED
      BY <2>1, <3>2, <3>3 DEF Advance
  <2> QED
    BY <1>3, <2>2, <2>3 DEF Cache!LoadModel, Cache!Refused
<1> QED
  BY <1>2, <1>3

LEMMA FallbackGoes ==
  ASSUME Cache!ServingAssumption, CacheInv, NEW p \in Lookups, Cache!Fallback(p)
  PROVE  Advance(p)
<1> DEFINE old == request[p]
           v == Cache!Resolve(None)
<1>1. /\ old \in Cache!Request /\ Sound(old) /\ old.pc = "fallback" /\ None \in Asked
  BY UnderWayIs DEF Cache!Fallback, UnderWay, Cache!ServingAssumption
<1>2. CASE v # None /\ v # old.pin /\ Cache!Load(v, None) # None
  <2> DEFINE artifact == Cache!Load(v, None)
             q == [old EXCEPT !.pc = "set", !.version = v, !.degraded = TRUE, !.answer = artifact]
  <2>1. v \in Cache!Versions
    BY <1>2, ResolvedIs DEF CacheInv, CacheTypeInv, Cache!Pinned
  <2>2. /\ loaded' = [loaded EXCEPT ![v][None] = artifact]
        /\ request' = [request EXCEPT ![p] = [@ EXCEPT !.pc = "set", !.version = v,
                                                 !.degraded = TRUE, !.answer = artifact]]
        /\ UNCHANGED <<disk, registry, entries, cache, events, struck>>
    BY <1>2 DEF Cache!Fallback, Cache!Degraded
  <2>3. artifact \in Cache!Artifact \cup {None}
    BY <1>1, <2>1, LoadedIs
  <2>4. request' = [request EXCEPT ![p] = q]
    <3> HIDE DEF v, artifact
    <3>1. request \in [Lookups -> Cache!Request]
      BY DEF CacheInv, CacheTypeInv, Cache!TypeOK
    <3> QED
      BY <2>2, <3>1
  <2>5. /\ q \in Cache!Request /\ q.pc = "set" /\ q.pin = old.pin /\ q.key = old.key
        /\ q.runtime = old.runtime /\ q.degraded = TRUE /\ q.answer = artifact
    <3> HIDE DEF artifact, v
    <3> QED
      BY <1>1, <2>1, <2>3 DEF Cache!Request, Cache!Pinned
  <2> HIDE DEF q, v
  <2> QED
    BY <1>1, <1>2, <2>1, <2>2, <2>4, <2>5, UseGoes
<1>3. CASE ~ (v # None /\ v # old.pin /\ Cache!Load(v, None) # None)
  <2>1. request' = [request EXCEPT ![p] = Cache!Refusal] /\ UNCHANGED loaded
    BY <1>3 DEF Cache!Fallback, Cache!Refused
  <2> QED
    BY <2>1, IdleIsSound DEF Advance, Cache!Fallback
<1> QED
  BY <1>2, <1>3

LEMMA CacheSetGoes ==
  ASSUME Cache!ServingAssumption, CacheInv, NEW p \in Lookups, Cache!CacheSet(p)
  PROVE  Advance(p)
<1> DEFINE old == request[p]
<1>1. /\ old \in Cache!Request /\ Sound(old) /\ old.pc = "set" /\ old.key \in Cache!Key
      /\ old.answer # None /\ old.answer \in Cache!Artifact
  BY UnderWayIs DEF Cache!CacheSet, UnderWay, Sound, OnItsWay, Cache!Request
<1>2. "moved" \notin struck /\ ~ old.degraded => old.answer.version = old.key.version
  BY <1>1 DEF Sound, Consistent
<1>3. struck = {} /\ ~ old.degraded => old.answer = Meant(old.key)
  BY <1>1 DEF Sound, Fresh
<1>4. old.pin # None => old.key.version = old.pin
  BY <1>1 DEF Sound, OnItsWay, UnderWay
<1>5. Sound(Cache!Answered(old, old.answer))
  BY <1>1, <1>2, <1>4, AnswerIsSound
<1>6. /\ request' = [request EXCEPT ![p] = Cache!Answered(old, old.answer)]
      /\ UNCHANGED <<disk, registry, entries, loaded, events, struck>>
      /\ cache' = IF ~ old.degraded THEN [cache EXCEPT ![old.key] = old.answer] ELSE cache
  BY DEF Cache!CacheSet, Cache!Cacheable
<1>7. \/ UNCHANGED cache
      \/ \E k \in Cache!Key, artifact \in Cache!Artifact :
           /\ cache' = [cache EXCEPT ![k] = artifact]
           /\ "moved" \notin struck => artifact.version = k.version
           /\ struck = {} => artifact = Meant(k)
  BY <1>1, <1>2, <1>3, <1>6
<1> QED
  BY <1>5, <1>6, <1>7 DEF Advance

LEMMA RespondGoes ==
  ASSUME Cache!ServingAssumption, CacheInv, NEW p \in Lookups, Cache!Respond(p)
  PROVE  Advance(p)
BY IdleIsSound DEF Advance, Cache!Respond

-----------------------------------------------------------------------------
(* Operations.                                                             *)

(* What the operators do to the files and what restarts do to a process.   *)
LEMMA ReloadKeeps ==
  ASSUME Cache!ServingAssumption, CacheInv, Cache!Reload
  PROVE  CacheInv'
<1>1. cache \in [Cache!Key -> Cache!Artifact \cup {None}]
  BY DEF CacheInv, CacheTypeInv, Cache!TypeOK
<1>2. cache' = cache
  BY <1>1 DEF Cache!Reload, Cache!Invalidated
<1>3. /\ entries' = registry /\ UNCHANGED <<disk, registry, loaded, request, events>>
      /\ struck' = IF \E p \in Lookups : Cache!Between(p) THEN struck \cup {"moved"} ELSE struck
  BY DEF Cache!Reload
<1>4. CacheTypeInv'
  BY <1>2, <1>3 DEF CacheInv, CacheTypeInv, Cache!TypeOK, Cache!Upsets
<1>5. ASSUME "moved" \notin struck'
      PROVE  struck' = struck /\ \A p \in Lookups : ~ Cache!Between(p)
  BY <1>3, <1>5
<1>6. VersionInv'
  <2>1. ASSUME "moved" \notin struck', NEW p \in Lookups PROVE Consistent(request[p])'
    BY <1>3, <1>5, <2>1 DEF CacheInv, VersionInv, Consistent, Cache!Between
  <2>2. ASSUME "moved" \notin struck', NEW k \in Cache!Key, cache'[k] # None
        PROVE  cache'[k].version = k.version
    BY <1>2, <1>5, <2>2 DEF CacheInv, VersionInv
  <2> QED
    BY <2>1, <2>2 DEF VersionInv
<1>7. FreshInv'
  <2>1. ASSUME struck' = {} PROVE struck = {}
    BY <1>5, <2>1
  <2>2. /\ \A k : Meant(k)' = Meant(k)
        /\ \A v, rt : Cache!Build(v, rt)' = Cache!Build(v, rt)
    BY <1>3 DEF Meant, FormatFor, ContentFor, Cache!Build
  <2> QED
    BY <1>2, <1>3, <2>1, <2>2 DEF CacheInv, FreshInv, Fresh
<1> QED
  BY <1>4, <1>6, <1>7 DEF CacheInv

LEMMA WriteIs ==
  ASSUME Cache!ServingAssumption, CacheInv, events < MaxEvents,
         NEW v \in Cache!Versions, NEW f \in Cache!Formats, Cache!Write(v, f)
  PROVE  /\ disk' \in [Cache!Versions -> [Cache!Formats -> Cache!Content]]
         /\ f = "onnx" => \A w : disk'[w]["onnx_int8"] = disk[w]["onnx_int8"]
<1>1. PICK content \in {events + 2, 0} : disk' = [disk EXCEPT ![v][f] = content]
  BY DEF Cache!Write
<1>2. content \in Cache!Content
  BY DEF CacheInv, CacheTypeInv, Cache!TypeOK, Cache!Content, Cache!ServingAssumption
<1>3. disk \in [Cache!Versions -> [Cache!Formats -> Cache!Content]]
  BY DEF CacheInv, CacheTypeInv, Cache!TypeOK
<1>4. disk' \in [Cache!Versions -> [Cache!Formats -> Cache!Content]]
  BY <1>1, <1>2, <1>3
<1>5. ASSUME f = "onnx", NEW w PROVE disk'[w]["onnx_int8"] = disk[w]["onnx_int8"]
  <2>1. disk' = [disk EXCEPT ![v] = [disk[v] EXCEPT !["onnx"] = content]]
    BY <1>1, <1>5
  <2>2. disk[v] \in [Cache!Formats -> Cache!Content] /\ "onnx_int8" \in Cache!Formats
    BY <1>3 DEF Cache!Formats
  <2>3. [disk[v] EXCEPT !["onnx"] = content]["onnx_int8"] = disk[v]["onnx_int8"]
    BY <2>2
  <2>4. disk'[w] = IF w = v THEN [disk[v] EXCEPT !["onnx"] = content] ELSE disk[w]
    BY <1>3, <2>1
  <2> QED
    BY <2>3, <2>4
<1> QED
  BY <1>4, <1>5

LEMMA UnloadedIs ==
  ASSUME loaded' = Cache!Unloaded
  PROVE  /\ loaded' \in [Cache!Versions -> [Asked -> Cache!Artifact \cup {None}]]
         /\ \A v \in Cache!Versions, rt \in Asked : loaded'[v][rt] = None
BY DEF Cache!Unloaded

(* The next process starts with nothing but the cache.                     *)
LEMMA NewProcessKeeps ==
  ASSUME Cache!ServingAssumption, CacheInv,
         loaded' = Cache!Unloaded, entries' = registry,
         request' = [p \in Lookups |-> Cache!NoRequest],
         UNCHANGED <<registry, cache>>,
         disk' \in [Cache!Versions -> [Cache!Formats -> Cache!Content]],
         events' \in 0 .. MaxEvents,
         struck \subseteq struck', struck' \subseteq Cache!Upsets,
         struck' = {} => \A v \in Cache!Versions : disk'[v]["onnx_int8"] = disk[v]["onnx_int8"]
  PROVE  CacheInv'
<1>1. Cache!NoRequest \in Cache!Request /\ Cache!NoRequest.pc = "idle"
  BY DEF Cache!NoRequest, Cache!Request, Cache!Pinned, Cache!ServingAssumption
<1>2. \A p \in Lookups : request'[p] = Cache!NoRequest
  OBVIOUS
<1>3. OnItsWay(Cache!NoRequest)
  BY <1>1 DEF OnItsWay, UnderWay
<1>4. CacheTypeInv'
  <2>1. Cache!TypeOK'
    BY <1>1, UnloadedIs DEF CacheInv, CacheTypeInv, Cache!TypeOK
  <2> QED
    BY <1>2, <1>3, <2>1, UnloadedIs DEF CacheTypeInv
<1>5. VersionInv'
  <2>1. \A p \in Lookups : Consistent(request[p])'
    BY <1>1, <1>2 DEF Consistent
  <2> QED
    BY <2>1 DEF CacheInv, VersionInv
<1>6. FreshInv'
  <2>1. \A p \in Lookups : Fresh(request[p])'
    BY <1>1, <1>2 DEF Fresh, UnderWay
  <2>2. ASSUME struck' = {}, NEW k \in Cache!Key PROVE Meant(k)' = Meant(k)
    <3>1. k.version \in Cache!Versions /\ k.runtime \in Cache!Formats
      BY DEF Cache!Key
    <3>2. \A f \in Cache!Formats : ContentFor(k, f)' = ContentFor(k, f)
      BY <2>2, <3>1 DEF ContentFor, Cache!Formats
    <3>3. FormatFor(k)' = FormatFor(k) /\ FormatFor(k) \in Cache!Formats
      BY <3>1, <3>2 DEF FormatFor, Cache!Other, Cache!Formats
    <3> QED
      BY <3>2, <3>3 DEF Meant
  <2>3. ASSUME struck' = {}, NEW k \in Cache!Key, cache'[k] # None
        PROVE  (cache[k] = Meant(k))'
    BY <2>2, <2>3 DEF CacheInv, FreshInv
  <2> QED
    BY <2>1, <2>3, UnloadedIs DEF FreshInv
<1> QED
  BY <1>4, <1>5, <1>6 DEF CacheInv

LEMMA EventIs ==
  ASSUME Cache!ServingAssumption, CacheInv, NEW kind, Cache!Event(kind)
  PROVE  events' \in 0 .. MaxEvents /\ events < MaxEvents
BY DEF CacheInv, CacheTypeInv, Cache!TypeOK, Cache!Event, Cache!ServingAssumption

LEMMA RolloutKeeps ==
  ASSUME Cache!ServingAssumption, CacheInv, Cache!Rollout \/ Cache!Restart
  PROVE  CacheInv'
<1>1. CASE Cache!Rollout
  <2>1. PICK v \in Cache!Versions, f \in Cache!Formats :
          Cache!Write(v, f) /\ struck' = struck \cup Cache!Second(f)
    BY <1>1 DEF Cache!Rollout
  <2>2. events' \in 0 .. MaxEvents /\ events < MaxEvents
    BY <1>1, EventIs DEF Cache!Rollout
  <2>3. struck \subseteq struck' /\ struck' \subseteq Cache!Upsets
    BY <2>1 DEF Cache!Second, Cache!Upsets, CacheInv, CacheTypeInv, Cache!TypeOK
  <2>4. struck' = {} => f = "onnx"
    BY <2>1 DEF Cache!Second
  <2>5. /\ loaded' = Cache!Unloaded /\ entries' = registry
        /\ request' = [p \in Lookups |-> Cache!NoRequest] /\ UNCHANGED <<registry, cache>>
    BY <1>1 DEF Cache!Rollout
  <2> QED
    BY <2>1, <2>2, <2>3, <2>4, <2>5, WriteIs, NewProcessKeeps
<1>2. CASE Cache!Restart
  <2>1. /\ loaded' = Cache!Unloaded /\ entries' = registry
        /\ request' = [p \in Lookups |-> Cache!NoRequest]
        /\ UNCHANGED <<registry, cache, disk, struck>>
    BY <1>2 DEF Cache!Restart
  <2>2. events' \in 0 .. MaxEvents
    BY <1>2, EventIs DEF Cache!Restart
  <2>3. /\ disk' \in [Cache!Versions -> [Cache!Formats -> Cache!Content]]
        /\ struck' \subseteq Cache!Upsets
    BY <2>1 DEF CacheInv, CacheTypeInv, Cache!TypeOK
  <2> QED
    BY <2>1, <2>2, <2>3, NewProcessKeeps
<1> QED
  BY <1>1, <1>2

LEMMA ReplaceKeeps ==
  ASSUME Cache!ServingAssumption, CacheInv, Cache!Replace
  PROVE  CacheInv'
<1>1. PICK v \in Cache!Versions, f \in Cache!Formats :
        Cache!Write(v, f) /\ struck' = struck \cup Cache!Second(f) \cup {"replaced"}
  BY DEF Cache!Replace
<1>2. events' \in 0 .. MaxEvents /\ events < MaxEvents
  BY EventIs DEF Cache!Replace
<1>3. disk' \in [Cache!Versions -> [Cache!Formats -> Cache!Content]]
  BY <1>1, <1>2, WriteIs
<1>4. /\ struck' # {} /\ ("moved" \in struck' <=> "moved" \in struck)
      /\ struck' \subseteq Cache!Upsets
  BY <1>1 DEF Cache!Second, Cache!Upsets, CacheInv, CacheTypeInv, Cache!TypeOK
<1>5. UNCHANGED <<registry, entries, loaded, cache, request>>
  BY DEF Cache!Replace
<1>6. CacheTypeInv'
  BY <1>2, <1>3, <1>4, <1>5 DEF CacheInv, CacheTypeInv, Cache!TypeOK
<1>7. VersionInv'
  <2>1. Cache!Resolve(None)' = Cache!Resolve(None)
    BY <1>5 DEF Cache!Resolve, Cache!Newest
  <2> QED
    BY <1>4, <1>5, <2>1 DEF CacheInv, VersionInv, Consistent
<1> QED
  BY <1>4, <1>6, <1>7 DEF CacheInv, FreshInv

LEMMA RegistryKeeps ==
  ASSUME Cache!ServingAssumption, CacheInv,
         Cache!SetDefault \/ Cache!Retire \/ Cache!Expire
  PROVE  CacheInv'
<1>1. events' \in 0 .. MaxEvents
  BY EventIs DEF Cache!SetDefault, Cache!Retire, Cache!Expire
<1>2. registry' \in Cache!Registry
  BY DEF CacheInv, CacheTypeInv, Cache!TypeOK, Cache!Registry,
         Cache!SetDefault, Cache!Retire, Cache!Expire
<1>3. UNCHANGED <<disk, entries, loaded, request, struck>>
  BY DEF Cache!SetDefault, Cache!Retire, Cache!Expire
<1>4. /\ cache' \in [Cache!Key -> Cache!Artifact \cup {None}]
      /\ \A k \in Cache!Key : cache'[k] \in {cache[k], None}
  <2>1. cache \in [Cache!Key -> Cache!Artifact \cup {None}]
    BY DEF CacheInv, CacheTypeInv, Cache!TypeOK
  <2>2. UNCHANGED cache \/ \E k \in Cache!Key : cache' = [cache EXCEPT ![k] = None]
    BY DEF Cache!SetDefault, Cache!Retire, Cache!Expire
  <2> QED
    BY <2>1, <2>2
<1>5. /\ Cache!Resolve(None)' = Cache!Resolve(None)
      /\ \A k : Meant(k)' = Meant(k)
      /\ \A v, rt : Cache!Build(v, rt)' = Cache!Build(v, rt)
  BY <1>3 DEF Cache!Resolve, Cache!Newest, Meant, FormatFor, ContentFor, Cache!Build
<1>6. CacheTypeInv'
  BY <1>1, <1>2, <1>3, <1>4 DEF CacheInv, CacheTypeInv, Cache!TypeOK
<1>7. VersionInv'
  <2>1. ASSUME "moved" \notin struck, NEW k \in Cache!Key, cache'[k] # None
        PROVE  cache'[k].version = k.version
    BY <1>4, <2>1 DEF CacheInv, VersionInv
  <2> QED
    BY <1>3, <1>5, <2>1 DEF CacheInv, VersionInv, Consistent
<1>8. FreshInv'
  <2>1. ASSUME struck = {}, NEW k \in Cache!Key, cache'[k] # None
        PROVE  cache'[k] = Meant(k)
    BY <1>4, <2>1 DEF CacheInv, FreshInv
  <2> QED
    BY <1>3, <1>5, <2>1 DEF CacheInv, FreshInv, Fresh
<1> QED
  BY <1>6, <1>7, <1>8 DEF CacheInv

-----------------------------------------------------------------------------
LEMMA CacheInitOK ==
  ASSUME Cache!ServingAssumption, Cache!Init
  PROVE  CacheInv
<1>1. Sound(Cache!NoRequest)
  BY IdleIsSound
<1>2. /\ request = [p \in Lookups |-> Cache!NoRequest]
      /\ loaded = [v \in Cache!Versions |-> [rt \in Asked |-> None]]
      /\ cache = [k \in Cache!Key |-> None]
      /\ registry = [active |-> Cache!Versions, default |-> 1] /\ entries = registry
      /\ events = 0 /\ struck = {}
  BY DEF Cache!Init
<1>3. disk \in [Cache!Versions -> [Cache!Formats -> Cache!Content]]
  BY DEF Cache!Init, Cache!Content, Cache!ServingAssumption
<1>4. registry \in Cache!Registry
  BY <1>2 DEF Cache!Registry, Cache!Versions, Cache!ServingAssumption
<1>5. CacheTypeInv
  BY <1>1, <1>2, <1>3, <1>4 DEF CacheTypeInv, Cache!TypeOK, Sound, Cache!ServingAssumption
<1>6. VersionInv /\ FreshInv
  BY <1>1, <1>2 DEF VersionInv, FreshInv, Sound
<1> QED
  BY <1>5, <1>6 DEF CacheInv

LEMMA CacheNextKeeps ==
  ASSUME Cache!ServingAssumption, CacheInv, [Cache!Next]_(Cache!vars)
  PROVE  CacheInv'
<1>1. CASE UNCHANGED Cache!vars
  <2>1. UNCHANGED <<disk, registry, entries, loaded, cache, request, events, struck>>
    BY <1>1 DEF Cache!vars
  <2>2. /\ Cache!Resolve(None)' = Cache!Resolve(None)
        /\ \A k : Meant(k)' = Meant(k)
        /\ \A v, rt : Cache!Build(v, rt)' = Cache!Build(v, rt)
    BY <2>1 DEF Cache!Resolve, Cache!Newest, Meant, FormatFor, ContentFor, Cache!Build
  <2>3. CacheTypeInv'
    BY <2>1 DEF CacheInv, CacheTypeInv, Cache!TypeOK
  <2>4. VersionInv'
    BY <2>1, <2>2 DEF CacheInv, VersionInv, Consistent
  <2>5. FreshInv'
    BY <2>1, <2>2 DEF CacheInv, FreshInv, Fresh
  <2> QED
    BY <2>3, <2>4, <2>5 DEF CacheInv
<1>2. ASSUME NEW p \in Lookups,
             \/ Cache!Lookup(p) \/ Cache!CacheGet(p) \/ Cache!ResolveAgain(p)
             \/ Cache!LoadModel(p) \/ Cache!Fallback(p) \/ Cache!CacheSet(p) \/ Cache!Respond(p)
      PROVE  CacheInv'
  <2>1. Advance(p)
    BY <1>2, LookupGoes, CacheGetGoes, ResolveAgainGoes, LoadModelGoes, FallbackGoes,
       CacheSetGoes, RespondGoes
  <2> QED
    BY <2>1, AdvanceKeeps
<1> QED
  BY <1>1, <1>2, ReloadKeeps, RolloutKeeps, ReplaceKeeps, RegistryKeeps DEF Cache!Next

LEMMA CacheInvHolds == Cache!ServingAssumption => (Cache!Spec => []CacheInv)
<1> SUFFICES ASSUME Cache!ServingAssumption PROVE Cache!Spec => []CacheInv
  OBVIOUS
<1>1. Cache!Init => CacheInv
  BY CacheInitOK
<1>2. CacheInv /\ [Cache!Next]_(Cache!vars) => CacheInv'
  BY CacheNextKeeps
<1> QED
  BY <1>1, <1>2, PTL DEF Cache!Spec

(* Registry, models, cache and requests keep to their types.               *)
THEOREM CacheIsTyped ==
  ASSUME Cache!ServingAssumption PROVE Cache!Spec => []Cache!TypeOK
<1>1. CacheInv => Cache!TypeOK
  BY DEF CacheInv, CacheTypeInv
<1> QED
  BY <1>1, CacheInvHolds, PTL

(* For any versions, pins and number of requests, and whatever happens to  *)
(* files, registry and process in any number: who pinned a version is      *)
(* answered by it or told, unless the registry was reloaded between the    *)
(* two resolutions of a request (_predict() and ModelService.get()).       *)
THEOREM PinsAreHonoured ==
  ASSUME Cache!ServingAssumption PROVE Cache!Spec => []PinIsHonoured
<1>1. CacheInv => PinIsHonoured
  BY DEF CacheInv, VersionInv, Consistent, PinIsHonoured, Cache!PinIsHonoured
<1> QED
  BY <1>1, CacheInvHolds, PTL

(* As long as the fingerprinted artifact changes, and only with a restart, *)
(* a lookup finds what the files on disk would answer                      *)
(* (artifact_fingerprint() in model_service.py).                           *)
THEOREM CacheStaysFresh ==
  ASSUME Cache!ServingAssumption PROVE Cache!Spec => []CacheIsFresh
<1>1. ASSUME CacheInv, NEW v \in Cache!Versions, NEW rt \in Cache!Formats, struck = {},
             cache[Cache!CacheKey(v, rt)] # None
      PROVE  cache[Cache!CacheKey(v, rt)] = Cache!Build(v, rt)
  <2>1. Cache!TypeOK
    BY <1>1 DEF CacheInv, CacheTypeInv
  <2>2. /\ Cache!CacheKey(v, rt) \in Cache!Key
        /\ Cache!Build(v, rt) = Meant(Cache!CacheKey(v, rt))
    BY <2>1, BuiltIs
  <2> QED
    BY <1>1, <2>2 DEF CacheInv, FreshInv
<1>2. CacheInv => CacheIsFresh
  BY <1>1 DEF CacheIsFresh, Cache!CacheIsFresh
<1> QED
  BY <1>2, CacheInvHolds, PTL
=============================================================================
