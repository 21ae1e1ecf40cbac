------------------------- MODULE ApiProcess_proofs -------------------------
(***************************************************************************)
(* Proofs about ApiProcess: its types, that one caller at a time tries to  *)
(* reach a Redis that was lost, and that predictions leave their rows.     *)
(* The second alone is not inductive: the reason is the order in           *)
(* _maybe_reconnect(), where an attempt puts the next one off before it    *)
(* waits, so that the interval is running as long as somebody waits for an *)
(* answer.                                                                 *)
(***************************************************************************)
EXTENDS ApiProcess, FiniteSetTheorems, TLAPS

OneProbe   == \A r, s \in Probes : r = s
ProbeWaits == Probes # {} => waiting

IInv == TypeOK /\ OneProbe /\ ProbeWaits

-----------------------------------------------------------------------------
(* Requests and probes.                                                    *)

(* A request written over: the only probe that may appear is its own.      *)
LEMMA Written ==
  ASSUME req \in [Requests -> Request], NEW r \in Requests, NEW q \in Request,
         req' = [req EXCEPT ![r] = q], look' = look
  PROVE  /\ req' \in [Requests -> Request]
         /\ Probes' \subseteq Probes \cup {<<"request", r>>}
         /\ q.probing = req[r].probing \/ q.probing = FALSE => Probes' \subseteq Probes
<1>1. req' \in [Requests -> Request]
  OBVIOUS
<1>2. \A s \in Requests : req'[s] = IF s = r THEN q ELSE req[s]
  OBVIOUS
<1>3. {s \in Requests : req'[s].probing} \subseteq {s \in Requests : req[s].probing} \cup {r}
  BY <1>2
<1>4. q.probing = req[r].probing \/ q.probing = FALSE =>
        {s \in Requests : req'[s].probing} \subseteq {s \in Requests : req[s].probing}
  BY <1>2
<1> QED
  BY <1>1, <1>3, <1>4 DEF Probes

(* No probe begins and the interval goes on.                               *)
LEMMA NoProbeBegins ==
  ASSUME IInv, TypeOK', Probes' \subseteq Probes, Probes' # {} => (waiting => waiting')
  PROVE  IInv'
  BY DEF IInv, OneProbe, ProbeWaits

(* A probe begins only while there is no other.                            *)
LEMMA ProbeBegins ==
  ASSUME IInv, TypeOK', ~waiting, waiting', NEW p, Probes' \subseteq Probes \cup {p}
  PROVE  IInv'
  BY DEF IInv, OneProbe, ProbeWaits

(* The head of get() and set(), for the request as the caller leaves it.   *)
LEMMA AskedFor ==
  ASSUME TypeOK, NEW r \in Requests, NEW q \in Request, q.probing = req[r].probing,
         NEW stage \in Stages, NEW otherwise \in Stages, Ask(r, q, stage, otherwise)
  PROVE  /\ req' \in [Requests -> Request]
         /\ redis' \in BOOLEAN /\ caching' \in BOOLEAN /\ waiting' \in BOOLEAN /\ look' = look
         /\ \/ Probes' \subseteq Probes /\ waiting' = waiting
            \/ ~waiting /\ waiting' /\ Probes' \subseteq Probes \cup {<<"request", r>>}
<1> USE DEF TypeOK
<1>1. CASE caching
  <2>1. req' = [req EXCEPT ![r] = [q EXCEPT !.pc = stage]] /\ UNCHANGED cache
    BY <1>1 DEF Ask
  <2>2. [q EXCEPT !.pc = stage] \in Request /\ [q EXCEPT !.pc = stage].probing = req[r].probing
    BY DEF Request
  <2>4. redis' = redis /\ caching' = caching /\ waiting' = waiting /\ look' = look
    BY <2>1 DEF cache
  <2>3. req' \in [Requests -> Request] /\ Probes' \subseteq Probes
    BY <2>1, <2>2, <2>4, Written
  <2>5. redis' \in BOOLEAN /\ caching' \in BOOLEAN /\ waiting' \in BOOLEAN
    BY <2>4, Zenon
  <2> QED
    BY <2>3, <2>4, <2>5, Zenon
<1>2. CASE ~caching /\ waiting
  <2>1. req' = [req EXCEPT ![r] = [q EXCEPT !.pc = otherwise]] /\ UNCHANGED cache
    BY <1>2 DEF Ask
  <2>2. /\ [q EXCEPT !.pc = otherwise] \in Request
        /\ [q EXCEPT !.pc = otherwise].probing = req[r].probing
    BY DEF Request
  <2>4. redis' = redis /\ caching' = caching /\ waiting' = waiting /\ look' = look
    BY <2>1 DEF cache
  <2>3. req' \in [Requests -> Request] /\ Probes' \subseteq Probes
    BY <2>1, <2>2, <2>4, Written
  <2>5. redis' \in BOOLEAN /\ caching' \in BOOLEAN /\ waiting' \in BOOLEAN
    BY <2>4, Zenon
  <2> QED
    BY <2>3, <2>4, <2>5, Zenon
<1>3. CASE ~caching /\ ~waiting
  <2>1. /\ req' = [req EXCEPT ![r] = [q EXCEPT !.pc = stage, !.probing = TRUE]]
        /\ waiting' = TRUE /\ UNCHANGED <<redis, caching, look>>
    BY <1>3 DEF Ask, PutOff
  <2>2. [q EXCEPT !.pc = stage, !.probing = TRUE] \in Request
    BY DEF Request, Stages
  <2>3. /\ req' \in [Requests -> Request]
        /\ Probes' \subseteq Probes \cup {<<"request", r>>}
    BY <2>1, <2>2, Written
  <2> QED
    BY <1>3, <2>1, <2>3
<1> QED
  BY <1>1, <1>2, <1>3

-----------------------------------------------------------------------------
(* The steps.                                                              *)

LEMMA InitIInv == Init => IInv
<1> SUFFICES ASSUME Init PROVE IInv
  OBVIOUS
<1>1. TypeOK
  <2>1. req \in [Requests -> Request]
    BY DEF Init, Request, Stages, Rows
  <2>2. faults \in 0 .. MaxFaults
    BY ProcessAssumption DEF Init
  <2> QED
    BY <2>1, <2>2 DEF Init, TypeOK
<1>2. Probes = {}
  BY DEF Init, Probes
<1> QED
  BY <1>1, <1>2 DEF IInv, OneProbe, ProbeWaits

LEMMA GoneKeeps ==
  ASSUME IInv, Gone, faults' \in 0 .. MaxFaults
  PROVE  IInv'
<1>1. \A r \in Requests : Cut(req[r]) \in Request /\ ~Cut(req[r]).probing
  BY DEF IInv, TypeOK, Cut, Request, Stages, Rows
<1>2. req' \in [Requests -> Request] /\ Probes' = {}
  BY <1>1 DEF Gone, Probes
<1>3. TypeOK'
  BY <1>2 DEF IInv, TypeOK, Gone, UnloadAll
<1> QED
  BY <1>2, <1>3, NoProbeBegins

(* Steps that leave the requests alone, and the interval running.          *)
LEMMA QuietKeeps ==
  ASSUME IInv, Start \/ Terminate \/ Restart \/ Repair \/ RedisOutage \/ RedisRecovery \/ Recovery
  PROVE  IInv'
<1> USE ProcessAssumption DEF IInv, TypeOK, process, database, cache
<1>1. req' = req /\ waiting' = waiting /\ look' = look
  BY DEF Start, Terminate, Restart, Repair, RedisOutage, RedisRecovery, Recovery
<1>2. CASE Start
  <2>1. caching' \in BOOLEAN /\ logging' \in BOOLEAN /\ doubt' \in BOOLEAN
    BY <1>2 DEF Start, ConnectCache, ConnectDatabase
  <2>2. loaded' \subseteq Tasks
    BY <1>2 DEF Start, Warmup
  <2> QED
    BY <1>1, <1>2, <2>1, <2>2, NoProbeBegins DEF Start, Probes
<1>3. CASE Terminate
  BY <1>1, <1>3, NoProbeBegins DEF Terminate, Fault, Probes
<1>4. CASE Restart
  BY <1>1, <1>4, NoProbeBegins DEF Restart, Probes
<1>5. CASE Repair
  BY <1>1, <1>5, NoProbeBegins DEF Repair, Probes
<1>6. CASE RedisOutage
  <2>1. faults' \in 0 .. MaxFaults
    BY <1>6 DEF RedisOutage, Fault
  <2>2. TypeOK'
    BY <1>1, <1>6, <2>1 DEF RedisOutage
  <2> QED
    BY <1>1, <2>2, NoProbeBegins DEF Probes
<1>7. CASE RedisRecovery
  BY <1>1, <1>7, NoProbeBegins DEF RedisRecovery, Probes
<1>8. CASE Recovery
  BY <1>1, <1>8, NoProbeBegins DEF Recovery, Probes
<1> QED
  BY <1>2, <1>3, <1>4, <1>5, <1>6, <1>7, <1>8

LEMMA TickKeeps ==
  ASSUME IInv, Tick
  PROVE  IInv'
<1>1. Probes' = {}
  BY DEF Tick, Probes
<1>2. TypeOK'
  BY DEF IInv, TypeOK, Tick, process, database
<1> QED
  BY <1>1, <1>2, NoProbeBegins

LEMMA OutageKeeps ==
  ASSUME IInv, Outage
  PROVE  IInv'
<1>1. \A r \in Requests :
        LET q == [req[r] EXCEPT !.row = IF @ = "pending" THEN "exposed" ELSE @] IN
        q \in Request /\ q.probing = req[r].probing
  BY DEF IInv, TypeOK, Request, Rows
<1>2. req' \in [Requests -> Request] /\ Probes' = Probes
  BY <1>1 DEF Outage, Probes, cache
<1>3. TypeOK'
  BY <1>2, ProcessAssumption DEF IInv, TypeOK, Outage, Fault, process, cache
<1> QED
  BY <1>2, <1>3, NoProbeBegins DEF Outage, cache

(* GET /health begins to ask cache and database.                           *)
LEMMA PollKeeps ==
  ASSUME IInv, NEW h \in Pollers, Poll(h)
  PROVE  IInv'
<1> USE DEF IInv, TypeOK
<1>1. /\ UNCHANGED <<process, db, logging, req, faults, doubt>>
      /\ ping' \in [Pollers -> {"none", "sent", "ok", "failed"}]
  BY DEF Poll
<1>2. CASE ~caching /\ waiting
  <2>1. UNCHANGED cache
    BY <1>2 DEF Poll
  <2>2. TypeOK'
    BY <1>1, <2>1 DEF process, cache
  <2> QED
    BY <1>1, <2>1, <2>2, NoProbeBegins DEF cache, Probes
<1>3. CASE caching
  <2>1. look' = [look EXCEPT ![h] = "asked"] /\ UNCHANGED <<redis, caching, waiting>>
    BY <1>3 DEF Poll
  <2>2. \A k \in Pollers : look'[k] = "probing" => look[k] = "probing"
    BY <2>1
  <2>3. Probes' \subseteq Probes
    BY <1>1, <2>2 DEF Probes
  <2>4. TypeOK'
    BY <1>1, <2>1 DEF process
  <2> QED
    BY <2>1, <2>3, <2>4, NoProbeBegins
<1>4. CASE ~caching /\ ~waiting
  <2>1. /\ look' = [look EXCEPT ![h] = "probing"] /\ waiting' = TRUE
        /\ UNCHANGED <<redis, caching>>
    BY <1>4 DEF Poll, PutOff
  <2>2. \A k \in Pollers : look'[k] = "probing" => look[k] = "probing" \/ k = h
    BY <2>1
  <2>3. Probes' \subseteq Probes \cup {<<"poll", h>>}
    BY <1>1, <2>2 DEF Probes
  <2>4. TypeOK'
    BY <1>1, <2>1 DEF process
  <2> QED
    BY <1>4, <2>1, <2>3, <2>4, ProbeBegins
<1> QED
  BY <1>2, <1>3, <1>4

(* The answers of Redis end a probe, or put the next one off again.        *)
LEMMA CacheAnswersPoll ==
  ASSUME IInv, NEW h \in Pollers, PollProbed(h) \/ PollReplied(h)
  PROVE  IInv'
<1> USE DEF IInv, TypeOK
<1>1. /\ UNCHANGED <<process, database, redis, req, faults, doubt>>
      /\ caching' \in BOOLEAN /\ waiting' \in BOOLEAN /\ (waiting => waiting')
  BY DEF PollProbed, PollReplied, Recovered, RecordFailure
<1>2. PICK what \in {"none", "asked"} : look' = [look EXCEPT ![h] = what]
  BY DEF PollProbed, PollReplied
<1>3. \A k \in Pollers : look'[k] = "probing" => look[k] = "probing"
  BY <1>2
<1>4. Probes' \subseteq Probes
  BY <1>1, <1>3 DEF Probes
<1>5. TypeOK'
  BY <1>1, <1>2 DEF process, database
<1> QED
  BY <1>1, <1>4, <1>5, NoProbeBegins

(* The database's answer leaves the cache alone.                           *)
LEMMA PingKeeps ==
  ASSUME IInv, NEW h \in Pollers, Ping(h) \/ Pinged(h) \/ Timeout(h)
  PROVE  IInv'
<1>1. ping' \in [Pollers -> {"none", "sent", "ok", "failed"}]
  BY DEF IInv, TypeOK, Ping, Pinged, Timeout
<1>2. logging' \in BOOLEAN /\ doubt' \in BOOLEAN
  BY DEF IInv, TypeOK, Ping, Pinged, Timeout, Believed
<1>3. UNCHANGED <<process, db, cache, req, faults>>
  BY DEF Ping, Pinged, Timeout
<1>4. TypeOK'
  BY <1>1, <1>2, <1>3 DEF IInv, TypeOK, process, cache
<1> QED
  BY <1>3, <1>4, NoProbeBegins DEF Probes, cache

-----------------------------------------------------------------------------
LEMMA ArriveKeeps ==
  ASSUME IInv, NEW r \in Requests, Arrive(r)
  PROVE  IInv'
<1> DEFINE q == [req[r] EXCEPT !.row = "none"]
<1>1. q \in Request /\ q.probing = req[r].probing
  BY DEF IInv, TypeOK, Request, Rows
<1>2. Ask(r, q, "get", "run")
  BY DEF Arrive
<1> HIDE DEF q
<1>3. /\ req' \in [Requests -> Request]
      /\ redis' \in BOOLEAN /\ caching' \in BOOLEAN /\ waiting' \in BOOLEAN /\ look' = look
      /\ \/ Probes' \subseteq Probes /\ waiting' = waiting
         \/ ~waiting /\ waiting' /\ Probes' \subseteq Probes \cup {<<"request", r>>}
  BY <1>1, <1>2, AskedFor DEF IInv, Stages
<1>4. TypeOK'
  BY <1>3 DEF IInv, TypeOK, Arrive, process, database
<1> QED
  BY <1>3, <1>4, NoProbeBegins, ProbeBegins

LEMMA RunKeeps ==
  ASSUME IInv, NEW r \in Requests, Run(r)
  PROVE  IInv'
<1>1. /\ loaded' \subseteq Tasks
      /\ Ask(r, req[r], "set", "answer") \/ Failed(r)
      /\ UNCHANGED <<phase, intact, database, faults, doubt>>
  BY DEF Run, IInv, TypeOK
<1>2. req[r] \in Request
  BY DEF IInv, TypeOK
<1>3. CASE Ask(r, req[r], "set", "answer")
  <2>1. /\ req' \in [Requests -> Request]
        /\ redis' \in BOOLEAN /\ caching' \in BOOLEAN /\ waiting' \in BOOLEAN /\ look' = look
        /\ \/ Probes' \subseteq Probes /\ waiting' = waiting
           \/ ~waiting /\ waiting' /\ Probes' \subseteq Probes \cup {<<"request", r>>}
    BY <1>2, <1>3, AskedFor DEF IInv, Stages
  <2>2. TypeOK'
    BY <1>1, <2>1 DEF IInv, TypeOK, database
  <2> QED
    BY <2>1, <2>2, NoProbeBegins, ProbeBegins
<1>4. CASE Failed(r)
  <2> DEFINE q == [req[r] EXCEPT !.pc = "idle"]
  <2>1. q \in Request /\ q.probing = req[r].probing
    BY <1>2 DEF Request, Stages
  <2>2. req' = [req EXCEPT ![r] = q] /\ UNCHANGED cache
    BY <1>4 DEF Failed
  <2> HIDE DEF q
  <2>3. req' \in [Requests -> Request] /\ Probes' \subseteq Probes
    BY <2>1, <2>2, Written DEF IInv, TypeOK, cache
  <2>4. TypeOK'
    BY <1>1, <2>2, <2>3 DEF IInv, TypeOK, database, cache
  <2> QED
    BY <2>2, <2>3, <2>4, NoProbeBegins DEF cache
<1> QED
  BY <1>1, <1>3, <1>4

(* The ping of a probe comes back, and with it the probe ends.             *)
LEMMA ProbedKeeps ==
  ASSUME IInv, NEW r \in Requests, Probed(r)
  PROVE  IInv'
<1>1. req[r] \in Request
  BY DEF IInv, TypeOK
<1>2. PICK q \in Request : q.probing = FALSE /\ req' = [req EXCEPT ![r] = q]
  <2>1. WithoutCache(req[r].pc) \in Stages
    BY DEF WithoutCache, After, Stages
  <2>2. CASE redis
    <3> DEFINE q == [req[r] EXCEPT !.probing = FALSE]
    <3>1. req' = [req EXCEPT ![r] = q]
      BY <2>2 DEF Probed
    <3>2. q \in Request /\ q.probing = FALSE
      BY <1>1 DEF Request
    <3> QED
      BY <3>1, <3>2
  <2>3. CASE ~redis
    <3> DEFINE q == [req[r] EXCEPT !.probing = FALSE, !.pc = WithoutCache(@)]
    <3>1. req' = [req EXCEPT ![r] = q]
      BY <2>3 DEF Probed
    <3>2. q \in Request /\ q.probing = FALSE
      BY <1>1, <2>1 DEF Request
    <3> QED
      BY <3>1, <3>2
  <2> QED
    BY <2>2, <2>3
<1>3. req' \in [Requests -> Request] /\ Probes' \subseteq Probes
  BY <1>2, Written DEF IInv, TypeOK, Probed
<1>4. waiting' \in BOOLEAN /\ caching' \in BOOLEAN /\ (waiting => waiting')
  BY DEF IInv, TypeOK, Probed, Recovered, RecordFailure
<1>5. TypeOK'
  BY <1>3, <1>4 DEF IInv, TypeOK, Probed, process, database
<1> QED
  BY <1>3, <1>4, <1>5, NoProbeBegins

LEMMA RepliedKeeps ==
  ASSUME IInv, NEW r \in Requests, Replied(r)
  PROVE  IInv'
<1>1. req[r] \in Request
  BY DEF IInv, TypeOK
<1>2. PICK next \in Stages : req' = [req EXCEPT ![r] = [req[r] EXCEPT !.pc = next]]
  <2>1. CASE redis
    BY <2>1 DEF Replied, After, Stages
  <2>2. CASE ~redis
    BY <2>2 DEF Replied, WithoutCache, After, Stages
  <2> QED
    BY <2>1, <2>2
<1>3. req' \in [Requests -> Request] /\ Probes' \subseteq Probes
  <2> DEFINE q == [req[r] EXCEPT !.pc = next]
  <2>1. q \in Request /\ q.probing = req[r].probing
    BY <1>1 DEF Request
  <2>2. req' = [req EXCEPT ![r] = q]
    BY <1>2
  <2> HIDE DEF q
  <2> QED
    BY <2>1, <2>2, Written DEF IInv, TypeOK, Replied
<1>4. waiting' \in BOOLEAN /\ caching' \in BOOLEAN /\ (waiting => waiting')
  BY DEF IInv, TypeOK, Replied, RecordFailure
<1>5. TypeOK'
  BY <1>3, <1>4 DEF IInv, TypeOK, Replied, process, database
<1> QED
  BY <1>3, <1>4, <1>5, NoProbeBegins

LEMMA RowKeeps ==
  ASSUME IInv, NEW r \in Requests, Answer(r) \/ WriteRow(r)
  PROVE  IInv'
<1>1. req[r] \in Request
  BY DEF IInv, TypeOK
<1>2. PICK q \in Request : q.probing = req[r].probing /\ req' = [req EXCEPT ![r] = q]
  <2>1. CASE Answer(r)
    <3> DEFINE row == IF logging THEN "pending" ELSE "missing"
    <3>1. req' = [req EXCEPT ![r] = [req[r] EXCEPT !.pc = "idle", !.row = row]]
      BY <2>1 DEF Answer
    <3>2. row \in Rows /\ "idle" \in Stages
      BY DEF Rows, Stages
    <3> HIDE DEF row
    <3> DEFINE q == [req[r] EXCEPT !.pc = "idle", !.row = row]
    <3>3. q \in Request /\ q.probing = req[r].probing
      BY <1>1, <3>2 DEF Request
    <3> QED
      BY <3>1, <3>3
  <2>2. CASE WriteRow(r)
    <3>1. PICK row \in Rows : req' = [req EXCEPT ![r] = [req[r] EXCEPT !.row = row]]
      BY <2>2 DEF WriteRow, Rows
    <3> DEFINE q == [req[r] EXCEPT !.row = row]
    <3>2. q \in Request /\ q.probing = req[r].probing
      BY <1>1 DEF Request
    <3> QED
      BY <3>1, <3>2
  <2> QED
    BY <2>1, <2>2
<1>4. UNCHANGED <<process, db, logging, ping, cache, faults, doubt>>
  BY DEF Answer, WriteRow, AfterWrite, database
<1>3. req' \in [Requests -> Request] /\ Probes' \subseteq Probes
  BY <1>2, <1>4, Written DEF IInv, TypeOK, cache
<1>5. TypeOK'
  BY <1>3, <1>4 DEF IInv, TypeOK, process, cache
<1> QED
  BY <1>3, <1>4, <1>5, NoProbeBegins DEF cache

-----------------------------------------------------------------------------
LEMMA NextKeeps == IInv /\ [Next]_vars => IInv'
<1> SUFFICES ASSUME IInv, [Next]_vars PROVE IInv'
  OBVIOUS
<1>1. CASE Start \/ Terminate \/ Restart \/ Repair \/ RedisOutage \/ RedisRecovery \/ Recovery
  BY <1>1, QuietKeeps
<1>2. CASE Exit
  BY <1>2, GoneKeeps DEF Exit, IInv, TypeOK
<1>3. CASE Crash
  BY <1>3, GoneKeeps, ProcessAssumption DEF Crash, Fault, IInv, TypeOK
<1>4. CASE Tick
  BY <1>4, TickKeeps
<1>5. CASE \E r \in Requests :
             \/ Arrive(r) \/ Probed(r) \/ Replied(r) \/ Run(r) \/ Answer(r) \/ WriteRow(r)
  BY <1>5, ArriveKeeps, ProbedKeeps, RepliedKeeps, RunKeeps, RowKeeps
<1>6. CASE \E h \in Pollers : Poll(h) \/ Ping(h) \/ Pinged(h) \/ Timeout(h)
  BY <1>6, PollKeeps, PingKeeps
<1>7. CASE \E h \in Pollers : PollProbed(h) \/ PollReplied(h)
  BY <1>7, CacheAnswersPoll
<1>8. CASE Outage
  BY <1>8, OutageKeeps
<1>9. CASE UNCHANGED vars
  BY <1>9 DEF vars, process, database, cache, IInv, TypeOK, OneProbe, ProbeWaits, Probes
<1> QED
  BY <1>1, <1>2, <1>3, <1>4, <1>5, <1>6, <1>7, <1>8, <1>9 DEF Next

(* The types, at most one probe, and the interval that runs meanwhile hold  *)
(* in every reachable state (lifespan(), _maybe_reconnect()).              *)
THEOREM Invariance == Spec => []IInv
  BY InitIInv, NextKeeps, PTL DEF Spec

(* Whatever happens to the process, its database and its cache, its state  *)
(* stays well typed.                                                       *)
THEOREM TypeCorrect == Spec => []TypeOK
<1>1. IInv => TypeOK
  BY DEF IInv
<1> QED
  BY <1>1, Invariance, PTL

(* For any number of requests and polls: while Redis is down one at a time *)
(* finds out whether it is back (_maybe_reconnect() in cache_service.py).  *)
THEOREM OneReconnectHolds == Spec => []OneReconnect
<1>1. ASSUME IInv PROVE OneReconnect
  <2>1. CASE Probes = {}
    BY <2>1, FS_EmptySet DEF OneReconnect
  <2>2. CASE Probes # {}
    <3>1. PICK r : Probes = {r}
      BY <1>1, <2>2 DEF IInv, OneProbe
    <3>2. Cardinality(Probes) = 1
      BY <3>1, FS_Singleton
    <3> QED
      BY <3>2 DEF OneReconnect
  <2> QED
    BY <2>1, <2>2
<1> QED
  BY <1>1, Invariance, PTL

-----------------------------------------------------------------------------
(* The rows of predictions.                                                *)

(* Without doubt the database is up, believed to be, and no poll that saw  *)
(* it down is still to return; none is on its way at all unless the        *)
(* process serves.                                                         *)
BeliefInv ==
  /\ ~ doubt => logging /\ db = "up" /\ \A h \in Pollers : ping[h] # "failed"
  /\ phase \in {"down", "starting"} => doubt /\ \A h \in Pollers : ping[h] = "none"

LEMMA BeliefStays == ASSUME IInv, BeliefInv, [Next]_vars PROVE BeliefInv'
<1> USE DEF IInv, TypeOK, BeliefInv, process, database, cache
<1>1. CASE Start
  BY <1>1 DEF Start, ConnectDatabase
<1>2. CASE Exit \/ Crash
  BY <1>2 DEF Exit, Crash, Gone
<1>3. CASE \/ Terminate \/ Restart \/ Repair \/ Tick \/ RedisOutage \/ RedisRecovery
           \/ \E h \in Pollers : PollProbed(h) \/ PollReplied(h)
  BY <1>3 DEF Terminate, Restart, Repair, Tick, PollProbed, PollReplied, RedisOutage, RedisRecovery
<1>4. ASSUME NEW r \in Requests,
             \/ Arrive(r) \/ Probed(r) \/ Replied(r) \/ Run(r) \/ Answer(r) \/ WriteRow(r)
      PROVE  BeliefInv'
  <2>1. UNCHANGED <<phase, database, doubt>>
    BY <1>4 DEF Arrive, Probed, Replied, Run, Answer, WriteRow, AfterWrite
  <2> QED BY <2>1
<1>5. ASSUME NEW h \in Pollers, Poll(h) \/ Ping(h) \/ Timeout(h) PROVE BeliefInv'
  BY <1>5 DEF Poll, Ping, Timeout
<1>6. ASSUME NEW h \in Pollers, Pinged(h) PROVE BeliefInv'
  <2>1. /\ ping[h] \in {"ok", "failed"} /\ logging' = (ping[h] = "ok")
        /\ ping' = [ping EXCEPT ![h] = "none"] /\ UNCHANGED <<phase, db>>
        /\ doubt' = /\ doubt
                    /\ \/ ping[h] = "failed" \/ db # "up"
                       \/ \E other \in Pollers : ping[other] = "failed"
    BY <1>6 DEF Pinged, Believed
  <2>2. phase \notin {"down", "starting"}
    BY <2>1
  <2>3. ASSUME ~ doubt' PROVE ping[h] = "ok" /\ db = "up" /\ \A k \in Pollers : ping[k] # "failed"
    BY <2>1, <2>3
  <2>4. ~ doubt' => logging' /\ db' = "up" /\ \A k \in Pollers : ping'[k] # "failed"
    BY <2>1, <2>3
  <2> QED BY <2>1, <2>2, <2>4
<1>7. CASE Outage \/ Recovery
  BY <1>7 DEF Outage, Recovery
<1>8. CASE UNCHANGED vars
  BY <1>8 DEF vars
<1> QED
  BY <1>1, <1>2, <1>3, <1>4, <1>5, <1>6, <1>7, <1>8 DEF Next

(* The cache's part of a request leaves the rows alone.                    *)
LEMMA AskKeepsRows ==
  ASSUME req \in [Requests -> Request], NEW s \in Requests, NEW q \in Request,
         NEW stage, NEW otherwise, Ask(s, q, stage, otherwise), NEW r \in Requests
  PROVE  req'[r].row = IF r = s THEN q.row ELSE req[r].row
<1>1. PICK u : /\ req' = [req EXCEPT ![s] = u]
               /\ u \in {[q EXCEPT !.pc = stage], [q EXCEPT !.pc = otherwise],
                        [q EXCEPT !.pc = stage, !.probing = TRUE]}
  <2>1. CASE caching
    BY <2>1 DEF Ask
  <2>2. CASE ~ caching /\ waiting
    BY <2>2 DEF Ask
  <2>3. CASE ~ caching /\ ~ waiting
    BY <2>3 DEF Ask
  <2> QED BY <2>1, <2>2, <2>3
<1>2. u.row = q.row
  BY <1>1 DEF Request
<1>3. req'[r] = IF r = s THEN u ELSE req[r]
  BY <1>1
<1> QED
  BY <1>2, <1>3

(* A row is written off only where the property says so.                   *)
LEMMA RowIsMissed ==
  ASSUME IInv, BeliefInv, [Next]_vars, NEW r \in Requests,
         req'[r].row = "missing", req[r].row # "missing"
  PROVE  doubt \/ req[r].row = "exposed" \/ phase' = "down"
<1> USE DEF IInv, TypeOK, BeliefInv, process, database, cache
<1>1. CASE Exit \/ Crash
  BY <1>1 DEF Exit, Crash, Gone
<1>2. CASE \/ Start \/ Terminate \/ Restart \/ Repair \/ Tick
           \/ RedisOutage \/ RedisRecovery \/ Recovery
           \/ \E h \in Pollers : PollProbed(h) \/ PollReplied(h)
  BY <1>2 DEF Start, Terminate, Restart, Repair, Tick, PollProbed, PollReplied, RedisOutage,
     RedisRecovery, Recovery
<1>3. CASE Outage
  <2>1. req'[r] = [req[r] EXCEPT !.row = IF @ = "pending" THEN "exposed" ELSE @]
    BY ONLY <1>3, r \in Requests DEF Outage
  <2>2. req[r] \in Request
    BY DEF TypeOK
  <2>3. req'[r].row \in {req[r].row, "exposed"}
    BY ONLY <2>1, <2>2 DEF Request
  <2> QED BY <2>3
<1>4. ASSUME NEW s \in Requests, Arrive(s) PROVE FALSE
  <2>1. /\ req[s] \in Request
        /\ [req[s] EXCEPT !.row = "none"] \in Request
        /\ [req[s] EXCEPT !.row = "none"].row = "none"
    BY DEF TypeOK, Request, Rows
  <2>2. Ask(s, [req[s] EXCEPT !.row = "none"], "get", "run")
    BY ONLY <1>4 DEF Arrive
  <2>3. req'[r].row \in {"none", req[r].row}
    BY ONLY <2>1, <2>2, AskKeepsRows, req \in [Requests -> Request],
            s \in Requests, r \in Requests
  <2> QED BY <2>3
<1>5. ASSUME NEW s \in Requests, Probed(s) \/ Replied(s) PROVE FALSE
  BY <1>5 DEF Probed, Replied, Request
<1>6. ASSUME NEW s \in Requests, Run(s) PROVE FALSE
  <2>1. req[s] \in Request /\ req[r] \in Request
    BY DEF TypeOK
  <2>2. ASSUME Ask(s, req[s], "set", "answer") PROVE req'[r].row = req[r].row
    BY ONLY <2>1, <2>2, AskKeepsRows, req \in [Requests -> Request],
            s \in Requests, r \in Requests
  <2>3. ASSUME Failed(s) PROVE req'[r].row = req[r].row
    BY ONLY <2>1, <2>3, req \in [Requests -> Request], s \in Requests, r \in Requests
       DEF Failed, Request
  <2>4. Ask(s, req[s], "set", "answer") \/ Failed(s)
    BY ONLY <1>6 DEF Run
  <2> QED BY <2>2, <2>3, <2>4
<1>7. ASSUME NEW s \in Requests, Answer(s) PROVE doubt
  BY <1>7 DEF Answer, Request
<1>8. ASSUME NEW s \in Requests, WriteRow(s) PROVE doubt \/ req[r].row = "exposed"
  BY <1>8 DEF WriteRow, Request
<1>9. ASSUME NEW h \in Pollers, Poll(h) \/ Ping(h) \/ Pinged(h) \/ Timeout(h) PROVE FALSE
  BY <1>9 DEF Poll, Ping, Pinged, Timeout
<1>10. CASE UNCHANGED vars
  BY <1>10 DEF vars
<1> QED
  BY <1>1, <1>2, <1>3, <1>4, <1>5, <1>6, <1>7, <1>8, <1>9, <1>10 DEF Next

(* A prediction goes without its row only if the database was in doubt, if *)
(* the row was on its way when it failed, or if the process ends           *)
(* (prediction_log.py, db_service.py).                                     *)
THEOREM PredictionsAreLogged == Spec => EveryPredictionIsLogged
<1>1. Init => BeliefInv
  BY DEF Init, BeliefInv
<1>2. IInv /\ BeliefInv /\ [Next]_vars => BeliefInv'
  BY BeliefStays
<1>3. IInv /\ BeliefInv /\ [Next]_vars =>
        [\A r \in Requests :
           req'[r].row = "missing" /\ req[r].row # "missing" =>
             doubt \/ req[r].row = "exposed" \/ phase' = "down"]_vars
  BY RowIsMissed
<1> QED
  BY <1>1, <1>2, <1>3, Invariance, PTL DEF Spec, EveryPredictionIsLogged
=============================================================================
