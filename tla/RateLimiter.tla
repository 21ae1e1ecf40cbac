---------------------------- MODULE RateLimiter ----------------------------
(***************************************************************************)
(* The rate limiter of several API replicas (api/middleware/rate_limit.py):*)
(* one bucket per caller in Redis, one per caller in every process for     *)
(* when Redis does not answer, and the task that finds the way back.       *)
(* TokenBucket looks at one bucket and its clocks; here buckets refill     *)
(* with every tick (its IdealBucket) and the question is which bucket a    *)
(* request is charged to.                                                  *)
(***************************************************************************)
EXTENDS Integers, FiniteSets

CONSTANTS
  Replicas,   \* API processes
  Requests,   \* requests being handled at the same time
  Callers,    \* API keys
  Blocked,    \* the callers whose tier is configured to 0 requests per minute
  Capacity,   \* tokens of a full bucket, for the others
  Rate,       \* tokens a tick refills, for the others
  MaxItems,   \* images in a batch; 0 when no batch is sent
  None,       \* no replica, no caller
  Retry,      \* ticks between two attempts to reconnect (10 s in the code)
  Faults,     \* which events of FaultKinds may happen in this instance
  MaxFaults,  \* bound on how many happen in a behaviour
  MaxTicks    \* length of the window in which spending is counted

FaultKinds ==
  { "outage",   \* Redis stops answering
    "lost",     \* a reply of Redis does not arrive within socket_timeout
    "evict",    \* Redis evicts a bucket (maxmemory, allkeys-lru)
    "restart" } \* an API process is stopped and started again

(* What the constants are; MCRateLimiter assumes it of its instance.       *)
LimiterAssumption ==
  /\ Blocked \subseteq Callers /\ IsFiniteSet(Replicas)
  /\ None \notin Replicas \cup Callers
  /\ Capacity \in Nat \ {0} /\ Rate \in Nat \ {0} /\ MaxItems \in Nat
  /\ Retry \in Nat /\ MaxFaults \in Nat /\ MaxTicks \in Nat
  /\ Faults \subseteq FaultKinds

VARIABLES
  redisUp,    \* whether Redis answers
  shared,     \* tokens of a caller's bucket in Redis
  local,      \* tokens of its bucket in each process, RateLimiter._local
  available,  \* RateLimiter._available of each process
  cooldown,   \* ticks until _next_retry
  task,       \* where _reconnect_task is
  req,        \* the requests
  faults,     \* faults so far
  counting,   \* whether the observed window is still open
  ticks,      \* its length so far
  resets,     \* buckets that became full in it by a fault
  spent       \* tokens each caller has taken in it, from any bucket

limiterVars == <<available, cooldown, task>>
windowVars  == <<counting, ticks, resets>>
vars == <<redisUp, shared, local, limiterVars, req, faults, windowVars, spent>>

Full(c)   == IF c \in Blocked THEN 0 ELSE Capacity
Refill(c) == IF c \in Blocked THEN 0 ELSE Rate

Waiting == {"script", "granted", "denied", "failed"}
Answers == {"served", "refused", "error"}

Request == [ pc : {"idle", "handler"} \cup Waiting \cup Answers,
             replica : Replicas \cup {None}, caller : Callers \cup {None},
             items : 0 .. MaxItems,  \* 0 for a single image
             stage : {"middleware", "handler"},  \* whose check is under way
             charged : Nat,          \* tokens taken for the request
             broken : BOOLEAN ]      \* its connection has been closed

NoRequest == [pc |-> "idle", replica |-> None, caller |-> None, items |-> 0,
              stage |-> "middleware", charged |-> 0, broken |-> FALSE]

TypeOK ==
  /\ redisUp \in BOOLEAN
  /\ shared \in [Callers -> 0 .. Capacity]
  /\ local \in [Replicas -> [Callers -> 0 .. Capacity]]
  /\ available \in [Replicas -> BOOLEAN]
  /\ cooldown \in [Replicas -> 0 .. Retry]
  /\ task \in [Replicas -> {"none", "drop", "connect"}]
  /\ req \in [Requests -> Request]
  /\ faults \in 0 .. MaxFaults
  /\ counting \in BOOLEAN /\ ticks \in 0 .. MaxTicks /\ resets \in 0 .. MaxFaults
  /\ spent \in [Callers -> Nat]

(* connect() has run in the lifespan of every process, while Redis was up  *)
(* or was not.                                                             *)
Init ==
  /\ redisUp \in {TRUE} \cup (IF "outage" \in Faults THEN {FALSE} ELSE {})
  /\ shared = [c \in Callers |-> Full(c)]
  /\ local = [r \in Replicas |-> [c \in Callers |-> Full(c)]]
  /\ available = [r \in Replicas |-> redisUp]
  /\ cooldown = [r \in Replicas |-> 0]
  /\ task = [r \in Replicas |-> "none"]
  /\ req = [p \in Requests |-> NoRequest]
  /\ faults = 0
  /\ counting = TRUE /\ ticks = 0 /\ resets = 0
  /\ spent = [c \in Callers |-> 0]

-----------------------------------------------------------------------------
(* check() and enforce()                                                   *)

(* The middleware charges one token for a request, submit_batch one more   *)
(* for every image.                                                        *)
Cost(q) == IF q.stage = "middleware" THEN 1 ELSE q.items

Charged(q) == [q EXCEPT !.charged = @ + Cost(q)]

Spend(q) ==
  spent' = IF counting THEN [spent EXCEPT ![q.caller] = @ + Cost(q)] ELSE spent

LastCheck(q) == q.stage = "handler" \/ q.items = 0

(* enforce() turns a refusal into a 429 whose text and header need         *)
(* int(retry_after); the retry_after of a bucket that never refills is     *)
(* infinite, int() of it raises OverflowError, and no handler catches it.  *)
Refusal(q) == IF Refill(q.caller) = 0 THEN "error" ELSE "refused"

Verdict(q, ok) ==
  IF ok
    THEN [q EXCEPT !.broken = FALSE,
                   !.pc = IF LastCheck(q) THEN "served" ELSE "handler"]
    ELSE [NoRequest EXCEPT !.pc = Refusal(q), !.replica = q.replica]

LocalAllows(q) == local[q.replica][q.caller] >= Cost(q)

(* _LocalBucket.take()                                                     *)
FallBack(p, q) ==
  IF LocalAllows(q)
    THEN /\ local' = [local EXCEPT ![q.replica][q.caller] = @ - Cost(q)]
         /\ Spend(q)
         /\ req' = [req EXCEPT ![p] = Verdict(Charged(q), TRUE)]
    ELSE /\ req' = [req EXCEPT ![p] = Verdict(q, FALSE)]
         /\ UNCHANGED <<local, spent>>

MayReconnect(r) == ~available[r] /\ task[r] = "none" /\ cooldown[r] = 0

(* check(), up to the await of the script or to the answer of the fallback.*)
Check(p, q) ==
  LET r == q.replica IN
  /\ IF MayReconnect(r)
       THEN /\ task' = [task EXCEPT ![r] = "drop"]
            /\ cooldown' = [cooldown EXCEPT ![r] = Retry]
       ELSE UNCHANGED <<task, cooldown>>
  /\ IF available[r]
       THEN /\ req' = [req EXCEPT ![p] = [q EXCEPT !.pc = "script"]]
            /\ UNCHANGED <<local, spent>>
       ELSE FallBack(p, q)
  /\ UNCHANGED <<redisUp, shared, available, faults, windowVars>>

Middleware(p, r, c) ==
  /\ req[p].pc = "idle"
  /\ \E n \in 0 .. MaxItems :
       Check(p, [NoRequest EXCEPT !.replica = r, !.caller = c, !.items = n])

(* submit_batch, for a request the middleware has let through.             *)
Handler(p) ==
  /\ req[p].pc = "handler"
  /\ Check(p, [req[p] EXCEPT !.stage = "handler"])

-----------------------------------------------------------------------------
(* The script in Redis, and its reply.                                     *)

SharedAllows(q) == shared[q.caller] >= Cost(q)

(* Redis runs the script.  With rate 0 EXPIRE is given a NaN and fails the *)
(* script, after HSET.                                                     *)
RunScript(p) ==
  LET q == req[p] IN
  /\ q.pc = "script" /\ redisUp
  /\ IF Refill(q.caller) = 0
       THEN /\ req' = [req EXCEPT ![p].pc = "failed"]
            /\ UNCHANGED <<shared, spent>>
       ELSE IF SharedAllows(q)
       THEN /\ req' = [req EXCEPT ![p] = [Charged(q) EXCEPT !.pc = "granted"]]
            /\ shared' = [shared EXCEPT ![q.caller] = @ - Cost(q)]
            /\ Spend(q)
       ELSE /\ req' = [req EXCEPT ![p].pc = "denied"]
            /\ UNCHANGED <<shared, spent>>
  /\ UNCHANGED <<redisUp, local, limiterVars, faults, windowVars>>

Granted(q) == q.pc = "granted"

Reply(p) ==
  LET q == req[p] IN
  /\ q.pc \in {"granted", "denied"} /\ ~q.broken
  /\ req' = [req EXCEPT ![p] = Verdict(q, Granted(q))]
  /\ UNCHANGED <<redisUp, shared, local, limiterVars, faults, windowVars, spent>>

(* The await raises: Redis reported an error, does not answer within the   *)
(* socket timeout, or the connection was closed by _drop_client.           *)
Raises(q) == q.pc = "failed" \/ q.broken \/ ~redisUp

Failure(p) ==
  LET q == req[p] IN
  /\ q.pc \in Waiting
  /\ \/ Raises(q) /\ UNCHANGED faults
     \/ "lost" \in Faults /\ faults < MaxFaults /\ faults' = faults + 1
  /\ available' = [available EXCEPT ![q.replica] = FALSE]
  /\ FallBack(p, q)
  /\ UNCHANGED <<redisUp, shared, cooldown, task, windowVars>>

(* The response is sent.                                                   *)
Respond(p) ==
  /\ req[p].pc \in Answers
  /\ req' = [req EXCEPT ![p] = NoRequest]
  /\ UNCHANGED <<redisUp, shared, local, limiterVars, faults, windowVars, spent>>

-----------------------------------------------------------------------------
(* _reconnect()                                                            *)

(* _drop_client closes the pool with the connections still in use.         *)
DropClient(r) ==
  /\ task[r] = "drop"
  /\ task' = [task EXCEPT ![r] = "connect"]
  /\ available' = [available EXCEPT ![r] = FALSE]
  /\ req' = [p \in Requests |->
               IF req[p].replica = r /\ req[p].pc \in Waiting
               THEN [req[p] EXCEPT !.broken = TRUE] ELSE req[p]]
  /\ UNCHANGED <<redisUp, shared, local, cooldown, faults, windowVars, spent>>

\* Mutant: the fallback buckets are thrown away when Redis is back.
FreshBuckets(r) == [local EXCEPT ![r] = [c \in Callers |-> Full(c)]]

KeptBuckets(r) == local

(* connect(): the ping succeeds if Redis answers by now.                   *)
Connect(r) ==
  /\ task[r] = "connect"
  /\ task' = [task EXCEPT ![r] = "none"]
  /\ available' = [available EXCEPT ![r] = redisUp]
  /\ local' = KeptBuckets(r)
  /\ UNCHANGED <<redisUp, shared, cooldown, req, faults, windowVars, spent>>

-----------------------------------------------------------------------------
(* Time and faults.                                                        *)

Lower(m, n) == IF m < n THEN m ELSE n

\* Mutant: the retry timer does not run.
StuckTimer(r) == cooldown[r]

CountDown(r) == IF cooldown[r] = 0 THEN 0 ELSE cooldown[r] - 1

Tick ==
  /\ cooldown' = [r \in Replicas |-> CountDown(r)]
  /\ shared' = [c \in Callers |-> Lower(Full(c), shared[c] + Refill(c))]
  /\ local' = [r \in Replicas |->
                 [c \in Callers |-> Lower(Full(c), local[r][c] + Refill(c))]]
  /\ IF counting /\ ticks < MaxTicks
       THEN ticks' = ticks + 1 /\ UNCHANGED <<counting, resets, spent>>
       ELSE /\ counting' = FALSE /\ ticks' = 0 /\ resets' = 0
            /\ spent' = [c \in Callers |-> 0]
  /\ UNCHANGED <<redisUp, available, task, req, faults>>

Fault(kind) == kind \in Faults /\ faults < MaxFaults /\ faults' = faults + 1

Reset == resets' = IF counting THEN resets + 1 ELSE 0

Outage ==
  /\ redisUp /\ Fault("outage")
  /\ redisUp' = FALSE
  /\ UNCHANGED <<shared, local, limiterVars, req, windowVars, spent>>

Recovery ==
  /\ ~redisUp
  /\ redisUp' = TRUE
  /\ UNCHANGED <<shared, local, limiterVars, req, faults, windowVars, spent>>

Evict(c) ==
  /\ redisUp /\ Fault("evict")
  /\ shared' = [shared EXCEPT ![c] = Full(c)]
  /\ Reset
  /\ UNCHANGED <<redisUp, local, limiterVars, req, counting, ticks, spent>>

(* close() and the end of the process; the next one starts with connect(). *)
Restart(r) ==
  /\ Fault("restart")
  /\ local' = [local EXCEPT ![r] = [c \in Callers |-> Full(c)]]
  /\ available' = [available EXCEPT ![r] = redisUp]
  /\ cooldown' = [cooldown EXCEPT ![r] = 0]
  /\ task' = [task EXCEPT ![r] = "none"]
  /\ req' = [p \in Requests |-> IF req[p].replica = r THEN NoRequest ELSE req[p]]
  /\ Reset
  /\ UNCHANGED <<redisUp, shared, counting, ticks, spent>>

Next ==
  \/ \E p \in Requests :
       \/ \E r \in Replicas, c \in Callers : Middleware(p, r, c)
       \/ Handler(p) \/ RunScript(p) \/ Reply(p) \/ Failure(p) \/ Respond(p)
  \/ \E r \in Replicas : DropClient(r) \/ Connect(r) \/ Restart(r)
  \/ \E c \in Callers : Evict(c)
  \/ Tick \/ Outage \/ Recovery

Spec == Init /\ [][Next]_vars

(* The event loop runs what is ready, socket_timeout ends every wait for   *)
(* Redis, time passes, and requests keep arriving at every process.        *)
Fairness ==
  /\ \A p \in Requests :
       WF_vars(Handler(p) \/ RunScript(p) \/ Reply(p)
               \/ (Raises(req[p]) /\ Failure(p)) \/ Respond(p))
  /\ \A r \in Replicas :
       /\ WF_vars(DropClient(r) \/ Connect(r))
       /\ []<><<\E p \in Requests, c \in Callers : Middleware(p, r, c)>>_vars
  /\ WF_vars(Tick)

FairSpec == Spec /\ Fairness

-----------------------------------------------------------------------------
(* Properties.                                                             *)

(* Whatever fails, a caller takes no more from all buckets together than   *)
(* one full bucket in Redis and one in every process, what refills them,   *)
(* and the buckets a fault made full again; and no request is served       *)
(* without its price having been taken from one of them: one token for an  *)
(* image, one per image for a batch.                                       *)
SpendingIsAccounted ==
  /\ \A c \in Callers :
       spent[c] <= (1 + Cardinality(Replicas) + resets) * Capacity
                   + (1 + Cardinality(Replicas)) * Rate * ticks
  /\ \A p \in Requests :
       req[p].pc = "served" => req[p].charged >= (IF req[p].items = 0 THEN 1 ELSE req[p].items)

(* Once Redis stays up, every process uses it again and again: no failure  *)
(* leaves one on its own buckets for good.                                 *)
RedisIsUsedAgain == <>[]redisUp => \A r \in Replicas : []<>available[r]
=============================================================================
