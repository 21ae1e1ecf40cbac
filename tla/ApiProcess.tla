---------------------------- MODULE ApiProcess -----------------------------
(***************************************************************************)
(* One API process from start to exit (lifespan in api/main.py) and what   *)
(* it believes about the things it depends on: the database, where every   *)
(* prediction leaves a row (api/services/prediction_log.py, db_service.py),*)
(* Redis, where results are cached (cache_service.py), and the models its  *)
(* readiness depends on (model_service.py, routers/health.py).  A belief   *)
(* is corrected only by a call that happens to be made: a poll of /health  *)
(* for the database, a request or a poll for the cache.                    *)
(***************************************************************************)
EXTENDS Naturals, FiniteSets

CONSTANTS
  Requests,   \* requests, each with the write of its row
  Pollers,    \* who may ask for /health at the same time
  Tasks,      \* the tasks, each with its default model
  Eager,      \* eager_model_load
  MaxFaults   \* bound on outages, crashes and rollouts together

ASSUME ProcessAssumption == Eager \in BOOLEAN /\ MaxFaults \in Nat

VARIABLES
  phase,     \* of the process
  intact,    \* tasks whose artifacts can be loaded
  loaded,    \* tasks whose model is loaded
  db,        \* the database
  logging,   \* DatabaseService.available
  ping,      \* for every poller, its SELECT 1
  redis,     \* Redis
  caching,   \* CacheService.available
  waiting,   \* the retry interval of the cache has not passed
  look,      \* for every poller, what it is waiting for of Redis
  req,       \* the requests
  faults,    \* faults so far
  doubt      \* history: no poll has found the database up since it was last not

process  == <<phase, intact, loaded>>
database == <<db, logging, ping>>
cache    == <<redis, caching, waiting, look>>
vars == <<process, database, cache, req, faults, doubt>>

(* "get" and "set" wait for Redis; with "probing" the request is the one   *)
(* that tries whether Redis is back, before its own command.               *)
Stages == {"idle", "get", "run", "set", "answer"}

(* No row is owed, or none will come: "missing".  An "exposed" row was on  *)
(* its way when the database failed.                                       *)
Rows == {"none", "pending", "exposed", "missing"}

Request == [pc : Stages, probing : BOOLEAN, row : Rows]

TypeOK ==
  /\ phase \in {"down", "starting", "serving", "stopping"}
  /\ loaded \subseteq Tasks /\ intact \subseteq Tasks
  /\ db \in {"up", "down", "hung"} /\ logging \in BOOLEAN
  /\ ping \in [Pollers -> {"none", "sent", "ok", "failed"}]
  /\ redis \in BOOLEAN /\ caching \in BOOLEAN /\ waiting \in BOOLEAN
  /\ look \in [Pollers -> {"none", "probing", "asked"}]
  /\ req \in [Requests -> Request]
  /\ faults \in 0 .. MaxFaults
  /\ doubt \in BOOLEAN

Init ==
  /\ phase = "starting"
  /\ intact \in SUBSET Tasks
  /\ loaded = {}
  /\ db = "up" /\ logging = FALSE /\ ping = [h \in Pollers |-> "none"]
  /\ redis = TRUE /\ caching = FALSE /\ waiting = FALSE /\ look = [h \in Pollers |-> "none"]
  /\ req = [r \in Requests |-> [pc |-> "idle", probing |-> FALSE, row |-> "none"]]
  /\ faults = 0
  /\ doubt = TRUE

-----------------------------------------------------------------------------
(* Start and stop.                                                         *)

ConnectCache    == caching' = redis
ConnectDatabase == logging' = (db = "up")

(* warmup(): the default model of every task, as far as it can be loaded.  *)
Warmup == loaded' = IF Eager THEN intact ELSE {}

(* lifespan(): cache and database are connected together, failures only    *)
(* degrade the process; then the models are loaded, those that can be.  A  *)
(* database that hangs holds the start up until the driver gives up.       *)
Start ==
  /\ phase = "starting"
  /\ phase' = "serving"
  /\ ConnectCache /\ ConnectDatabase
  /\ Warmup
  /\ doubt' = (db # "up")
  /\ UNCHANGED <<intact, db, ping, redis, waiting, look, req, faults>>

Asked(h) == ping[h] # "none" \/ look[h] # "none"

Drained == (\A r \in Requests : req[r].pc = "idle") /\ \A h \in Pollers : ~Asked(h)

(* Writes of rows are nobody's to wait for: they end with the event loop.  *)
Cut(q) == [q EXCEPT !.pc = "idle", !.probing = FALSE,
                    !.row = IF @ \in {"pending", "exposed"} THEN "missing" ELSE @]

UnloadAll == loaded' = {}

Gone ==
  /\ phase' = "down"
  /\ UnloadAll
  /\ logging' = FALSE /\ ping' = [h \in Pollers |-> "none"]
  /\ caching' = FALSE /\ waiting' = FALSE /\ look' = [h \in Pollers |-> "none"]
  /\ req' = [r \in Requests |-> Cut(req[r])]
  /\ doubt' = TRUE
  /\ UNCHANGED <<intact, db, redis>>

(* uvicorn lets requests finish before the lifespan's second half runs:    *)
(* every service is closed and every model unloaded.                       *)
Exit ==
  /\ phase = "stopping" /\ Drained
  /\ Gone
  /\ UNCHANGED faults

Fault == faults < MaxFaults /\ faults' = faults + 1

Terminate ==
  /\ phase = "serving"
  /\ Fault
  /\ phase' = "stopping"
  /\ UNCHANGED <<intact, loaded, database, cache, req, doubt>>

Crash ==
  /\ phase # "down"
  /\ Fault
  /\ Gone

Restart ==
  /\ phase = "down"
  /\ phase' = "starting"
  /\ UNCHANGED <<intact, loaded, database, cache, req, faults, doubt>>

(* An artifact that could not be loaded is put right.                      *)
Repair ==
  /\ \E t \in Tasks \ intact : intact' = intact \cup {t}
  /\ UNCHANGED <<phase, loaded, database, cache, req, faults, doubt>>

-----------------------------------------------------------------------------
(* The cache's connection.                                                 *)

(* The requests and the polls that try whether Redis is back.              *)
Probes == ({"request"} \X {r \in Requests : req[r].probing})
            \cup ({"poll"} \X {h \in Pollers : look[h] = "probing"})

\* Mutant: the next attempt is put off only when one has failed.
PutOffLater == waiting

(* _maybe_reconnect() puts the next attempt off before it waits for the    *)
(* answer to this one.                                                     *)
PutOff == TRUE

(* The head of get() and of set(): the request's stage, or what follows it *)
(* when the cache is believed to be down.                                  *)
Ask(r, q, stage, otherwise) ==
  IF caching THEN /\ req' = [req EXCEPT ![r] = [q EXCEPT !.pc = stage]]
                  /\ UNCHANGED cache
  ELSE IF waiting THEN /\ req' = [req EXCEPT ![r] = [q EXCEPT !.pc = otherwise]]
                       /\ UNCHANGED cache
  ELSE /\ req' = [req EXCEPT ![r] = [q EXCEPT !.pc = stage, !.probing = TRUE]]
       /\ waiting' = PutOff
       /\ UNCHANGED <<redis, caching, look>>

After(stage) == IF stage = "get" THEN "run" ELSE "answer"

(* A failure is a miss, or a result that is not stored.                    *)
WithoutCache(stage) == After(stage)

(* "cache_recovered"                                                       *)
Recovered == caching' = TRUE

(* _record_failure()                                                       *)
RecordFailure == caching' = FALSE /\ waiting' = TRUE

(* The ping of _maybe_reconnect() comes back.                              *)
Probed(r) ==
  /\ req[r].probing
  /\ IF redis
       THEN /\ Recovered /\ UNCHANGED waiting
            /\ req' = [req EXCEPT ![r].probing = FALSE]
       ELSE /\ RecordFailure
            /\ req' = [req EXCEPT ![r].probing = FALSE, ![r].pc = WithoutCache(@)]
  /\ UNCHANGED <<process, database, redis, look, faults, doubt>>

(* The GET or the SET comes back.  A hit is answered at once.              *)
Replied(r) ==
  /\ req[r].pc \in {"get", "set"} /\ ~req[r].probing
  /\ IF redis
       THEN /\ \E next \in {After(req[r].pc), "answer"} : req' = [req EXCEPT ![r].pc = next]
            /\ UNCHANGED <<caching, waiting>>
       ELSE /\ RecordFailure
            /\ req' = [req EXCEPT ![r].pc = WithoutCache(@)]
  /\ UNCHANGED <<process, database, redis, look, faults, doubt>>

(* Ten seconds pass; no answer from Redis takes that long.                 *)
Tick ==
  /\ waiting /\ Probes = {}
  /\ waiting' = FALSE
  /\ UNCHANGED <<process, database, redis, caching, look, req, faults, doubt>>

-----------------------------------------------------------------------------
(* A request.                                                              *)

(* readiness(), with a slot free.                                          *)
Ready == phase = "serving" /\ (loaded # {} \/ ~Eager)

Settled(row) == row \notin {"pending", "exposed"}

Arrive(r) ==
  /\ Ready
  /\ req[r].pc = "idle" /\ Settled(req[r].row)
  /\ Ask(r, [req[r] EXCEPT !.row = "none"], "get", "run")
  /\ UNCHANGED <<process, database, faults, doubt>>

Failed(r) ==
  /\ req' = [req EXCEPT ![r].pc = "idle"]
  /\ UNCHANGED cache

(* ModelService.get() of the request's task, and the forward pass; a load  *)
(* is tried again by every request.                                        *)
Run(r) ==
  /\ req[r].pc = "run"
  /\ \E t \in Tasks :
       \/ /\ t \in loaded \cup intact
          /\ loaded' = loaded \cup {t}
          /\ Ask(r, req[r], "set", "answer") \/ Failed(r)
       \/ t \notin loaded \cup intact /\ Failed(r) /\ UNCHANGED loaded
  /\ UNCHANGED <<phase, intact, database, faults, doubt>>

(* record_prediction(): the write is a task of its own.                    *)
Answer(r) ==
  /\ req[r].pc = "answer"
  /\ req' = [req EXCEPT ![r].pc = "idle",
                        ![r].row = IF logging THEN "pending" ELSE "missing"]
  /\ UNCHANGED <<process, database, cache, faults, doubt>>

\* Mutant: a write that fails is taken for a sign that the database is gone.
GivesUp(r) == logging' = (db = "up" /\ req[r].row = "pending")

(* log_inference() swallows its error and keeps its opinion.               *)
AfterWrite(r) == UNCHANGED logging

(* A write that was on its way when the database failed may be lost also   *)
(* when it is back.                                                        *)
WriteRow(r) ==
  /\ req[r].row \in {"pending", "exposed"}
  /\ db # "hung"
  /\ \/ db = "up" /\ req' = [req EXCEPT ![r].row = "none"]
     \/ /\ db = "down" \/ req[r].row = "exposed"
        /\ req' = [req EXCEPT ![r].row = "missing"]
  /\ AfterWrite(r)
  /\ UNCHANGED <<process, db, ping, cache, faults, doubt>>

-----------------------------------------------------------------------------
(* GET /health: cache and database are asked at the same time.             *)

Poll(h) ==
  /\ phase \in {"serving", "stopping"}
  /\ ~Asked(h)
  /\ ping' = [ping EXCEPT ![h] = "sent"]
  /\ IF ~caching /\ waiting THEN UNCHANGED cache
     ELSE /\ look' = [look EXCEPT ![h] = IF caching THEN "asked" ELSE "probing"]
          /\ waiting' = IF caching THEN waiting ELSE PutOff
          /\ UNCHANGED <<redis, caching>>
  /\ UNCHANGED <<process, db, logging, req, faults, doubt>>

(* cache.health(): the ping of _maybe_reconnect(), then one of its own; a  *)
(* failure reports the cache as degraded.                                  *)
PollProbed(h) ==
  /\ look[h] = "probing"
  /\ IF redis THEN Recovered /\ UNCHANGED waiting /\ look' = [look EXCEPT ![h] = "asked"]
              ELSE RecordFailure /\ look' = [look EXCEPT ![h] = "none"]
  /\ UNCHANGED <<process, database, redis, req, faults, doubt>>

PollReplied(h) ==
  /\ look[h] = "asked"
  /\ IF redis THEN UNCHANGED <<caching, waiting>> ELSE RecordFailure
  /\ look' = [look EXCEPT ![h] = "none"]
  /\ UNCHANGED <<process, database, redis, req, faults, doubt>>

(* The database answers, or the connection to it fails.                    *)
Ping(h) ==
  /\ ping[h] = "sent"
  /\ db # "hung"
  /\ ping' = [ping EXCEPT ![h] = IF db = "up" THEN "ok" ELSE "failed"]
  /\ UNCHANGED <<process, db, logging, cache, req, faults, doubt>>

\* Mutant: a success is only reported.
ForgottenSuccess(h) == ping[h] = "ok" /\ logging

Believed(h) == ping[h] = "ok"

(* ping() returns and sets the flag; another may have set it meanwhile.    *)
Pinged(h) ==
  /\ ping[h] \in {"ok", "failed"}
  /\ logging' = Believed(h)
  /\ ping' = [ping EXCEPT ![h] = "none"]
  /\ doubt' = /\ doubt
              /\ \/ ping[h] = "failed" \/ db # "up"
                 \/ \E other \in Pollers : ping[other] = "failed"
  /\ UNCHANGED <<process, db, cache, req, faults>>

(* _check_database() gives up after three seconds and cancels ping(), which*)
(* leaves the flag as it was.                                              *)
Timeout(h) ==
  /\ ping[h] = "sent" /\ db = "hung"
  /\ ping' = [ping EXCEPT ![h] = "none"]
  /\ UNCHANGED <<process, db, logging, cache, req, faults, doubt>>

-----------------------------------------------------------------------------
(* PostgreSQL and Redis.                                                   *)

Outage ==
  /\ db = "up"
  /\ Fault
  /\ db' \in {"down", "hung"}
  /\ doubt' = TRUE
  /\ req' = [r \in Requests |->
               [req[r] EXCEPT !.row = IF @ = "pending" THEN "exposed" ELSE @]]
  /\ UNCHANGED <<process, logging, ping, cache>>

Recovery ==
  /\ db # "up"
  /\ db' = "up"
  /\ UNCHANGED <<process, logging, ping, cache, req, faults, doubt>>

RedisOutage ==
  /\ redis
  /\ Fault
  /\ redis' = FALSE
  /\ UNCHANGED <<process, database, caching, waiting, look, req, doubt>>

RedisRecovery ==
  /\ ~redis
  /\ redis' = TRUE
  /\ UNCHANGED <<process, database, caching, waiting, look, req, faults, doubt>>

Next ==
  \/ Start \/ Exit \/ Terminate \/ Crash \/ Restart \/ Repair \/ Tick
  \/ \E r \in Requests :
       \/ Arrive(r) \/ Probed(r) \/ Replied(r) \/ Run(r) \/ Answer(r) \/ WriteRow(r)
  \/ \E h \in Pollers :
       \/ Poll(h) \/ Ping(h) \/ Pinged(h) \/ Timeout(h)
       \/ PollProbed(h) \/ PollReplied(h)
  \/ Outage \/ Recovery \/ RedisOutage \/ RedisRecovery

(* The event loop runs what is ready, calls return or time out, and time   *)
(* passes.  Nobody has to send a request, ask for /health or repair        *)
(* anything.                                                               *)
Fairness ==
  /\ WF_vars(Start) /\ WF_vars(Tick)
  /\ \A r \in Requests :
       WF_vars(Probed(r)) /\ WF_vars(Replied(r)) /\ WF_vars(Run(r)) /\ WF_vars(Answer(r))
  /\ \A h \in Pollers :
       /\ WF_vars(Ping(h)) /\ WF_vars(Pinged(h)) /\ WF_vars(Timeout(h))
       /\ WF_vars(PollProbed(h)) /\ WF_vars(PollReplied(h))

Spec == Init /\ [][Next]_vars /\ Fairness

-----------------------------------------------------------------------------
(* Properties.                                                             *)

(* Drift detection and the canary read the rows: a prediction goes without *)
(* one only if the database has failed since a poll last found it up, if   *)
(* an older poll that saw it down is still to return, or if the process    *)
(* ends before its task has run.                                           *)
EveryPredictionIsLogged ==
  [][ \A r \in Requests :
        req'[r].row = "missing" /\ req[r].row # "missing" =>
          doubt \/ req[r].row = "exposed" \/ phase' = "down" ]_vars

(* However polls and writes overlap, a database that stays up is written   *)
(* to again, as long as somebody keeps asking for /health.                 *)
LoggingResumes ==
  <>[](db = "up" /\ phase = "serving") /\ []<>(\E h \in Pollers : ping[h] = "sent") =>
    <>[]logging

(* While Redis is down one request or poll at a time finds out whether it  *)
(* is back.                                                                *)
OneReconnect == Cardinality(Probes) <= 1
=============================================================================
