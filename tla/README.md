# Verification of the computer-vision inference service

This directory holds TLA+ models of the service in this repository, the TLC
runs that check them on small instances, and proofs that TLAPS checks for every
value of the constants. It is written for somebody who has the repository at
hand; paths are relative to its root (`src/` in PROJECT.json).

1. [The system](#the-system): its parts, their state, and what is hard about them
2. [The models](#the-models): which module models what, and how
3. [The runs](#the-runs): what TLC checks, the bounds, the fairness
4. [The proofs](#the-proofs): what holds for every value of the constants
5. [Where code and documentation part](#where-code-and-documentation-part)
6. [What is not modelled](#what-is-not-modelled)
7. [The plan](#the-plan)

## The system

An HTTP API (FastAPI, several replicas) classifies images, detects objects and
searches for similar images. Redis carries the rate limits, the cached
predictions and the Celery queue with its results; Postgres the audit tables,
the `batch_jobs` rows and the table of embeddings. A Celery worker runs batches
through the same inference service. Models come from a registry file and
artifacts on disk, which training, a retraining pipeline and command line tools
write, and which a pod downloads and verifies before the API starts in it.

| Part | State it keeps | Operations | Talks to |
| --- | --- | --- | --- |
| Request path (`api/main.py`, `api/middleware/auth.py`, `api/exceptions.py`) | none; keys from the environment, tokens with the callers | authenticate, issue a token, limit, route, translate exceptions | rate limiter, the routes |
| Image input (`api/dependencies.py`, `api/utils/*.py`) | none | take an upload, a base64 string or a URL; validate, decode, letterbox | the caller, other web servers |
| Batch API (`api/routers/batch.py`) | none of its own | submit, status, cancel | `batch_jobs` row, Celery broker and result backend, rate limiter |
| Batch worker (`worker/tasks.py`, `worker/celery_app.py`) | the task it runs, the ids it knows to be revoked | `process_batch` | the same row and result, the caller's callback URL |
| Rate limiter (`api/middleware/rate_limit.py`) | one token bucket per caller in Redis, fallback buckets per process, a reconnect timer and task | `check`, `enforce`, `connect`, `_maybe_reconnect`, `close` | Redis |
| Inference service (`api/services/inference_service.py`) | a semaphore and an in-flight count | `classify`, `detect`, `embed` | models, cache, thread pool |
| Model service (`api/services/model_service.py`) | registry entries, loaded runtimes, load failures, fingerprints | `resolve`, `load`, `warmup`, `reload_registry`, `unload_all` | registry file and artifacts on disk |
| Prediction cache (`api/services/cache_service.py`) | Redis keys, an availability flag and a retry timer | `connect`, `get`, `set`, `health`, `invalidate_model` | Redis |
| Database service, prediction log (`api/services/db_service.py`, `prediction_log.py`) | an availability flag, the tasks whose rows are not written yet | `connect`, `ping`, `session`, the row functions, `record_prediction` | Postgres |
| Health (`api/routers/health.py`) | none | `/health`, readiness, liveness | the flags of the parts above |
| Similarity index (`api/services/pgvector_index.py`, `similarity_index.py`, `api/routers/similarity.py`) | a table of embeddings, and in every replica a dimension and a "table exists" flag; or, in one process, vectors and items in memory and two files they are read from | index, search, delete, reset; make and load the index in memory | Postgres, or files |
| Retraining pipeline (`models/pipeline/retraining.py`) | a history file | decide, train, validate, compare, promote | the training loop and the validation tools |
| Validation tools (`models/validation/*.py`) | recorded baselines | drift report, A/B comparison, regression check, validation | the inference log, directories of images, models |
| Training loop (`models/training/train_classifier.py`) | best weights, checkpoint, history; a mirror of them | train, resume, mirror | files, the notebook that moves them between clones |
| Registry and delivery (`models/registry.py`, `scripts/prepare_models.py`, `scripts/fetch_artifacts.py`, `models/optimization/*.py`) | `registry.json`, artifacts and their manifest; in a pod a volume | register, retire, export, record checksums; download, verify, build an engine | CI, a bucket, the model service |

What is hard about each of them, and what makes it correct:

| Part | Hard behaviour | Correct when |
| --- | --- | --- |
| Request path | tokens outlive the keys they were traded for; a request is charged at the middleware and again by the batch route; anything may raise anywhere | a key and its tokens spend one allowance, access ends with the token, every fault gets the status of whoever made it |
| Image input, detections | many checks in an order that matters; rounding on the way into the model's square and back; overlapping boxes | see the request path; boxes land where they were, only duplicates go |
| Batch jobs | two stores written one after the other by two processes; redelivery, retries, two time limits, revocation by broadcast, a result that expires | an accepted job is never lost, settles in the end, a truncated result does not look whole, a cancelled job does not run where the cancellation is known, what a client sees only moves forward |
| Rate limiter | clock readings of several replicas applied in another order; failing over to local buckets and back; lost replies; a reconnect task that races the failures of older calls | spending is bounded in every window and across failures, nothing is served unpaid, Retry-After and the clocks' difference are long enough, Redis is used again once it is back |
| Inference slots | a deadline that expires in the moment a slot is granted; passes that outlive their request | no slot is lost or invented, the queue for one always moves |
| Model service and cache | the model is resolved twice; fallbacks to other formats and other versions; reloads, rollouts and overwritten files in between | a pin is honoured or the answer says it was not, what is cached is what the files would answer |
| API process | beliefs about database, cache and models that only some later call corrects; polls that overlap and time out; rows written after the answer | a prediction has its row unless the database was in doubt, logging resumes, one request at a time tries a lost Redis |
| Similarity index | count, decision, drop, create and insert are separate awaits over one table shared by replicas that each believe something about it; several threads make the index in memory, from files that a kill may have parted | an acknowledged image is kept, "empty" means empty, a refusal is real |
| Retraining | a history read at the start, cut to a hundred results and written at the end of a run that takes hours; stages that raise | the history keeps the last results, cooldown and second reading are honoured, nothing unvalidated is promoted |
| Validation tools | limits, thresholds, NaN and approximations at their edges; figures that are missing, old or from another machine | a clear shift reaches the pipeline, better never loses for being better, passing means that what was looked at is in order |
| Training loop | killed between any two writes; resumed under other options; files put together from a mirror or an older clone | the checkpoint is that of an uninterrupted run, the shipped weights are of the best epoch, a lost machine costs a bounded number of epochs |
| Registry and delivery | tools that are killed or run at the same time over files without locks; truncated downloads, restarted containers, a graph that is reused by its age | the registry changes in single steps, what is served is what was recorded and registered, a pod comes up |

The hazards behind these lines, each at its place in the code with the
properties that cover it, are in PROJECT.json; its notes say which part of a
hazard a property leaves out, and a hazard that the properties leave out
altogether names none.

## The models

Every component has a module of its own; the `MC` modules add the symmetry sets
and inputs TLC uses, `<module>_proofs` has the theorems. An `MC` module that
instantiates a component instead of extending it (`Limiter`, `Path`, `Cache`,
`Memory`, ...) does so to let it stand beside another one, in a run or in a proof
module: TokenBucket_proofs is also about RateLimiter, RequestPath and Detections,
InferenceSlots_proofs about ServingCache, VectorIndex_proofs about MemoryIndex,
Retraining_proofs about DriftReport and Regression. Each action is one
stretch of code between two points where something else can run: two awaits in
the API, two writes to files or shared storage in a worker, a tool or a
pipeline run. Code that decides without keeping state is operators, whose inputs
TLC enumerates.

```
RequestPath ── uses ── Images                a request and its image, up to the answer
Detections                                   a detector's output, as the caller gets it
BatchJobs ── refines ──> JobLifecycle        the status a client is shown
TokenBucket ── refines ──> IdealBucket       lazy refill = refill every second
RateLimiter                                  uses the ideal bucket, many of them
ServingCache   InferenceSlots                two views of one prediction request
ApiProcess                                   the process around them, from start to exit
VectorIndex  MemoryIndex                     the two backends of the similarity search
Training ──> Retraining ──> Delivery         how a model comes to be served
DriftReport  ABTest  Regression  ModelValidation     what Retraining asks
MCAssessment = Retraining + those four       MCRequestPath = TokenBucket + RequestPath + Detections
MCVectorIndex = VectorIndex + MemoryIndex
```

The compositions in the last two lines put components side by side that do not share
state, so that one run checks them: a behaviour follows one of them and leaves
the others at rest.

### BatchJobs, JobLifecycle

`row` is the `batch_jobs` row, `result` the entry in Celery's result backend,
`ready` the queue, `control` the revoke broadcasts on their way. The submit
handler (`SubmitRecord`, `SubmitEnqueue`, `SubmitEnqueueFails`, `SubmitRefuse`)
writes the row, then sends the task. The cancel handler (`CancelRead` to
`CancelRecord`) reads the row, asks for the result state, revokes, and writes
the row. `pc[w]` walks a worker through `process_batch`: taking the message
(`STARTED` is stored by Celery), the row, one item at a time with its progress
update, the outcome, the callback, the return value (`SUCCESS` is stored),
the late acknowledgement. `SoftLimit`, `HardLimit`, `Crash` and `ReceiveRevoke`
are what interrupts it, and `Escape`, an exception or a soft limit that leaves
the task at any of these steps: a lost connection has it retried, anything else
makes it a FAILURE. `Status` is what `GET /batch/{id}`
answers from both stores; `Lifecycle` maps it to `JobLifecycle`, the life cycle
docs/API.md promises.

Abstracted: what an item computes (it succeeds, fails, or runs out of time),
urls, priorities, the words of the callback. `StoreResult` never overwrites a
stored `SUCCESS`, which is what Celery's backend does.

### TokenBucket, IdealBucket

One bucket in Redis at the granularity of the Lua script. `Send` reads the
caller's clock (up to `MaxSkew` ahead of the slowest), `Run` runs the script
for some call on its way, in any order; `Drop` loses one; `Tick` lets a second
pass, but no call stays on its way for longer than `MaxDelay`.
`bucket.deadline` is the key's expiry. `quote` follows one refused caller:
when, on the slowest clock, its Retry-After is over and what it asked for,
until something is granted; its next request is a `Send` like any other, on the
clock of any replica. `start`, `granted` and `rewound` belong to an observer
who opens a window of observation whenever it likes (`Watch`). `IdealBucket` is
the bucket the module's documentation describes.

### RateLimiter

Which of the many buckets a request is charged to. A request passes the
middleware (one token) and, for a batch, the handler (one more per image);
each of the two is a `check()`: on Redis (`RunScript`, then `Reply` or
`Failure`) or on the process's own bucket (`FallBack`). `task`, `cooldown` and
`available` are the way back: `MayReconnect` inside `check`, `DropClient` and
`Connect` in the task. `broken` marks calls whose connection `DropClient` has
closed under them. A tier configured to rate 0 (`Blocked`) takes the path the
code takes: NaN as expiry in Redis, an infinite `retry_after`, an OverflowError.

Buckets refill with every tick here. That this is the same as the lazy refill
of the script when clocks agree is what the theorem `InOrderIsIdeal` says; skew
and the key's expiry are in TokenBucket.

### InferenceSlots

asyncio's semaphore as it works inside: the value, the queue, the waiters whose
future has been set but that have not run yet (`woken`). `Acquire`, `Resume`,
`Overload` (the two second deadline), `Complete` and `Timeout` are the
request's; `Start`, `Finish` and `OrphanEnds` are the thread pool's.
Preprocessing runs in the same pool, without a deadline and before a slot is
asked for.

### ServingCache

A prediction is the artifact that made it: its version, its format, its
content. `Lookup` resolves the model and computes the key from the file on
disk, `CacheGet` asks Redis, `ResolveAgain` is the second resolution inside
`ModelService.get()`, `LoadModel` uses what is loaded or loads the preferred
format and then the other, `Fallback` is `_resolve_model()`, `CacheSet` stores
unless the answer is marked as degraded. Operations change files (`Rollout`,
`Replace`), the registry (`SetDefault`, `Retire`) and the process (`Restart`,
`Reload`).

### VectorIndex

The table (its column's dimension and the ids in it), and in each replica the
dimension it believes in, the flag that the table exists and the flag that
Postgres answers. `pc[q]` names the call an endpoint is in (`count`, `drop`,
`reset`, `insert`, `query`, `recount`) and its phase: the statement itself, or
the two transactions of `ensure_schema()` before it. `Resizes` is the decision
in `index_image()` to reset an empty index to the length of the vector at hand.

### MemoryIndex

The default backend. `get_similarity_index()` is a plain function, which
FastAPI runs in a thread, so each of its steps can meet those of another
request: `Resolve` looks at the singleton, `Build` assigns a new one, `Load`
(which reads the global again), `Install` and `Check` are `load()`, `Return`
reads the global once more. What the endpoint does with the object it got has
no await that yields, and is one step (`IndexImage`, `Search`). `built` are the
objects ever made, `current` the singleton, `disk` the pair of files `save()`
writes one after the other: `Init` takes any two saves for them, since a kill in
between leaves the vectors of one with the metadata of another. A vector is the
image it was made from, so a hit is an item with the image it was found by.

### Retraining

A run reads the history, decides (`ShouldRetrain`, with its cooldown and its
second reading), trains, validates, compares, and writes the history anew,
truncating it first (`Finish`) and keeping the last `Kept` results (`Write`; 100
in the code). Runs may overlap and may be killed anywhere. `log` has the results
of all runs that finished; `torn` is how long it was when a run was last killed
as it wrote, so that what the file can still hold is its end from there, or its
last `Kept` entries. `Regression` always answers "no result": `_run_regression` calls
`check_regression` without an argument it requires.

### RequestPath, Images

A request from the outside in: `Receive` is authentication (a key counts if
there is one, else a token), `Limit` the first charge, then one action per
route, and `Complete` the monitoring middleware's `finally`. `Answer` is the
response or the exception with the status its handler gives it; `blame` is
what the specification says of whose fault it was, whatever the code says. A
token carries the tier its key had; `Reconfigure` is a restart with other keys,
`lastHeld` the memory of when a key last had a tier.

`Images` is the way of an image: the payload's validator, the upload read in
pieces, the checks of a URL, and the nine checks of the bytes, each as the name
of the exception it raises, in the order of the code. A picture is what these
checks can tell apart. Beside them `Fetched` and `Usable` say what an image is
good for without any order, which is what the answer is compared with.

Buckets are not refilled here (a behaviour is a window shorter than a refill)
and fail over in RateLimiter only.

### Detections

Integer arithmetic for what the code does in floating point: scores and
thresholds are percentages, boxes half pixels, `Rounded` is Python's rounding of
halves to even. `nms` and `Decode` are the loops of the inference service;
`KeptAreTheBest` says of their result, without any loop, that everything left
out overlaps a better box that was kept. `Scaled`, `PastedAt` and `Unscaled`
are the letterbox and its inverse.

### ApiProcess

One API process from start to exit. `logging` and `caching` are what it
believes of the database and of Redis, `ping[h]` and `look[h]` the questions a
poll of `/health` asks the database and Redis, `req[r].row` the write of a
prediction's row, which is a task of its own that nobody awaits. `Start`
connects both and warms the models up, `Gone` is what an exit or a crash takes
with it. The database can be down or hang; a `Pinged` sets the flag whatever
another poll has found meanwhile, a `Timeout` leaves it alone. `Ask` is the
head of the cache's `get()` and `set()`, where a request may become the one
that tries whether Redis is back, as a poll may in `Poll`: `PollProbed` and
`PollReplied` are the reconnection and the ping in the cache's `health()`.

### Training

`disk`, `old` and `mirror` are three directories of three files (`last`,
`best`, `history`); `proc` is the process. `Start` resumes or does not, under
any of the schedulers, and `Restored` is what a checkpoint brings back; `Epoch`
scores the raw and the averaged weights and takes the better; `SaveBest`,
`SaveCheckpoint` and `MirrorEpoch` are the writes after it; `Kill` may tear the
file being written, if it is written in place. `Reclone` and `Adopt` are the
notebook's cells that clone the repository anew and take over an older clone's
checkpoint, `CopyBack` is somebody doing that by hand from the mirror.
`MachineLost` takes the disk, and an older clone with it unless that was on
Drive.

The weights of a checkpoint are the number of epochs they were trained for, the
schedule is the number of steps it has made. `Accumulation` may exceed the
batches of an epoch: the plan then has a step per epoch (`max(1, ...)`) and the
epoch none. `Best` and `BestEpoch` define what
a checkpoint's fields should be from the list of its epochs.

### Delivery

A file is the number of the export that wrote it, negative while it is broken.
Every tool reads or writes one file at a time (`Export`, `Load`, `Open`,
`Write`, `Replace`, `Names`, `Hash`, `Record`) and can be killed in between.
The temporary file of the registry has one name for all tools, and `fd` follows
what an open file is called after another tool has renamed it. `CIPasses` is
what the tests and the workflow let into an image (`ManifestMatches` is the
test of the manifest), `Schedule` a pod with that image; its init containers
run `Migrate`, which fails while the database is down, `FetchAll` to `Verify`
(a checksum before the file is put in place) and `BuildEngine` to
`EngineWritten`, on a volume that outlives them, and `Serves` is what the API
ends up answering with.

### DriftReport, ABTest, Regression, ModelValidation, MCAssessment

What the pipeline relies on, as operators. The drift report is followed from
the two queries of the log, or from two directories, through the tests to the
severity and what `decide()` takes from it; what the tests find (significant or
not, and how large) is an input. `ABTest` has the exact binomial test and the
corrected chi-square over the integers. `Regression` records and checks,
`ModelValidation` compares outputs where a NaN is neither above nor below
anything, and checks robustness and accuracy of classifiers only. `MCAssessment`
enumerates their inputs: the models and what they answer are its own.

### History variables

`struck` (BatchJobs, ServingCache, VectorIndex, Training), `raced`
(MemoryIndex), `alone` and `torn` (Retraining),
`doubt` (ApiProcess), `lost` and `overlap` (Delivery) record which kinds of
upset have happened in a behaviour. Some promises of this code hold only as
long as a particular thing does not happen, and a property then names that
thing, as narrowly as it could be drawn: `StoredIsKept`, for instance, speaks
of every outage and restart except one in which Postgres fails to answer a
`count`. Each exception is needed: without it TLC finds the behaviour described
[below](#where-code-and-documentation-part).

## The runs

| Run | Module | Instance | Shows |
| --- | --- | --- | --- |
| BatchFaults | MCBatchJobs | one job of two items, one retry, two workers, every kind of fault, two per behaviour (cancelling and expiry are not counted) | `JobNotLost`, `NoSilentTruncation`, `RevokedIsNotRun`, `RowAgreesWithResult`, `LifecycleIsFollowed`, `JobsSettle` |
| BucketSkewed | MCRequestPath | *bucket:* capacity 3, rate 2, two calls on their way, skew 1, delay 1, five seconds, `updated` set back by two seconds at most; *requests:* one at a time, a key in either of two tiers or none, a token with a life of one minute, two minutes, images with at most one thing wrong; *detector:* three anchors, sides up to 60 | `WindowLimit`, `RetryIsServed`; `OneAllowance`, `AccessEnds`, `StatusTellsTheFault`; `DuplicatesOnly`, `BoxesComeHome` |
| LimiterFaults | MCRateLimiter | one process, two requests (single images and batches of one), a caller and one of a tier of rate 0, capacity 1, one fault of any kind | `SpendingIsAccounted`, `RedisIsUsedAgain` |
| SlotsKept | MCInferenceSlots | four requests, two slots, three threads | `SlotsAreKept`, `RequestsAreAnswered` |
| ServingCache | MCServingCache | one request at a time, two versions of two formats, pins and runtimes asked for or not, two events of any kind | `PinIsHonoured`, `CacheIsFresh` |
| ApiReplica | MCApiProcess | two requests, two pollers, one task, two outages, crashes or rollouts | `OneReconnect`, `EveryPredictionIsLogged`, `LoggingResumes` |
| VectorsShared | MCVectorIndex | *table:* two replicas, two requests, one image, vectors of lengths 1 and 2, one outage or stop; *memory:* two requests at a time, three in all, two images, every pair of saves of up to two images | `StoredIsKept`, `AnswersAreReal`; `HitsAreTheirOwn` |
| RetrainRuns | MCAssessment | *pipeline:* two runs at a time, three in all, one of them killed, two ticks, a cooldown of two, a file of two results; *tools:* logs of five rows under a limit of four, directories of eight images, sixty disagreements, four metrics, outputs of three passes and a batch of three, three answers | `HistoryIsKept`, `PromotionIsValidated`, `TrainingIsDue`; `ClearShiftIsReported`, `BetterIsNeverRefused`, `CleanCheckIsComplete`, `ValidationIsHonest` |
| TrainingRestarts | MCTraining | four epochs of five batches in groups of two, patience 2, every second epoch mirrored, two schedulers, two starts, two losses | `CheckpointIsExact`, `BestIsShipped`, `FinishedIsRecorded`, `MirrorFollows` |
| DeliveryPods | MCDelivery | two models of which one is committed, two tools, two commands, two retries, three kills, failed migrations or downloads | `RegistryIsAtomic`, `ServedIsVerified`, `ServedIsRegistered`, `PodsComeUp` |
| SlotsCeiling | MCInferenceSlots | two requests, one slot, two threads | `HardCeiling` is violated |
| RetrainGate | MCRetraining | one run | `WorseIsRefused` is violated |

Each property has a mutant in PROJECT.json: a plausible slip in the modelled
code with which TLC finds the property violated under the very same
configuration. Every module with a state has a `TypeOK`; all of them hold in
the instances above, and all twelve are [proved](#the-proofs).

### Why the bounds are enough

* Batch jobs share nothing but the queue and the workers' memory, and no action
  reads the state of another job; one job meets every interleaving of its own
  handlers, two workers make redelivery to another worker possible, two items
  separate "first", "between" and "after the last", and two faults combine (a
  crash and a revocation, a retry and a limit). The proofs cover any number.
* In the bucket a window of five seconds is longer than it takes to fill, and
  than the key's expiry after a single token is missing; two calls suffice to
  reorder, and to let a refused call with an older reading run between a refusal
  and the return of its caller. The proofs cover any numbers.
* On the request path every step touches shared state at most once, and what
  concurrent charges do to a bucket is RateLimiter's and TokenBucket's subject,
  so one request at a time meets everything that a request can leave behind for
  a later one: a spent bucket, a token, other keys. Two minutes are a token's
  life and one more. A picture, a link or a reply has at most one thing wrong
  with it, besides its two sides, which vary together: each check is met alone
  and the pairs whose order the code decides (length and first bytes, sides and
  area) meet at their boundaries. An instance with two requests or two tokens
  does not finish in five minutes.
* Three anchors make a chain, in which the middle box overlaps both others; the
  six boxes have one within another, one without area and one across the edge.
  Lengths up to 60 and sides of 16 and 17 meet every rounding of a half.
* The limiter's processes meet only in Redis's bucket, and
  `SpendingIsAccounted` counts them; one process with two requests has every
  race between the task, its timer and the failures of older calls. Capacity 1
  makes every second request a refusal.
* Four requests for two slots put two waiters behind two holders, which is
  what the hand-over needs to go wrong; three threads let one abandoned pass
  take the place of another's.
* A cache entry outlives the request that wrote it, so later requests meet it
  in the same instance; requests of one process race only through reloads,
  which are an action. Two events combine a rollout and a fallback, a reload
  and a retirement.
* Two requests and two polls race for the reconnection, and the polls overtake
  each other at the database; one task is enough, since no property tells one
  model's answers from another's; two faults are an outage within an outage of
  the other store, or a crash in one. `OneReconnect` is proved for any number.
* One image and two lengths are what one resize needs, a second replica and a
  second request what two need to get in each other's way. In memory, two
  requests make the index together and a third looks at what they made; saves
  of none, one and two images have equal and different sizes.
* Three pipeline runs are one to promote, one to be recorded after it and one
  to be misled; the third also cuts a file of two results. That a fourth
  decides rightly on the cut file is proved only (`TrainingIsNotTooEarly`). A
  log of five rows has both windows, a row of another model and one without a
  result, and one more than the limit; sixty disagreements reach well past the
  25 at which the exact test gives way; three outputs are the first, the second
  and a later one.
* Four epochs with a patience of two can improve, stall, improve and stop
  early; five batches in groups of two leave one over, which is where the
  schedule's two counts could differ; two starts and two losses are a kill and
  a resume after a kill or a lost machine.
* Two commands are what two tools at once, or a prepare and a manifest, need;
  three faults kill a tool, an init container and fail a download.

### Fairness

* BatchJobs: a worker that is up keeps consuming and running
  (`WF(Work(w))`); faults, the database and clients owe nothing.
* RateLimiter: the event loop runs what is ready; `socket_timeout` ends every
  wait for Redis (a reply that is lost is a fault of its own, a reply that
  cannot come any more is `Raises`); time passes; and, for `RedisIsUsedAgain`
  only, requests keep arriving, since the code reconnects from within `check()`
  and in no other place.
* InferenceSlots: the event loop runs what is ready; a pass ends some day; the
  executor's queue is first in, first out, which gives every call its turn
  (`SF(Start(p))`). No deadline is assumed to expire, so `RequestsAreAnswered`
  does not lean on the timeouts.
* ApiProcess: a start completes, calls that can return do, the three seconds of
  a poll pass. Nobody has to send a request, repair an artifact or ask for
  `/health`: that somebody keeps asking is a premise of `LoggingResumes`, since
  nothing else finds out that the database is back.
* Delivery: the pod's own steps are taken and the kubelet restarts what failed
  (`WF(PodStep)`); downloads fail only as often as there are faults.
* The other modules check safety only: their liveness would rest on clients or
  on somebody starting a tool again.

`CHECK_DEADLOCK` is off in every run: bounded behaviours end when the bound on
time, faults or events is used up and all requests are answered.

## The proofs

TLAPS proves these for every value of the constants that the named assumptions
allow.

| Module | Theorem | States |
| --- | --- | --- |
| BatchJobs_proofs | `TypeCorrect` | `[]TypeOK` |
| | `AcceptedJobsAreKept` | `[]JobNotLost` |
| | `RevokedJobsAreNotRun` | `[]RevokedIsNotRun` |
| | `TruncationIsVisible` | `[]NoSilentTruncation` |
| | `RowStaysTrue` | `[]RowAgreesWithResult` |
| | `LifecycleIsKept` | `LifecycleIsFollowed`: the steps are those of JobLifecycle |
| TokenBucket_proofs | `TypeCorrect` | `[]TypeOK` |
| | `WindowIsLimited` | `[]WindowLimit` |
| | `RetryAfterIsHonest` | `[]RetryIsServed` |
| | `RetryAfterIsExact` | `[]RetryAfterSuffices` where clocks agree (`MaxSkew = 0`) |
| | `InOrderIsIdeal` | `IdealSpec`, without skew and delay |
| | `LimiterIsTyped` | `[]TypeOK` of RateLimiter |
| | `SpendingStaysAccounted` | `[]SpendingIsAccounted` |
| | `PathIsTyped` | `[]TypeOK` of RequestPath |
| | `OneAllowanceForAll` | `[]OneAllowance` |
| | `AccessEndsWithTheKey` | `AccessEnds` |
| | `StatusTellsTheTruth` | `[]StatusTellsTheFault` |
| | `EdgesAlwaysComeHome` | `EdgesComeHome` of Detections for all sizes |
| | `BoxesStayHome` | `[]BoxesComeHome` |
| InferenceSlots_proofs | `TypeCorrect` | `[]TypeOK` |
| | `SlotsStay` | `[]SlotsAreKept` |
| | `GrantsAreWanted` | the queue is the waiting requests, each once, and only they are granted a slot |
| | `CacheIsTyped` | `[]TypeOK` of ServingCache |
| | `PinsAreHonoured` | `[]PinIsHonoured` |
| | `CacheStaysFresh` | `[]CacheIsFresh` |
| ApiProcess_proofs | `TypeCorrect` | `[]TypeOK` |
| | `OneReconnectHolds` | `[]OneReconnect` |
| | `PredictionsAreLogged` | `EveryPredictionIsLogged` |
| VectorIndex_proofs | `TypeCorrect` | `[]TypeOK` |
| | `AcknowledgedIsKept` | `[]StoredIsKept` |
| | `AnswersStayReal` | `AnswersAreReal` |
| | `NothingIsLost` | `[](stored \subseteq table.ids)`, without exceptions, for one vector length |
| | `MemoryIsTyped` | `[]TypeOK` of MemoryIndex |
| | `HitsStayTheirOwn` | `[]HitsAreTheirOwn` |
| Training_proofs | `TypeCorrect` | `[]TypeOK` |
| | `CheckpointsAreExact` | `[]CheckpointIsExact` |
| | `TheBestIsShipped` | `[]BestIsShipped` |
| | `TheHistoryIsWhole` | `[]FinishedIsRecorded` |
| | `TheMirrorFollows` | `[]MirrorFollows` |
| Delivery_proofs | `TypeCorrect` | `[]TypeOK` |
| | `ChangesAreAtomic` | `[]RegistryIsAtomic` |
| | `OnlyVerifiedIsServed` | `[]ServedIsVerified` |
| | `OnlyRegisteredIsServed` | `[]ServedIsRegistered` |
| Retraining_proofs | `TypeCorrect` | `[]TypeOK` |
| | `ValidationGates` | `[]PromotionIsValidated` |
| | `HistoryStaysWhole` | `[]HistoryIsKept` |
| | `TrainingIsNotTooEarly` | `TrainingIsDue` |
| | `SeverityIsEarned` | a report of moderate or high severity has a feature `decide()` acts on |
| | `CleanCheckIsThorough` | `CleanMeansNoWorse` of Regression for all measurements |
| | `CleanChecksStayComplete` | `[]CleanCheckIsComplete` |

**BatchJobs**, from `ConstantsAssumption` (at least one item, bounds are
naturals, `None` is no job). `TypeOK` is not inductive: that a worker's job is
a job when its actions update the row needs `BusyHasJob`, and that the counts
stay within the number of items needs `CountsFit` (before an item fewer than
all are counted). `TypeInv` is the three together. `JobNotLost` is inductive
with it: every action that takes a message out of the queue gives it to a
worker or settles the job, every action that frees a worker settles the job,
queues it again, or comes after the result was stored. `NoSilentTruncation`
needs `PastLoopCounted`: a worker past its loop has counted every item or has a
failed one, which is what the soft limit's error object is for.

`RowAgreesWithResult` relates two stores that are written in different steps,
so its invariant `JobInv` follows one job through all of them: before it is
queued it has left nothing but its row (`Fresh`); as long as no worker died it
exists once, as a message or with a worker (`OneCopy`), not at all once a
SUCCESS is stored (`Over`), and a row that calls it finished has the counts of
the worker that is about to return them (`RowTells`). After a crash only
`Fresh` is left, which is why the property stops there. No action reads what
belongs to another job: `Apart` says so of a step and a job, and `ApartKeeps`
disposes of every job but the one an action is about.

`LifecycleIsKept` is the step simulation of JobLifecycle under the faults that
`LifecycleIsFollowed` allows. `Calm` (the database answers, nothing is revoked)
and `Orderly` (a queued job's result is PENDING or RETRY, a running one's
STARTED or PROGRESS, a job without a result has the row its submission wrote)
make what a client is shown a function of the result and of whether the job was
submitted (`ShownIsFaces`); every action then moves that of one job along the
life cycle or leaves it alone.

**TokenBucket**, from `BucketAssumption` (a positive rate, costs no larger than
the capacity) and `SlackAssumption` (the 60 seconds added to a key's lifetime
are no less than the longest delay and the largest skew). The inductive
invariant is `Inv`:

* `CallsAreRecent`: a call on its way carries a clock reading from the last
  `MaxDelay` seconds, ahead by `MaxSkew` at most;
* `OutlivesRefill`: when the key expires the bucket was full on every clock, so
  forgetting it gives nothing away. This is where `SlackAssumption` is needed;
* `Budget`: what was granted in the window and what is left are covered by a
  full bucket, the refill since the window began, and the seconds refilled
  twice because `updated` went backwards;
* `QuoteIsKept`: at the end of a Retry-After, plus `MaxSkew`, the bucket has what
  the caller was refused, whichever replica's clock is asked then; refused calls
  rewrite the bucket and leave that alone. The first is the quotient rounded down
  plus one, the margin is what a refusal on a fast clock is ahead of a slow one.

`WindowLimit` follows from `Budget`, and `RetryIsServed` from `QuoteIsKept`, since
a request sent after the wait carries no older reading, and a bucket that has
expired is full. Without skew the margin is nothing: `RetryAfterIsExact`.

`InOrderIsIdeal` is a step simulation under `InOrder` (no skew, no delay): the
level that the next call would find, `Available` at the present second, starts
full, grows by the rate with every tick, also when the key expires in it, and
falls by the cost of what is granted, which is IdealBucket step by step. `Inv`
supplies that `updated` is never ahead and that an expired key was full.

**RateLimiter**, from `LimiterAssumption`, for any number of processes, callers
and requests. `SpendingIsAccounted` alone is not inductive: it says what was
spent and not what can still be. `Accounted` adds what is left in a caller's
buckets, in Redis and in every process, and is kept by every step: a granted check moves
tokens from a bucket to what was spent, a tick or a fault adds to a bucket no
more than it adds to the allowance. The sum over the local buckets is the
number of tokens they hold, the cardinality of a set of pairs, so that a step
is a lemma on adding members to a finite set or taking them away, and no
induction over the processes is needed. Only what the window counts is in the
books (`WindowIsClosed`). `PriceTaken` follows a request through its two checks
to the second half of the property: what is served was charged.

**RequestPath**, from `RequestAssumption`, for any keys, tiers, tokens, images
and requests at once. Four parts of `PathInv` carry a property each.
`Registered` and `Issued`: whoever was let in, or holds a token, had his key
configured with that tier when it was looked up, which `AccessEnds` needs of
the token and the memory `lastHeld` of the key. `Books`: what was taken for a
key is at most the number of tokens gone from its buckets, and only buckets of
tiers it has held have lost any; `Held` makes the full buckets of these tiers a
set, and `OneAllowance` compares the two sets. `Fine` says what each step of a
request knows of its blame: a request that is still on its way has nothing
wrong that an earlier check was to find. The types in `Images` (any picture,
link or reply) are what makes `StatusTellsTheTruth` a statement about more than
one thing wrong at a time. `Gauge` counts the requests that are here.

**Detections** has the arithmetic of the letterbox as `EdgesAlwaysComeHome`,
for images and inputs of any size. `RoundedIsNear` bounds Python's `round()` by
half its divisor; the scaled side is then off by half a pixel at most and
the padding by another half, each of which the inverse multiplies by the
longer side. The run asks this of forty sides, which is the corollary
`BoxesStayHome`.

**InferenceSlots**, from `SlotsAssumption` (slots, threads, finitely many
requests). The counts of `SlotsAreKept` are cardinalities of sets that actions
take a member from or add one to, so the proof is lemmas about those. The third
conjunct, that a request sleeps beside a free slot only while another is on its
way to wake it, needs `QueueIsWaiting`: asyncio's queue holds each waiting
request exactly once, or a wake-up could go to nobody.

**ServingCache**, from `ServingAssumption`, for any versions, pins and number
of events. `CacheTypeInv` adds to the types that what is loaded for a version
is of that version, and what a request on its way knows (its key has the
runtime it prefers and the version it pinned). `VersionInv`: unless a reload
came between the two resolutions of a request, everything cached or about to be
is of the version in its key. The resolution is read twice and the invariant
has to say that it still answers the same (`Consistent`). `FreshInv`: until an
event strikes that the property names, what is loaded is what a load would
build now, and what is cached is what its key means (`Meant`): the content of
the first artifact is in the key, that of the second on the disk, which is why
changing the second is an exception and changing the first is not. The property
`CacheIsFresh` speaks of lookups; the invariant speaks of entries nobody looks
up any more too, since a rollout back would find them.

**ApiProcess**, from `ProcessAssumption`. `OneReconnect` alone is not
inductive: another request could begin to try while one waits for its answer.
`IInv` adds `ProbeWaits`: while somebody tries, the retry interval is running,
because `_maybe_reconnect()` puts the next attempt off before it waits, and the
interval (ten seconds) outlasts the wait. `Probes` are the requests and the
polls of `/health` that try, which share the interval; it holds for any number
of both. `EveryPredictionIsLogged` is about steps and needs `BeliefInv`, on
what the absence of doubt means: the database is up and believed to be, and no
poll that saw it down is still to return, so that none can overwrite the newer
answer. The history variable `doubt` only records; what the invariant shows is
that `DatabaseService.available` is right whenever no event the property names
has happened.

**VectorIndex**, from `VectorAssumption`, for any number of replicas, requests
and images, vectors of any lengths, and any outages and restarts. A request is in
one of several calls and, within it, one of several transactions; the lemma `NextGoes`
sorts every step of every action into nine kinds (a request begins, goes on,
creates the table, empties it, stores into it, ...), and each part of the
invariant is then preserved kind by kind. `Safe`: what was acknowledged, or is
about to be, is in the table, and a request about to drop the table finds it
empty. `Apt`: a vector on its way to the table has the length its replica
expects, and a search goes on only in an index that holds something. `OneWidth`:
while nothing cuts a reset short and the replicas agree, the table has their
length. Each holds under the exceptions the properties name and no others, and
the proof needs each of them: an `Overlap` ends `Safe` and `Apt`, a count the
database did not answer ends `Safe`, a stopped reset or a replica of another
length ends `OneWidth`.

`NothingIsLost` adds `OneLength`, that every embedding model gives vectors of
the configured length, as the models the repository ships do. No index is ever
resized then, and acknowledged images stay without any exception.

**MemoryIndex**, from `MemoryAssumption`, for any items, requests and files.
Nothing orders the threads that make the index, so the invariant says what is
true unless they have met: `MadeAlone`, one request makes the object, loads it
and installs it before anybody else has his hands on it, and it stays the only
one; and `Paired`, of that object: its vectors are those of its items, in their
order, and it has every image that a caller was told of. Files whose two halves
are of one save keep `Paired` through `load()`, and files of two saves of
different sizes are not taken; two saves of one size are the exception.

**Training**, from `TrainingAssumption`. Four invariants, each on top of
`TypeInv`:

* `ExactInv`: the process and the checkpoints of all three directories have the
  best score, the count of epochs without improvement, the weights and the
  schedule of a run over the epochs they list. The lemma `StepsAsPlanned` (the
  steps of an epoch whose last group of batches is short are those
  the scheduler was built for) makes the schedule exact.
* `ShipInv`: between the two writes of a new best epoch the directory may be
  ahead of its checkpoint; everywhere else the best weights are those the
  checkpoint knows.
* `RecordInv`: once the last checkpoint is written the history beside it is
  that of its epochs, unless a run was cut off between the two.
* `MirrorInv`: the mirror's checkpoint is a prefix of the one on disk, shorter
  by less than the interval.

**Delivery**, from `DeliveryAssumption`. `PodInv` says of each place a pod can
be in what its init containers have behind them: which files already have the
recorded checksum, that a converted graph was made from a whole file, that the
next container starts only over a complete volume. `RepoInv`, until two
commands overlap, says that the registry is the one that the commands would
have made in single steps, that the document a tool is about to save is still
the right one, and that the registry has the weights on disk of every active
model nobody is exporting; `Honest` carries the last of these into the images
that CI passes, and from there to the pods that run them.

**Retraining**, from `RetrainingAssumption`. `Sound` says what a run has behind
it at each of its steps (past validation it has passed and is not a dry run);
with it `PromotionIsValidated` is inductive, for any number of overlapping and
killed runs. A run that lost another's entry (below) still promotes nothing
unvalidated. `HistoryIsKept` and `TrainingIsDue` hold while no two runs
overlap, whatever is killed, and rest on `AloneInv`: one run is busy and has read
the file, the log is in the order of the starts, and the file, except while it is
written, is the end of the log (`FileIsRecent`): its last `Kept` results, or fewer
if a kill has destroyed the file since. The newest promotion in the file is then
the one the cooldown is counted from, and a second reading that of the run
before. Nothing is claimed of a promotion that the cut has dropped: after a
hundred later results the code no longer finds it either.

**DriftReport** (`SeverityIsEarned` in Retraining_proofs). No threshold from
which a test calls a drift moderate lies below the floor of `decide()`, so the
severity of a report alone says whether there is something to act on. That is
why Retraining may take the severity as its input.

**Regression** (`CleanCheckIsThorough` in Retraining_proofs), for any metrics,
values, machines and numbers of iterations. A check without warnings is one on
the machine of the baseline, or it would either warn or, when strict, fail; so
no latency was skipped, and no recorded metric was missing. What is left is the
tolerance of each kind of metric (`PassingMetric`). The run's property is the
corollary `CleanChecksStayComplete`.

Every safety invariant and action property of the runs is stated by a theorem,
but for four. Out of the prover's reach, and left to TLC, are:

* liveness (`JobsSettle`, `RedisIsUsedAgain`, `RequestsAreAnswered`,
  `LoggingResumes`, `PodsComeUp`), which rests on fairness and `ENABLED`;
* induction over data, of which four properties speak: `DuplicatesOnly` is about
  a loop over candidates (a fold over a sequence), `ClearShiftIsReported` about
  rows selected from a log, `BetterIsNeverRefused` about the binomial
  coefficients of the exact test, `ValidationIsHonest` about the largest of
  several differences and sums over bins. The prover cannot unfold a recursive
  definition without an induction theorem that takes an operator, and has none
  it could use.

## Where code and documentation part

Two disagreements have a run of their own:

* **SlotsCeiling.** `api/config.py:111` calls `max_concurrent_inferences` a
  hard ceiling on concurrent inference calls. A pass that times out gives its
  slot back and keeps running in its thread (`inference_service.py:318-321`),
  so the number that run is bounded by the thread pool and not by the ceiling.
* **RetrainGate.** `retraining.py:18` says no result promotes itself without a
  regression check. The check is called without the metrics it requires
  (`retraining.py:394`), raises every time, and the pipeline takes that for a
  missing baseline.

The others became conditions of properties while the models were written; each
line says what happens when the condition is dropped.

Batch jobs:

* A job that finishes between cancel's look at the result and its write of the
  row is answered, and recorded, as cancelled although it completed
  (`batch.py:383` after `:375`).
* The hard time limit stores FAILURE but leaves the row at `running`; once the
  result has expired, the status endpoint, whose comment at `batch.py:275-277`
  promises the opposite, shows the job as running.
* A job whose items all failed is shown as completed while its result exists
  (`batch.py:267` maps SUCCESS) and as failed afterwards (`tasks.py:86-87`).
* A job accepted while Postgres is down has no row; before its worker starts,
  or after its result expired, its status URL answers 404 (`batch.py:337-338`).
* The callback is posted before the result is stored (`tasks.py:366`): a client
  that reacts to it finds a running job.

Rate limiter:

* Calls that reach Redis out of order set `updated` back (`rate_limit.py:87`),
  and the seconds in between are refilled twice; `WindowLimit` counts them as
  `rewound`. The docstring promises that concurrent replicas cannot race.
* Retry-After ("Wait `Retry-After` seconds", docs/API.md:699) is exact where the
  replicas' clocks agree. Each sends the script its own `time.time()`
  (`rate_limit.py:257`), so a caller who reaches one that is behind the one that
  refused it can be refused again; the difference of the clocks more is always
  enough (`RetryIsServed`).
* A tier of rate 0 makes the script fail (NaN as expiry), which the limiter
  takes for an outage of Redis: every caller of that process is moved to local
  buckets until the next reconnect (`rate_limit.py:89`, `:122`).
* The refusal of such a caller is a 500: `int()` of an infinite `retry_after`
  (`rate_limit.py:308`).
* A batch of n images costs n + 1 tokens (`batch.py:94` and the middleware);
  docs/API.md:248 says n.

Models and cache:

* A file overwritten under a running process changes the key at once and the
  loaded runtime never: the answers of the old weights are cached as the new
  ones' (`inference_service.py:400`; docs/ASSUMPTIONS.md:114-117).
* The fingerprint covers the first artifact only. Once the second answers,
  because the first does not load or because it was asked for, changing it
  leaves its old answers in the cache (`model_service.py:601`).
* A reload between the two resolutions of an unpinned request stores one
  version's answer under another's key (`model_service.py:873`).
* `invalidate_model()` matches nothing: in a key the version is followed by `@`
  and the fingerprint, not by `:` (`cache_service.py:286`). The results of a
  retired version stay in Redis until they expire; a request that resolves to
  another version does not find them, since the version is in the key.

Request path and images:

* A key with characters beyond ASCII raises in `secrets.compare_digest` and is
  answered 500, not 401; a URL that `urlparse`, its `port` or the IDNA codec
  refuses is a 500, not 422; a failing vector query is a 500, not 503. These are
  the "odd" cases `StatusTellsTheFault` sets aside, and the uncaught
  exceptions of `Images`.
* A token keeps the tier its key had, and works until it expires, whatever
  becomes of the key; it is never looked up again (`auth.py:173-184`).
* Without a signing secret, `create_access_token` answers 401, where
  `routers/auth.py` documents 503.
* The routes of the API take the page of a redirect for the image (they refuse
  from status 400 on); the batch worker refuses redirects, and never validates
  the bytes it fetches.
* Pillow refuses more than twice the pixel limit by itself, as 400 and not as the
  `ImageTooLargeError` of the docstring; JPEGs of several pictures are "MPO"
  to it, and answered 415.
* The inverse of the letterbox is not the "exact inverse" of its docstring: both
  ways round, and a box moves by up to a pixel of the model's input.
  `BoxesComeHome` states that bound. A side that rounds to 0 is a 500.
* Suppression works on boxes before they are clipped, so that clipped ones can
  coincide, and takes no account of classes; the class filter comes after the
  cap on detections.
* An unknown path costs a token, or is a 401.

API process:

* `prediction_log.py` says that every prediction leaves a row. Similarity
  searches and batches never do, failures leave none, and the tasks that write
  the rows are neither bounded while a database hangs nor awaited at exit.
* A database that was down at the start, or at the last poll, is written to
  again only after a poll of `/health`; the probes of `k8s/base/api.yaml` and
  of Compose ask for liveness and readiness only. A poll cut off at its
  deadline leaves the flag as it was, and a late failure of an older poll
  overwrites a newer success: `EveryPredictionIsLogged` names both.
* The comment at the readiness probe says that it checks the database;
  `readiness()` checks models and slots. With any model loaded it is ready.
* A labels file with keys that are no integers raises out of the warm-up, and
  the process does not start, contrary to "Failures are recorded, not raised".
* The grace period of 30 seconds includes the preStop sleep; a drain of 30
  seconds is cut off before the second half of the lifespan.

Training:

* `best_epoch` is not restored by a resume (`train_classifier.py:945-952`): the
  history of a resumed run that does not improve says 0, as `FinishedIsRecorded`
  allows.
* Killed between the write of the best weights (`:1052`) and of the checkpoint
  (`:1077`), the best weights are of an epoch the checkpoint does not know, or
  torn ("torn" in `BestIsShipped`).
* A run killed after its last checkpoint is told "nothing to do" when it is
  started again (`:961-963`): the final history and mirror are never written.
* A checkpoint of another scheduler fails to load half way (`:933-959`): the run
  calls itself fresh and goes on with restored weights ("mixed").
* The notebook's adoption looks in `**/models/artifacts/` only
  (`build_colab_notebook.py:543`), while the mirror is elsewhere, contrary to
  the comment at `:421-426`; copying the mirror back by hand can pair best
  weights and checkpoint of different epochs ("copied").
* A copy to the mirror that fails is only reported (`:809`): "unmirrored" in
  `MirrorFollows`. An older clone on Drive is adopted after the machine with the
  newest is lost, and its run overwrites a later checkpoint in the mirror
  ("outdated").
* With more accumulation steps than batches an epoch ends before its first step,
  and the schedule laid out for one (`:900`) never moves: `CheckpointIsExact`
  speaks of the schedule of other runs only.
* A run that is started again after it ran out of patience trains one more
  epoch.

Registry and delivery:

* Two tools at once share `registry.json.tmp` (`registry.py:73-75`): a change
  is lost, a half-written file is published, or a rename finds no file.
* A retired model keeps its `is_default`.
* The committed manifest is compared with the files it lists: a model it does
  not list is not noticed, although `k8s/README.md` says that a test asserts
  that the two match. A broken export can be recorded in the manifest.
* A truncated transfer shows as a wrong checksum, which `fetch_one` does not
  retry because it calls that not transient; the kubelet's restart does.
* `convert_onnx_to_fp16` reuses by its age a file that is written in place
  (`export_tensorrt.py:207-209`): a container killed meanwhile fails in that pod
  ever after, the case `PodsComeUp` leaves out.

Validation tools:

* The query of the log takes the newest 10 000 rows: a busy model's current
  window uses them up, and the report of an empty reference is "none". Rows
  without a result and rows written between the two queries count against the
  limit; an outage in either query reads as "none" (`BothWindowsFit`).
* No drift and too little data are the same report.
* A moderate report is confirmed by running the pipeline twice on the very same
  file, contrary to `retraining.py:71-75`.
* `max()` steps over a NaN that is not the first of several differences
  (`validate.py:150`, `:203`): a model that answers NaN on its third run passes.
  `ValidationIsHonest` leaves those places out.
* `validate.py` takes the highest label of the sample for the label space, which
  `ab_test.py:566-568` says "would refuse a perfectly valid comparison"; one
  model that does not load ends it without a report on any.
* A regression check of a model that cannot be measured is skipped and exits 0;
  the registry's figures replace measured ones; a metric with an unlisted name
  is taken to be better when lower.
* In a comparison, a model that raises is wrong, in no time at all.

Similarity index:

* A row stored between another request's count and its DROP is dropped
  (`similarity.py:127`), after its caller was told 201.
* A count that Postgres did not answer reads as zero (`pgvector_index.py:260`).
  A vector of another length then drops the full index as soon as Postgres is
  back; a search in the meantime reports an index size of 0, "nothing has been
  indexed yet".
* After a reset on one replica the others keep the old length, and a restarted
  replica takes the configured one: both refuse vectors of the length that is
  stored (`pgvector_index.py:130`).
* A replica that takes Postgres to be down answers a mismatch for an empty
  index that it would otherwise resize: `reset()` returns at once (`:200`).
* A stop between the two transactions of a reset, or a request that runs
  `ensure_schema()` beside it, leaves a replica that believes a table to exist
  which does not; it never looks again (`pgvector_index.py:65`).
* The index in memory is "created in the application lifespan handler", says
  the comment at `similarity_index.py:302`; the lifespan makes one for pgvector
  only (`main.py:126`). Two first requests each make one: whoever stores into
  the first loses an acknowledged image ("raced" in `HitsAreTheirOwn`).
* `load()` tells two saves apart by their sizes only: after a kill between the
  files of two saves of the same size every vector belongs to a wrong image.
  Nothing in the service calls `save()`; the files come from outside.

Retraining:

* A training that failed starts no cooldown (`retraining.py:216`), although it
  took as long as any other (docs/TECHNICAL.md:523).
* Of two runs that overlap one loses its entry, and a run killed while it
  writes loses the whole history (`retraining.py:333`; `:328` says "append,
  never overwrite"). With it go the cooldown and the second reading; the
  runs after a kill go on from an empty file (`torn`), those after an overlap from
  one that lacks an entry, of which the properties say nothing.
* The file keeps a hundred results (`retraining.py:333`): a promotion followed by
  as many within its cooldown would be forgotten.

## What is not modelled

* Floating point where its values are data: softmax, distances, p-values (but
  for the exact ones), image resizing. A prediction is the artifact that made
  it, a distance is nothing at all.
* Of the index in memory, what no endpoint calls: `add_many()`, `remove()`,
  `clear()`, and `save()` but for the files it leaves.
* The TensorRT backend's one execution context, which passes in several threads
  share without a lock (`model_service.py:375-427`): what comes of it is CUDA's
  affair.
* The conversions of the exporters, the quantizer, `coco_eval.py`, benchmarks,
  experiment tracking, the data loader and augmentation: calls into other
  libraries. When their results are written, reused and registered is in
  Delivery and Training.
* Histograms, labels and log records: nothing reads them back into a decision,
  except the in-flight and in-progress counts, which are modelled.
* Scripts that produce documents, measurements and test traffic, and the
  notebook but for the cells that move checkpoints: they start the tools the
  other components are.
* What the migrations do: one schema. That a pod runs them first, and that they
  can fail, is in Delivery.
* Declarations: response schemas, settings that bound nothing, deployment files.
  What the deployment decides about the system (several replicas, evictions in
  Redis, restarts, init containers) is in the events of the modules.
* Within the modelled parts: `delete()` and the TRUNCATE of a reset to the same
  length, which no endpoint calls; the expiry of buckets in RateLimiter (it is
  in TokenBucket); the signature of a token (forged or not);
  `scripts/models/model_registry.py`, which writes the registry in place.

## The plan

The components worth a model have one, and what can be proved about them with
the provers at hand is. What would add most to the project now:

1. with a prover for induction, the four properties above: `KeptAreTheBest`
   first, by induction over the candidates, since its loop is the one a reader
   of the code has to take on trust;
2. a promise about the submission whose `send_task` raises after the broker has
   taken the message (`batch.py:164`; `SubmitEnqueueFails` models it). Its job is
   answered 503 and runs; the code says nothing of it. Other hazards in
   PROJECT.json without a property are in the models already, and wait for the
   code to be changed: a cancel that compares and sets, a lock around the making
   of the index in memory, a table that is resized in one transaction, one write
   for best weights and checkpoint. The exception each of them is to a property
   can then be struck out;
3. an instance of RequestPath with two requests at once, which does not finish
   in the time the runs are given. The proofs cover it.
