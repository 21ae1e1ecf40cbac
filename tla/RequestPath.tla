----------------------------- MODULE RequestPath ----------------------------
(***************************************************************************)
(* One replica's way of a request through its middlewares (api/main.py):   *)
(* monitoring, authentication, rate limit, then the route; and the         *)
(* exception handlers on the way back.  Keys are traded for tokens that    *)
(* outlive a change of the configured keys.                                *)
(*                                                                         *)
(* Nothing is refilled: a behaviour is a window shorter than a refill.     *)
(* What fails behind the routes is an outcome; ServingCache,               *)
(* InferenceSlots, VectorIndex and BatchJobs look at the reasons.          *)
(***************************************************************************)
EXTENDS Integers, FiniteSets, Images

CONSTANTS
  Exchanges,  \* requests at the same time
  Keys,       \* the API keys the operators ever configure
  Capacity,   \* of a full bucket, for each tier
  BatchCap,   \* images a batch may have, for each tier
  Expiry,     \* jwt_expiry_minutes
  MaxTokens,  \* bound on the tokens issued
  MaxTime,    \* bound on the clock
  Sent,       \* what the callers send as an image
  Forged,     \* a token that nobody here signed, or damaged
  None

Tiers == DOMAIN Capacity
ImageRoutes == {"classify", "classify upload", "detect", "detect upload", "search upload"}
Routes == ImageRoutes \cup {"live", "token", "model", "batch", "reload", "unknown"}

(* What the constants are; MCRequestPath assumes it of its instance.       *)
RequestAssumption ==
  /\ IsFiniteSet(Exchanges) /\ IsFiniteSet(Tiers) /\ None \notin Tiers
  /\ Capacity \in [Tiers -> Nat] /\ BatchCap \in [Tiers -> Nat]
  /\ {Expiry, MaxTokens, MaxTime} \subseteq Nat
  /\ {MaxBytes, MinSide, MaxSide, MaxPixels} \subseteq Nat
  /\ Sent \subseteq Source

VARIABLES
  exchange,    \* where a request is
  configured,  \* API_KEYS: each key's tier, or None
  bucket,      \* tokens left to a user in a tier
  issued,      \* the access tokens
  clock,
  inProgress,  \* http_requests_in_progress
  lastHeld,    \* history: when a key was last configured with a tier
  spent        \* history: what was taken for a key
vars == <<exchange, configured, bucket, issued, clock, inProgress, lastHeld, spent>>

Never == -MaxTime - 1
Idle == [pc |-> "idle"]
Methods == {"api_key", "jwt"}
ScopeSets == {{}, {"classify"}, {"admin"}}
Principal == [user : Keys, tier : Tiers, method : Methods, scopes : ScopeSets]
Token == [user : Keys, tier : Tiers, scopes : ScopeSets, exp : Nat]

\* status_code of the exceptions of api/exceptions.py, and of success.
Status(outcome) ==
  CASE outcome = "ok" -> 200
    [] outcome = "Accepted" -> 202
    [] outcome = "InvalidImage" -> 400
    [] outcome = "Authentication" -> 401
    [] outcome = "Authorization" -> 403
    [] outcome \in {"ModelNotFound", "NotFound"} -> 404
    [] outcome \in {"ImageTooLarge", "BatchTooLarge"} -> 413
    [] outcome = "UnsupportedFormat" -> 415
    [] outcome = "Validation" -> 422
    [] outcome = "RateLimit" -> 429
    [] outcome \in {"Inference", "Unhandled"} -> 500
    [] outcome \in {"ModelLoad", "ServiceUnavailable", "Overloaded"} -> 503
    [] outcome = "InferenceTimeout" -> 504

TypeOK ==
  /\ \A e \in Exchanges :
       \/ exchange[e] = Idle
       \/ exchange[e] \in [pc : {"limit", "route"}, route : Routes, principal : Principal]
       \/ exchange[e] \in [pc : {"route"}, route : {"live", "token"}, principal : {None}]
       \/ exchange[e] \in [pc : {"run"}, search : BOOLEAN, loads : BOOLEAN]
       \/ exchange[e] \in [pc : {"query"}]
       \/ exchange[e] \in [pc : {"answered"}, status : 200 .. 504,
                           blame : {"nobody", "caller", "server", "odd"}]
  /\ configured \in [Keys -> Tiers \cup {None}]
  /\ bucket \in [Tiers -> [Keys -> Int]]
  /\ issued \subseteq Token /\ Cardinality(issued) <= MaxTokens
  /\ clock \in 0 .. MaxTime
  /\ inProgress \in 0 .. Cardinality(Exchanges)
  /\ lastHeld \in [Keys -> [Tiers -> Never .. MaxTime]]
  /\ spent \in [Keys -> Nat]

HeldBy(keys, then, history) ==
  [k \in Keys |-> [t \in Tiers |-> IF keys[k] = t THEN then ELSE history[k][t]]]

Full == [t \in Tiers |-> [k \in Keys |-> Capacity[t]]]

Init ==
  /\ exchange = [e \in Exchanges |-> Idle]
  /\ configured \in [Keys -> Tiers \cup {None}]
  /\ bucket = Full
  /\ issued = {}
  /\ clock = 0
  /\ inProgress = 0
  /\ lastHeld = HeldBy(configured, 0, [k \in Keys |-> [t \in Tiers |-> Never]])
  /\ spent = [k \in Keys |-> 0]

-----------------------------------------------------------------------------
(* Who is calling.                                                         *)

\* compare_digest() takes no characters beyond ASCII: a garbled key raises,
\* unless no keys are configured.
verify_api_key(key) ==
  IF \A k \in Keys : configured[k] = None THEN [error |-> "Authentication"]
  ELSE IF key = "garbled" THEN [error |-> "Unhandled"]
  ELSE IF key \notin Keys \/ configured[key] = None THEN [error |-> "Authentication"]
  ELSE [error |-> "ok", user |-> key, tier |-> configured[key], method |-> "api_key",
        scopes |-> {}]

\* Mutant: the tier is not a claim of the token.
FreeByDefault(token, free) == [token EXCEPT !.tier = free]
Claims(token, free) == token

\* Mutant: the expiry is not verified.
NeverExpired(token) == FALSE
Expired(token) == clock >= token.exp

verify_jwt(token) ==
  IF token = Forged \/ Expired(token) THEN [error |-> "Authentication"]
  ELSE LET free == CHOOSE t \in Tiers : \A u \in Tiers : Capacity[t] <= Capacity[u]
           claims == Claims(token, free)
       IN [error |-> "ok", user |-> claims.user, tier |-> claims.tier, method |-> "jwt",
           scopes |-> claims.scopes]

Credentials ==
  [key : Keys \cup {"none", "wrong", "garbled"}, token : issued \cup {None, Forged}]

\* The key counts if there is one.
authenticate_request(sent) ==
  IF sent.key # "none" THEN verify_api_key(sent.key)
  ELSE IF sent.token # None THEN verify_jwt(sent.token)
  ELSE [error |-> "Authentication"]

\* An API key may do everything, and so may a token without scopes.
require_scope(principal, scope) ==
  IF principal.method = "api_key" \/ principal.scopes = {} \/ scope \in principal.scopes
  THEN "ok" ELSE "Authorization"

is_public_path(route) == route \in {"live", "token"}

-----------------------------------------------------------------------------
(* The way in.                                                             *)

\* The response, or the exception that becomes one outside of all middlewares.
Answer(e, outcome, blame) ==
  exchange' = [exchange EXCEPT ![e] =
                 [pc |-> "answered", status |-> Status(outcome), blame |-> blame]]

Blame(outcome) ==
  CASE outcome \in {"ok", "Accepted"} -> "nobody"
    [] outcome = "Unhandled" -> "odd"
    [] OTHER -> "caller"

Receive(e) ==
  /\ exchange[e].pc = "idle"
  /\ inProgress' = inProgress + 1
  /\ \E route \in Routes :
       IF is_public_path(route)
       THEN exchange' = [exchange EXCEPT ![e] =
                           [pc |-> "route", route |-> route, principal |-> None]]
       ELSE \E sent \in Credentials :
              LET who == authenticate_request(sent) IN
              IF who.error # "ok" THEN Answer(e, who.error, Blame(who.error))
              ELSE exchange' = [exchange EXCEPT ![e] =
                     [pc |-> "limit", route |-> route,
                      principal |-> [user |-> who.user, tier |-> who.tier,
                                     method |-> who.method, scopes |-> who.scopes]]]
  /\ UNCHANGED <<configured, bucket, issued, clock, lastHeld, spent>>

\* RateLimiter.enforce()
Enforce(principal, cost) ==
  /\ bucket[principal.tier][principal.user] >= cost
  /\ bucket' = [bucket EXCEPT ![principal.tier][principal.user] = @ - cost]
  /\ spent' = [spent EXCEPT ![principal.user] = @ + cost]

Exhausted(principal, cost) ==
  /\ bucket[principal.tier][principal.user] < cost
  /\ UNCHANGED <<bucket, spent>>

Limit(e) ==
  LET principal == exchange[e].principal IN
  /\ exchange[e].pc = "limit"
  /\ \/ Enforce(principal, 1) /\ exchange' = [exchange EXCEPT ![e].pc = "route"]
     \/ Exhausted(principal, 1) /\ Answer(e, "RateLimit", "caller")
  /\ UNCHANGED <<configured, issued, clock, inProgress, lastHeld>>

-----------------------------------------------------------------------------
(* The routes.                                                             *)

At(e, route) == exchange[e].pc = "route" /\ exchange[e].route = route

liveness(e) ==
  /\ At(e, "live")
  /\ Answer(e, "ok", "nobody")
  /\ UNCHANGED <<configured, bucket, issued, clock, inProgress, lastHeld, spent>>

get_model(e) ==
  /\ At(e, "model")
  /\ Answer(e, "ok", "nobody") \/ Answer(e, "ModelNotFound", "caller")
  /\ UNCHANGED <<configured, bucket, issued, clock, inProgress, lastHeld, spent>>

Unknown(e) ==
  /\ At(e, "unknown")
  /\ Answer(e, "NotFound", "caller")
  /\ UNCHANGED <<configured, bucket, issued, clock, inProgress, lastHeld, spent>>

\* A key is traded for a token with its tier and no more than its rights.
IssueToken(e) ==
  /\ At(e, "token")
  /\ \E key \in Keys \cup {"wrong", "garbled"}, scopes \in ScopeSets :
       LET who == verify_api_key(key) IN
       IF who.error # "ok" THEN Answer(e, who.error, Blame(who.error)) /\ UNCHANGED issued
       ELSE /\ Answer(e, "ok", "nobody")
            /\ LET token == [user |-> who.user, tier |-> who.tier, scopes |-> scopes,
                             exp |-> clock + Expiry]
               IN /\ Cardinality(issued \cup {token}) <= MaxTokens
                  /\ issued' = issued \cup {token}
  /\ UNCHANGED <<configured, bucket, clock, inProgress, lastHeld, spent>>

\* A malformed body never reaches the handler.
MalformedBody(e) ==
  /\ exchange[e].pc = "route" /\ exchange[e].route \in ImageRoutes \cup {"token", "batch"}
  /\ Answer(e, "Validation", "caller")
  /\ UNCHANGED <<configured, bucket, issued, clock, inProgress, lastHeld, spent>>

ReloadRegistry(e) ==
  /\ At(e, "reload")
  /\ LET allowed == require_scope(exchange[e].principal, "admin")
     IN Answer(e, allowed, Blame(allowed))
  /\ UNCHANGED <<configured, bucket, issued, clock, inProgress, lastHeld, spent>>

validate_batch_size(count, tier) == IF count > BatchCap[tier] THEN "BatchTooLarge" ELSE "ok"

\* submit_batch() up to the broker: the batch is charged again, by its size.
SubmitBatch(e) ==
  LET principal == exchange[e].principal IN
  /\ At(e, "batch")
  /\ \E count \in 1 .. 3 :
       IF validate_batch_size(count, principal.tier) # "ok"
       THEN Answer(e, "BatchTooLarge", "caller") /\ UNCHANGED <<bucket, spent>>
       ELSE \/ Exhausted(principal, count) /\ Answer(e, "RateLimit", "caller")
            \/ /\ Enforce(principal, count)
               /\ \/ Answer(e, "Accepted", "nobody")
                  \/ Answer(e, "ModelNotFound", "caller")
                  \/ Answer(e, "ServiceUnavailable", "server")
  /\ UNCHANGED <<configured, issued, clock, inProgress, lastHeld>>

\* Whose fault it is that there is no image, whatever the code says.
BlameFor(sent) ==
  IF sent.way = "url" /\ (~sent.url.parses \/ sent.url.port = "invalid"
                          \/ sent.url.host = "unencodable")
  THEN "odd"
  ELSE IF Fetched(sent) /\ Usable(sent.picture) THEN "nobody" ELSE "caller"

TakeImage(e, sent) ==
  LET arrived == resolve_image_bytes(sent)
  IN IF arrived = "ok"
     THEN exchange' = [exchange EXCEPT ![e] =
            [pc |-> "run", search |-> At(e, "search upload"), loads |-> sent.picture.loads]]
     ELSE Answer(e, arrived, BlameFor(sent))

InBody(e) ==
  \E sent \in {s \in Sent : s.way # "upload"} :
    IF ImagePayload(sent) # "ok" THEN Answer(e, ImagePayload(sent), "caller")
    ELSE TakeImage(e, sent)

InForm(e) == \E sent \in {s \in Sent : s.way = "upload"} : TakeImage(e, sent)

classify(e) ==
  /\ At(e, "classify") /\ InBody(e)
  /\ UNCHANGED <<configured, bucket, issued, clock, inProgress, lastHeld, spent>>

classify_upload(e) ==
  /\ At(e, "classify upload") /\ InForm(e)
  /\ UNCHANGED <<configured, bucket, issued, clock, inProgress, lastHeld, spent>>

detect(e) ==
  /\ At(e, "detect") /\ InBody(e)
  /\ UNCHANGED <<configured, bucket, issued, clock, inProgress, lastHeld, spent>>

detect_upload(e) ==
  /\ At(e, "detect upload") /\ InForm(e)
  /\ UNCHANGED <<configured, bucket, issued, clock, inProgress, lastHeld, spent>>

search_upload(e) ==
  /\ At(e, "search upload") /\ InForm(e)
  /\ UNCHANGED <<configured, bucket, issued, clock, inProgress, lastHeld, spent>>

\* _prepare(): what keeps a forward pass from an answer.  The image is
\* decoded before it takes a slot.
Failed(e) ==
  \/ Answer(e, "ModelNotFound", "caller")
  \/ Answer(e, "ModelLoad", "server")
  \/ ~exchange[e].loads /\ Answer(e, decode_image(exchange[e]), "caller")
  \/ /\ exchange[e].loads
     /\ \E outcome \in {"Overloaded", "InferenceTimeout", "Inference"} :
          Answer(e, outcome, "server")

\* An answer, from the model or from the cache: classes or boxes.
Predict(e) ==
  /\ exchange[e].pc = "run" /\ ~exchange[e].search
  /\ Failed(e) \/ (exchange[e].loads /\ Answer(e, "ok", "nobody"))
  /\ UNCHANGED <<configured, bucket, issued, clock, inProgress, lastHeld, spent>>

embed(e) ==
  /\ exchange[e].pc = "run" /\ exchange[e].search
  /\ Failed(e) \/ (exchange[e].loads /\ exchange' = [exchange EXCEPT ![e] = [pc |-> "query"]])
  /\ UNCHANGED <<configured, bucket, issued, clock, inProgress, lastHeld, spent>>

\* The vector looks for its neighbours; the database's own exceptions are
\* not translated.
Query(e) ==
  /\ exchange[e].pc = "query"
  /\ Answer(e, "ok", "nobody") \/ Answer(e, "Unhandled", "server")
  /\ UNCHANGED <<configured, bucket, issued, clock, inProgress, lastHeld, spent>>

\* Monitoring's finally.
Complete(e) ==
  /\ exchange[e].pc = "answered"
  /\ exchange' = [exchange EXCEPT ![e] = Idle]
  /\ inProgress' = inProgress - 1
  /\ UNCHANGED <<configured, bucket, issued, clock, lastHeld, spent>>

-----------------------------------------------------------------------------
Tick ==
  /\ clock < MaxTime
  /\ clock' = clock + 1
  /\ lastHeld' = HeldBy(configured, clock + 1, lastHeld)
  /\ UNCHANGED <<exchange, configured, bucket, issued, inProgress, spent>>

\* The replica is started again with other keys; the buckets are in Redis.
Reconfigure ==
  /\ \A e \in Exchanges : exchange[e] = Idle
  /\ configured' \in [Keys -> Tiers \cup {None}]
  /\ lastHeld' = HeldBy(configured', clock, lastHeld)
  /\ UNCHANGED <<exchange, bucket, issued, clock, inProgress, spent>>

Next ==
  \/ \E e \in Exchanges :
       \/ Receive(e) \/ Limit(e) \/ MalformedBody(e) \/ Unknown(e) \/ liveness(e)
       \/ IssueToken(e) \/ get_model(e) \/ ReloadRegistry(e) \/ SubmitBatch(e)
       \/ classify(e) \/ classify_upload(e) \/ detect(e) \/ detect_upload(e) \/ search_upload(e)
       \/ Predict(e) \/ embed(e) \/ Query(e) \/ Complete(e)
  \/ Tick \/ Reconfigure

Spec == Init /\ [][Next]_vars

-----------------------------------------------------------------------------
(* Properties.                                                             *)

\* What the full buckets of some tiers hold.
Held(tiers) == UNION {{t} \X (1 .. Capacity[t]) : t \in tiers}

(* A key and the tokens it was traded for spend one allowance: that of the *)
(* tiers the key was configured with (routers/auth.py, rate_limit.py).     *)
OneAllowance ==
  \A k \in Keys :
    spent[k] <= Cardinality(Held({t \in Tiers : lastHeld[k][t] # Never}))

(* A request is let in only for a key that was configured with the         *)
(* request's tier when it came or, with a token, less than a token's life  *)
(* before (auth.py).                                                       *)
AccessEnds ==
  [][\A e \in Exchanges :
       (exchange[e].pc = "idle" /\ exchange'[e].pc = "limit") =>
         LET p == exchange'[e].principal IN
         lastHeld[p.user][p.tier] >= clock - (IF p.method = "jwt" THEN Expiry - 1 ELSE 0)]_vars

(* The class of the status says whose fault it is: 4xx the caller's, 5xx   *)
(* the server's (exceptions.py), malformed URLs and keys excepted.         *)
StatusTellsTheFault ==
  \A e \in Exchanges : exchange[e].pc = "answered" =>
    CASE exchange[e].blame = "nobody" -> exchange[e].status \in {200, 202}
      [] exchange[e].blame = "caller" -> exchange[e].status \in 400 .. 499
      [] exchange[e].blame = "server" -> exchange[e].status \in 500 .. 599
      [] exchange[e].blame = "odd" -> TRUE
=============================================================================
