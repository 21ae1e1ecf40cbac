--------------------------- MODULE ServingCache ----------------------------
(***************************************************************************)
(* What answers a prediction request: the registry and the artifacts on    *)
(* disk, the models one API process keeps loaded                           *)
(* (api/services/model_service.py), the results in Redis                   *)
(* (api/services/cache_service.py) and the request between them            *)
(* (api/services/inference_service.py).  One task, one image, one model    *)
(* name with several versions; a prediction is the artifact that made it.  *)
(***************************************************************************)
EXTENDS Naturals

CONSTANTS
  Requests,    \* requests being handled at the same time
  Highest,     \* versions are 1 .. Highest
  Pins,        \* the versions requests ask for; None is the default or newest
  Asked,       \* the runtimes they ask for; None is the preferred one
  None,        \* not pinned, not loaded, not cached
  Events,      \* which events of EventKinds may happen in this instance
  MaxEvents    \* bound on how many happen in a behaviour

EventKinds ==
  { "rollout",   \* an artifact is replaced or removed and the process restarted
    "replace",   \* an artifact is overwritten under a running process
    "restart",   \* the process is restarted
    "default",   \* another version becomes the task default in registry.json
    "retire",    \* a version is retired in registry.json
    "expire" }   \* Redis drops a result

(* The formats of an entry: the first in `artifacts`, also the preferred   *)
(* one, and another that is tried when that one does not load.             *)
Formats == {"onnx", "onnx_int8"}

(* What the constants are; MCServingCache assumes it of its instance.      *)
ServingAssumption ==
  /\ Highest \in Nat \ {0} /\ MaxEvents \in Nat
  /\ None \notin Nat /\ Events \subseteq EventKinds
  /\ Pins \subseteq (1 .. Highest) \cup {None}
  /\ None \in Asked /\ Asked \subseteq Formats \cup {None}

Versions == 1 .. Highest
Content == 0 .. MaxEvents + 1       \* 0: the file does not exist

Artifact == [version : Versions, format : Formats, content : Content \ {0}]
Key      == [version : Versions, fingerprint : Content, runtime : Formats]

VARIABLES
  disk,      \* the content of every artifact file
  registry,  \* registry.json: the active versions and the default
  entries,   \* ModelService._entries, with the default flag
  loaded,    \* ModelService._loaded, by version and requested runtime
  cache,     \* the results in Redis
  req,       \* the requests
  events,    \* events so far
  struck     \* history: which of Upsets have happened

vars == <<disk, registry, entries, loaded, cache, req, events, struck>>

Upsets ==
  { "second",    \* an artifact that is not its entry's first was changed
    "replaced",  \* an artifact was changed under a running process
    "moved" }    \* a reload between the two resolutions of an unpinned request

Registry == [active : SUBSET Versions, default : Versions]

Pinned == Versions \cup {None}

Request == [ pc : {"idle", "get", "resolve", "load", "fallback", "set", "answered", "refused"},
             pin : Pinned, runtime : Asked,
             key : Key \cup {None},        \* the cache key
             version : Pinned,             \* the entry being loaded
             degraded : BOOLEAN,
             answer : Artifact \cup {None} ]

NoRequest == [ pc |-> "idle", pin |-> None, runtime |-> None, key |-> None,
               version |-> None, degraded |-> FALSE, answer |-> None ]

TypeOK ==
  /\ disk \in [Versions -> [Formats -> Content]]
  /\ registry \in Registry /\ entries \in Registry
  /\ loaded \in [Versions -> [Asked -> Artifact \cup {None}]]
  /\ cache \in [Key -> Artifact \cup {None}]
  /\ req \in [Requests -> Request]
  /\ events \in 0 .. MaxEvents
  /\ struck \subseteq Upsets

Init ==
  /\ \E second \in {0, 1} :
       disk = [v \in Versions |-> [f \in Formats |-> IF f = "onnx" THEN 1 ELSE second]]
  /\ registry = [active |-> Versions, default |-> 1]
  /\ entries = registry
  /\ loaded = [v \in Versions |-> [rt \in Asked |-> None]]
  /\ cache = [k \in Key |-> None]
  /\ req = [p \in Requests |-> NoRequest]
  /\ events = 0
  /\ struck = {}

-----------------------------------------------------------------------------
(* Resolution, fingerprints and loading.                                   *)

Newest(S) == CHOOSE v \in S : \A w \in S : w <= v

(* resolve(): the pinned version, or the default, or the newest; None is   *)
(* ModelNotFoundError.                                                     *)
Resolve(pin) ==
  IF pin # None THEN IF pin \in entries.active THEN pin ELSE None
  ELSE IF entries.active = {} THEN None
  ELSE IF entries.default \in entries.active THEN entries.default
  ELSE Newest(entries.active)

Preferred(rt) == IF rt = None THEN "onnx" ELSE rt

\* Mutant: the key does not name the content of the artifact.
NoFingerprint(v) == 0

(* artifact_fingerprint(): of the primary artifact, as it is on disk now.  *)
Fingerprint(v) == disk[v]["onnx"]

CacheKey(v, rt) ==
  [version |-> v, fingerprint |-> Fingerprint(v), runtime |-> Preferred(rt)]

Other(f) == IF f = "onnx" THEN "onnx_int8" ELSE "onnx"

(* _runtime_preference() and _build_runtime(): the artifact a process that *)
(* has nothing loaded would use, None if no file loads.                    *)
Build(v, rt) ==
  LET first == Preferred(rt)
      fmt   == IF disk[v][first] # 0 THEN first ELSE Other(first)
  IN  IF disk[v][fmt] = 0 THEN None
      ELSE [version |-> v, format |-> fmt, content |-> disk[v][fmt]]

(* load(): what is loaded already is used as it is.                        *)
Load(v, rt) == IF loaded[v][rt] # None THEN loaded[v][rt] ELSE Build(v, rt)

-----------------------------------------------------------------------------
(* A request, from one await to the next.                                  *)

Refusal == [NoRequest EXCEPT !.pc = "refused"]

Refused(p) == req' = [req EXCEPT ![p] = Refusal]

Answered(q, artifact) ==
  [NoRequest EXCEPT !.pc = "answered", !.pin = q.pin,
                    !.degraded = q.degraded, !.answer = artifact]

(* A model that does not exist is a 404, at once.                          *)
Lookup(p) ==
  /\ req[p].pc = "idle"
  /\ \E pin \in Pins, rt \in Asked :
       LET v == Resolve(pin)
           q == [NoRequest EXCEPT !.pin = pin, !.runtime = rt]
       IN  req' = [req EXCEPT ![p] =
                     IF v = None THEN Refusal
                     ELSE [q EXCEPT !.pc = "get", !.key = CacheKey(v, rt)]]
  /\ UNCHANGED <<disk, registry, entries, loaded, cache, events, struck>>

CacheGet(p) ==
  /\ req[p].pc = "get"
  /\ req' = [req EXCEPT ![p] =
               IF cache[@.key] # None
               THEN Answered(@, cache[req[p].key])
               ELSE [@ EXCEPT !.pc = "resolve"]]
  /\ UNCHANGED <<disk, registry, entries, loaded, cache, events, struck>>

(* ModelService.get() resolves the request a second time, after the cache  *)
(* has answered.                                                           *)
ResolveAgain(p) ==
  /\ req[p].pc = "resolve"
  /\ LET v == Resolve(req[p].pin) IN
     IF v = None THEN Refused(p)
     ELSE req' = [req EXCEPT ![p].pc = "load", ![p].version = v]
  /\ UNCHANGED <<disk, registry, entries, loaded, cache, events, struck>>

Use(p, v, rt) ==
  LET artifact == Load(v, rt) IN
  /\ loaded' = [loaded EXCEPT ![v][rt] = artifact]
  /\ req' = [req EXCEPT ![p].pc = "set", ![p].answer = artifact]

(* load() in a thread, and the forward pass.                               *)
LoadModel(p) ==
  LET q == req[p] IN
  /\ q.pc = "load"
  /\ IF Load(q.version, q.runtime) # None THEN Use(p, q.version, q.runtime)
     ELSE /\ IF q.pin = None /\ q.runtime = None THEN Refused(p)
             ELSE req' = [req EXCEPT ![p].pc = "fallback"]
          /\ UNCHANGED loaded
  /\ UNCHANGED <<disk, registry, entries, cache, events, struck>>

\* Mutant: an answer of the fallback does not say so.
Unmarked(q) == FALSE

(* _resolve_model() flags what was served by another model than asked for. *)
Degraded(q) == TRUE

(* The task default, unless it is the very version that was pinned.        *)
Fallback(p) ==
  LET q == req[p]
      v == Resolve(None)
  IN
  /\ q.pc = "fallback"
  /\ IF v # None /\ v # q.pin /\ Load(v, None) # None
       THEN /\ loaded' = [loaded EXCEPT ![v][None] = Load(v, None)]
            /\ req' = [req EXCEPT ![p] =
                         [@ EXCEPT !.pc = "set", !.version = v,
                                   !.degraded = Degraded(q), !.answer = Load(v, None)]]
       ELSE Refused(p) /\ UNCHANGED loaded
  /\ UNCHANGED <<disk, registry, entries, cache, events, struck>>

Cacheable(q) == ~q.degraded

CacheSet(p) ==
  LET q == req[p] IN
  /\ q.pc = "set"
  /\ cache' = IF Cacheable(q) THEN [cache EXCEPT ![q.key] = q.answer] ELSE cache
  /\ req' = [req EXCEPT ![p] = Answered(q, q.answer)]
  /\ UNCHANGED <<disk, registry, entries, loaded, events, struck>>

Respond(p) ==
  /\ req[p].pc \in {"answered", "refused"}
  /\ req' = [req EXCEPT ![p] = NoRequest]
  /\ UNCHANGED <<disk, registry, entries, loaded, cache, events, struck>>

-----------------------------------------------------------------------------
(* Operations.                                                             *)

Event(kind) == kind \in Events /\ events < MaxEvents /\ events' = events + 1

(* invalidate_model() matches `cv:*:<name>:<version>:*`, but in a key the  *)
(* version is followed by `@` and the fingerprint: nothing matches.        *)
Invalidated(removed) == {}

Between(p) == req[p].pin = None /\ req[p].pc \in {"get", "resolve"}

(* POST /models/reload re-reads registry.json.                             *)
Reload ==
  /\ entries # registry
  /\ entries' = registry
  /\ cache' = [k \in Key |->
                 IF k \in Invalidated(entries.active \ registry.active) THEN None
                 ELSE cache[k]]
  /\ struck' = IF \E p \in Requests : Between(p) THEN struck \cup {"moved"} ELSE struck
  /\ UNCHANGED <<disk, registry, loaded, req, events>>

(* New content in a file, or none: the format is not shipped any more.     *)
Write(v, f) == \E content \in {events + 2, 0} : disk' = [disk EXCEPT ![v][f] = content]

Second(f) == IF f = "onnx" THEN {} ELSE {"second"}

Unloaded == [v \in Versions |-> [rt \in Asked |-> None]]

Rollout ==
  /\ Event("rollout")
  /\ \E v \in Versions, f \in Formats :
       Write(v, f) /\ struck' = struck \cup Second(f)
  /\ loaded' = Unloaded
  /\ entries' = registry
  /\ req' = [p \in Requests |-> NoRequest]
  /\ UNCHANGED <<registry, cache>>

Replace ==
  /\ Event("replace")
  /\ \E v \in Versions, f \in Formats :
       Write(v, f) /\ struck' = struck \cup Second(f) \cup {"replaced"}
  /\ UNCHANGED <<registry, entries, loaded, cache, req>>

Restart ==
  /\ Event("restart")
  /\ loaded' = Unloaded
  /\ entries' = registry
  /\ req' = [p \in Requests |-> NoRequest]
  /\ UNCHANGED <<disk, registry, cache, struck>>

(* models/registry.py; the API sees it at the next Reload.                 *)
SetDefault ==
  /\ Event("default")
  /\ \E v \in registry.active : registry' = [registry EXCEPT !.default = v]
  /\ UNCHANGED <<disk, entries, loaded, cache, req, struck>>

Retire ==
  /\ Event("retire")
  /\ \E v \in registry.active : registry' = [registry EXCEPT !.active = @ \ {v}]
  /\ UNCHANGED <<disk, entries, loaded, cache, req, struck>>

Expire ==
  /\ Event("expire")
  /\ \E k \in Key : cache[k] # None /\ cache' = [cache EXCEPT ![k] = None]
  /\ UNCHANGED <<disk, registry, entries, loaded, req, struck>>

Next ==
  \/ \E p \in Requests :
       \/ Lookup(p) \/ CacheGet(p) \/ ResolveAgain(p) \/ LoadModel(p)
       \/ Fallback(p) \/ CacheSet(p) \/ Respond(p)
  \/ Reload \/ Rollout \/ Replace \/ Restart \/ SetDefault \/ Retire \/ Expire

Spec == Init /\ [][Next]_vars

-----------------------------------------------------------------------------
(* Properties.                                                             *)

(* Who pinned a version is answered by it, or is told of the fallback.     *)
PinIsHonoured ==
  "moved" \notin struck =>
    \A p \in Requests :
      req[p].pc = "answered" /\ req[p].pin # None /\ ~req[p].degraded =>
        req[p].answer.version = req[p].pin

(* What a lookup can find now is what the files on disk would answer now,  *)
(* as long as artifacts change only together with a restart and only the   *)
(* one that is fingerprinted does.                                         *)
CacheIsFresh ==
  struck = {} =>
    \A v \in Versions, rt \in Formats :
      cache[CacheKey(v, rt)] # None => cache[CacheKey(v, rt)] = Build(v, rt)
=============================================================================
