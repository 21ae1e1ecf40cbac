------------------------------ MODULE Delivery ------------------------------
(***************************************************************************)
(* From the repository to a serving pod.                                   *)
(*                                                                         *)
(* In the repository, tools export weights (scripts/prepare_models.py),    *)
(* change models/registry.json (models/registry.py) and record checksums   *)
(* (scripts/fetch_artifacts.py --write-manifest); two of them may run at   *)
(* the same time and any of them can be killed.  What is committed goes    *)
(* into the image, the weights go to a bucket.  A pod's init containers    *)
(* migrate the database, download and verify the weights, build a TensorRT *)
(* engine on a GPU node, and only then does the API start.                 *)
(*                                                                         *)
(* A file's content is the number of the export that wrote it: 0 is no     *)
(* file, -k the broken file an export or a download of k left behind.      *)
(***************************************************************************)
EXTENDS Integers, FiniteSets

CONSTANTS
  Models,       \* 1..n: the registry's model names, in the order of their files
  Committed,    \* the models the repository has in the beginning
  Tools,        \* processes that run the tools
  Retries,      \* fetch_one's retries
  MaxCommands,  \* bound: how many commands the tools run
  MaxFaults     \* bound: kills and failed downloads

ASSUME DeliveryAssumption ==
  /\ IsFiniteSet(Models) /\ Models = 1 .. Cardinality(Models) /\ 1 \in Models
  /\ Committed \subseteq Models
  /\ IsFiniteSet(Tools) /\ Retries \in Nat \ {0}
  /\ MaxCommands \in Nat
  /\ MaxFaults \in Nat

VARIABLES
  files,     \* models/artifacts
  registry,  \* models/registry.json
  tmp,       \* models/registry.json.tmp: nothing, or one document
  manifest,  \* models/artifacts_manifest.json
  tool,      \* the tools' processes
  image,     \* the registry and the manifest of the image
  bucket,    \* ARTIFACT_SOURCE
  pod,       \* one pod
  used,      \* how many commands, exports and faults there were
  asIf,      \* history: the registry if each completed change were one step
  lost,      \* history: the models whose last export ended without registering
  overlap    \* history: a tool read the registry while another was changing it
vars == <<files, registry, tmp, manifest, tool, image, bucket, pod, used, asIf, lost, overlap>>

(* One export is committed. *)
Content == -(MaxCommands + 1) .. MaxCommands + 1
Stores == [Models -> Content]

(* A JSON document; a file truncated in mid-write cannot be read. *)
Broken == <<>>
Readable(doc) == DOMAIN doc = Models

Absent == [status |-> "absent", is_default |-> FALSE, weights |-> 0]
Entry == [status : {"absent", "active", "retired"}, is_default : BOOLEAN, weights : Content]
Docs == [Models -> Entry] \cup {Broken}

(* prepare_*() registers with overwrite and as the default. *)
Commands ==
  [kind : {"prepare"}, model : Models, overwrite : {TRUE}, is_default : {TRUE}]
  \cup [kind : {"register"}, model : Models, overwrite : BOOLEAN, is_default : BOOLEAN]
  \cup [kind : {"retire"}, model : Models]
  \cup [kind : {"manifest"}]

Idle == [pc |-> "idle"]

(***************************************************************************)
(* models/registry.py.                                                     *)
(***************************************************************************)
Registered(doc, m, entry) ==
  [n \in Models |-> IF n = m THEN entry
                    ELSE [doc[n] EXCEPT !.is_default = @ /\ ~entry.is_default]]

Retired(doc, m) == [doc EXCEPT ![m].status = "retired"]

(* validate(): the active entries whose file is not there. *)
Problems(doc, artifacts) ==
  {m \in Models : doc[m].status = "active" /\ artifacts[m] = 0}

(* What command c makes of the registry; the weights are those on disk. *)
Changed(c, doc, artifacts) ==
  IF c.kind = "retire" THEN Retired(doc, c.model)
  ELSE Registered(doc, c.model,
         [status |-> "active", is_default |-> c.is_default, weights |-> artifacts[c.model]])

(* register() raises ValueError, retire() returns False. *)
Refused(c, doc) ==
  \/ c.kind = "register" /\ ~c.overwrite /\ doc[c.model].status # "absent"
  \/ c.kind = "retire" /\ doc[c.model].status = "absent"

(* A tool's state: where it is, and what it has in memory there. *)
Changes == {c \in Commands : c.kind # "manifest"}
ToolStates ==
  {Idle}
  \cup [pc : {"export", "exported"}, cmd : {c \in Changes : c.kind = "prepare"}, weights : Content]
  \cup [pc : {"load"}, cmd : Changes, weights : Content]
  \cup [pc : {"open"}, cmd : Changes, weights : Content, doc : [Models -> Entry]]
  \cup [pc : {"write", "replace"}, cmd : Changes, doc : [Models -> Entry],
        fd : {"tmp", "registry", "gone"}]
  \cup [pc : {"names"}, cmd : {[kind |-> "manifest"]}, weights : Content]
  \cup [pc : {"hash"}, cmd : {[kind |-> "manifest"]}, names : SUBSET Models]
  \cup [pc : {"record"}, cmd : {[kind |-> "manifest"]}, sums : Stores]

Images == [registry : [Models -> Entry], manifest : Stores, files : Stores, doubtful : SUBSET Models]

NoPod == [pc |-> "none"]
PodStates ==
  [pc : {"migrate", "fetch", "next", "download", "verify", "engine", "convert", "build", "engine written",
         "start", "serving", "backoff"},
   container : {"migrate", "fetch", "engine", "api"}, gpu : BOOLEAN, image : Images, volume : Stores,
   staging : Content, left : SUBSET Models, attempt : 0..Retries, half : Content, engine : Content]

TypeOK ==
  /\ files \in Stores /\ bucket \in Stores
  /\ registry \in Docs /\ asIf \in [Models -> Entry]
  /\ tmp \in SUBSET Docs /\ Cardinality(tmp) <= 1
  /\ manifest \in Stores \cup {Broken}
  /\ tool \in [Tools -> ToolStates]
  /\ image \in Images
  /\ pod \in PodStates \cup {NoPod}
  /\ used \in [commands : 0..MaxCommands, exports : 1..MaxCommands + 1, faults : 0..MaxFaults]
  /\ lost \subseteq Models /\ overlap \in BOOLEAN

Init ==
  /\ files = [m \in Models |-> IF m \in Committed THEN 1 ELSE 0]
  /\ registry = [m \in Models |->
       IF m \in Committed THEN [status |-> "active", is_default |-> FALSE, weights |-> 1]
       ELSE Absent]
  /\ manifest = files /\ bucket = files
  /\ tmp = {}
  /\ tool = [t \in Tools |-> Idle]
  /\ image = [registry |-> registry, manifest |-> manifest, files |-> files, doubtful |-> {}]
  /\ pod = NoPod
  /\ used = [commands |-> 0, exports |-> 1, faults |-> 0]
  /\ asIf = registry /\ lost = {} /\ overlap = FALSE

Repository == <<files, registry, tmp, manifest, tool, asIf, lost, overlap>>
Cluster == <<image, bucket, pod>>

Fault == used.faults < MaxFaults /\ used' = [used EXCEPT !.faults = @ + 1]

At(t, pc) == tool[t].pc = pc
In(pc) == pod.pc = pc
Goto(t, step) == tool' = [tool EXCEPT ![t] = step]
Stop(t) == Goto(t, Idle)
(* A tool that ends early loses track of what it exported. *)
GiveUp(t) ==
  /\ Stop(t)
  /\ lost' = IF tool[t].cmd.kind = "prepare" /\ ~At(t, "export")
             THEN lost \cup {tool[t].cmd.model} ELSE lost

(***************************************************************************)
(* The tools.  Each step reads or writes one file once.                    *)
(***************************************************************************)
Exporting(t) == ~At(t, "idle") /\ tool[t].cmd.kind = "prepare"
Saving(t) == tool[t].pc \in {"open", "write", "replace"}

(* Another tool is at work on what t is about to read or write. *)
Crossed(t, m) ==
  \E o \in Tools \ {t} : Saving(o) \/ (Exporting(o) /\ tool[o].cmd.model = m)

Start(t, c) ==
  /\ At(t, "idle") /\ used.commands < MaxCommands /\ In("none")
  /\ used' = [used EXCEPT !.commands = @ + 1]
  /\ Goto(t, [pc |-> CASE c.kind = "prepare" -> "export" [] c.kind = "manifest" -> "names"
                       [] OTHER -> "load",
              cmd |-> c, weights |-> 0])
  /\ UNCHANGED <<files, registry, tmp, manifest, asIf, lost, overlap, Cluster>>

(* export_to_onnx and the quantizers write the model's files in place. *)
Export(t) ==
  LET c == tool[t].cmd IN
  /\ At(t, "export")
  /\ used' = [used EXCEPT !.exports = @ + 1]
  /\ files' = [files EXCEPT ![c.model] = -(used.exports + 1)]
  /\ Goto(t, [tool[t] EXCEPT !.pc = "exported", !.weights = used.exports + 1])
  /\ overlap' = (overlap \/ Crossed(t, c.model))
  /\ UNCHANGED <<registry, tmp, manifest, asIf, lost, Cluster>>

Exported(t) ==
  LET c == tool[t].cmd IN
  /\ At(t, "exported")
  /\ files' = [files EXCEPT ![c.model] = tool[t].weights]
  /\ Goto(t, [tool[t] EXCEPT !.pc = "load"])
  /\ UNCHANGED <<registry, tmp, manifest, asIf, lost, overlap, used, Cluster>>

(* Registry() reads the file, register() or retire() changes the copy. *)
Load(t) ==
  LET c == tool[t].cmd IN
  /\ At(t, "load")
  /\ overlap' = (overlap \/ Crossed(t, c.model))
  /\ IF Readable(registry) /\ ~Refused(c, registry)
     THEN Goto(t, [pc |-> "open", cmd |-> c, weights |-> files[c.model],
                   doc |-> Changed(c, registry, files)]) /\ UNCHANGED lost
     ELSE GiveUp(t)
  /\ UNCHANGED <<files, registry, tmp, manifest, asIf, used, Cluster>>

(* save() opens the temporary file, which truncates what another tool may *)
(* have in it; fd says which name the opened file has at the moment.       *)
(* Mutant: the registry itself is opened and written. *)
OpenInPlace(t) ==
  /\ At(t, "open")
  /\ registry' = Broken
  /\ Goto(t, [pc |-> "write", cmd |-> tool[t].cmd, doc |-> tool[t].doc, fd |-> "registry"])
  /\ UNCHANGED <<files, tmp, manifest, asIf, lost, overlap, used, Cluster>>

Open(t) ==
  /\ At(t, "open")
  /\ tmp' = {Broken}
  /\ Goto(t, [pc |-> "write", cmd |-> tool[t].cmd, doc |-> tool[t].doc, fd |-> "tmp"])
  /\ UNCHANGED <<files, registry, manifest, asIf, lost, overlap, used, Cluster>>

(* Written over what another tool wrote to the same file, the document is *)
(* whole only when it is not the shorter one.                              *)
Over(old, doc) == IF old = Broken THEN {doc} ELSE {doc, Broken}

Write(t) ==
  LET s == tool[t] IN
  /\ At(t, "write")
  /\ \/ s.fd = "tmp" /\ UNCHANGED registry
        /\ \E old \in tmp : \E new \in Over(old, s.doc) : tmp' = {new}
     \/ s.fd = "registry" /\ UNCHANGED tmp
        /\ registry' \in Over(registry, s.doc)
     \/ s.fd = "gone" /\ UNCHANGED <<registry, tmp>>
  /\ Goto(t, [s EXCEPT !.pc = "replace"])
  /\ UNCHANGED <<files, manifest, asIf, lost, overlap, used, Cluster>>

Moved(fd) == CASE fd = "tmp" -> "registry" [] OTHER -> "gone"

(* tmp.replace(path): without the file, FileNotFoundError. *)
Replace(t) ==
  LET s == tool[t] IN
  /\ At(t, "replace")
  /\ IF tmp = {}
     THEN GiveUp(t) /\ UNCHANGED <<registry, tmp, asIf>>
     ELSE /\ \E doc \in tmp : registry' = doc
          /\ tmp' = {}
          /\ tool' = [o \in Tools |->
               IF o = t THEN Idle
               ELSE IF tool[o].pc \in {"write", "replace"}
               THEN [tool[o] EXCEPT !.fd = Moved(@)] ELSE tool[o]]
          /\ asIf' = [m \in Models |->
               IF m = s.cmd.model THEN s.doc[m]
               ELSE [asIf[m] EXCEPT !.is_default = @ /\ ~s.doc[s.cmd.model].is_default]]
          /\ lost' = IF s.cmd.kind = "retire" THEN lost ELSE lost \ {s.cmd.model}
  /\ UNCHANGED <<files, manifest, overlap, used, Cluster>>

(* --write-manifest: serving_artifacts, build_manifest, and a plain write. *)
Names(t) ==
  /\ At(t, "names")
  /\ IF Readable(registry)
     THEN Goto(t, [pc |-> "hash", cmd |-> tool[t].cmd,
                   names |-> {m \in Models : registry[m].status # "absent"}])
     ELSE Stop(t)
  /\ UNCHANGED <<files, registry, tmp, manifest, asIf, lost, overlap, used, Cluster>>

Hash(t) ==
  LET names == tool[t].names IN
  /\ At(t, "hash")
  /\ Goto(t, [pc |-> "record", cmd |-> tool[t].cmd,
              sums |-> [m \in Models |-> IF names = {} \/ m \in names THEN files[m] ELSE 0]])
  /\ manifest' = Broken
  /\ UNCHANGED <<files, registry, tmp, asIf, lost, overlap, used, Cluster>>

Record(t) ==
  /\ At(t, "record")
  /\ manifest' \in Over(manifest, tool[t].sums)
  /\ Stop(t)
  /\ UNCHANGED <<files, registry, tmp, asIf, lost, overlap, used, Cluster>>

Kill(t) ==
  /\ ~At(t, "idle") /\ Fault
  /\ GiveUp(t)
  /\ UNCHANGED <<files, registry, tmp, manifest, asIf, overlap, Cluster>>

(***************************************************************************)
(* Commit, CI, docker build, upload to a new prefix.  CI runs registry     *)
(* validate, and a unit test compares the manifest with the files.         *)
(***************************************************************************)
ManifestMatches == \A m \in Models : manifest[m] # 0 /\ files[m] # 0 => manifest[m] = files[m]

CIPasses ==
  /\ Readable(registry) /\ Readable(manifest)
  /\ Problems(registry, files) = {}
  /\ ManifestMatches

Release ==
  /\ \A t \in Tools : At(t, "idle")
  /\ CIPasses
  /\ image' = [registry |-> registry, manifest |-> manifest, files |-> files,
               doubtful |-> IF overlap THEN Models ELSE lost]
  /\ image' # image /\ In("none")
  /\ UNCHANGED <<Repository, bucket, pod, used>>

(* A prefix overwritten in place, which k8s/README.md advises against. *)
Overwrite(m) ==
  /\ bucket[m] # files[m] /\ ~In("none")
  /\ bucket' = [bucket EXCEPT ![m] = files[m]]
  /\ UNCHANGED <<Repository, image, pod, used>>

(***************************************************************************)
(* A pod: the volume lives as long as the pod, a container that fails is   *)
(* started again by the kubelet.  A pod has its image and its prefix from  *)
(* the start, so what the tools do meanwhile can only reach it through     *)
(* Overwrite: the commands all come before the pod here.                   *)
(***************************************************************************)
Schedule ==
  /\ In("none") /\ \A t \in Tools : At(t, "idle")
  /\ bucket' = image.files
  /\ \E gpu \in BOOLEAN :
       pod' = [pc |-> "migrate", container |-> "migrate", gpu |-> gpu, image |-> image,
               volume |-> [m \in Models |-> 0], staging |-> 0, left |-> {}, attempt |-> 0,
               half |-> 0, engine |-> 0]
  /\ UNCHANGED <<Repository, image, used>>

Exit1 == pod' = [pod EXCEPT !.pc = "backoff", !.staging = 0]
Listed(m) == pod.image.manifest[m] # 0

Alone == UNCHANGED <<Repository, image, bucket, used>>

(* alembic upgrade head: it fails where the database is down, or another   *)
(* pod is migrating it.                                                    *)
Migrate ==
  /\ In("migrate") /\ UNCHANGED <<Repository, image, bucket>>
  /\ \/ pod' = [pod EXCEPT !.pc = "fetch", !.container = "fetch"] /\ UNCHANGED used
     \/ Fault /\ Exit1

(* Mutant: the destination must be empty. *)
FetchAllAnew ==
  /\ In("fetch")
  /\ IF (\E m \in Models : Listed(m)) /\ \A m \in Models : pod.volume[m] = 0
     THEN pod' = [pod EXCEPT !.pc = "next", !.left = {m \in Models : Listed(m)}]
     ELSE Exit1
  /\ Alone

FetchAll ==
  /\ In("fetch")
  /\ IF \E m \in Models : Listed(m)
     THEN pod' = [pod EXCEPT !.pc = "next", !.left = {m \in Models : Listed(m)}]
     ELSE Exit1
  /\ Alone

First(S) == CHOOSE m \in S : \A n \in S : m <= n
Expected(m) == pod.image.manifest[m]

FetchOne ==
  /\ In("next")
  /\ pod' =
       IF pod.left = {}
       THEN [pod EXCEPT !.pc = IF pod.gpu THEN "engine" ELSE "start",
                        !.container = IF pod.gpu THEN "engine" ELSE "api"]
       ELSE IF pod.volume[First(pod.left)] = Expected(First(pod.left))
       THEN [pod EXCEPT !.left = @ \ {First(pod.left)}]
       ELSE [pod EXCEPT !.pc = "download", !.attempt = 1]
  /\ Alone

(* The transfer is complete, ends early without an error, raises OSError   *)
(* (also when the file is not there) or an error that is not retried.      *)
Download ==
  LET m == First(pod.left) IN
  /\ In("download") /\ UNCHANGED <<Repository, image, bucket>>
  /\ \/ /\ bucket[m] # 0 /\ UNCHANGED used
        /\ pod' = [pod EXCEPT !.pc = "verify", !.staging = bucket[m]]
     \/ /\ bucket[m] > 0 /\ Fault
        /\ pod' = [pod EXCEPT !.pc = "verify", !.staging = -bucket[m]]
     \/ /\ IF bucket[m] = 0 THEN UNCHANGED used ELSE Fault
        /\ pod' = IF pod.attempt < Retries THEN [pod EXCEPT !.attempt = @ + 1, !.staging = 0]
                  ELSE [pod EXCEPT !.pc = "backoff", !.staging = 0]
     \/ Fault /\ Exit1

(* Mutant: the file is put in place whatever its checksum. *)
PutInPlace ==
  LET m == First(pod.left) IN
  /\ In("verify")
  /\ pod' = [pod EXCEPT !.pc = "next", !.staging = 0, !.left = @ \ {m},
                        !.volume[m] = pod.staging]
  /\ Alone

Verify ==
  LET m == First(pod.left) IN
  /\ In("verify")
  /\ IF pod.staging = Expected(m)
     THEN pod' = [pod EXCEPT !.pc = "next", !.staging = 0, !.left = @ \ {m},
                            !.volume[m] = pod.staging]
     ELSE Exit1
  /\ Alone

(* build-engine, for model 1.  It ends with exit 0 where                   *)
(* tensorrt_available() is False, and refuses a file that is no model.     *)
(* TensorRT 11 builds from an fp16 graph, which is kept beside the model.  *)
NoTensorRT == pod' = [pod EXCEPT !.pc = "start", !.container = "api"]
Rejected == pod.volume[1] <= 0

BuildEngine ==
  /\ In("engine") /\ Alone
  /\ \/ NoTensorRT
     \/ Rejected /\ Exit1
     \/ /\ ~Rejected /\ pod.half = 0
        /\ pod' = [pod EXCEPT !.pc = "convert", !.half = -pod.volume[1]]
     \/ ~Rejected /\ pod.half < 0 /\ Exit1
     \/ ~Rejected /\ pod.half > 0 /\ pod' = [pod EXCEPT !.pc = "build"]

Convert ==
  /\ In("convert") /\ Alone
  /\ pod' = [pod EXCEPT !.pc = "build", !.half = pod.volume[1]]

Build ==
  /\ In("build") /\ Alone
  /\ pod' = [pod EXCEPT !.pc = "engine written", !.engine = -pod.half]

EngineWritten ==
  /\ In("engine written") /\ Alone
  /\ pod' = [pod EXCEPT !.pc = "start", !.container = "api", !.engine = pod.half]

StartApi ==
  /\ In("start") /\ Alone
  /\ pod' = [pod EXCEPT !.pc = "serving"]

(* A container is killed or fails: the files it was writing stay. *)
Crash ==
  /\ ~In("none") /\ ~In("backoff") /\ Fault
  /\ pod' = [pod EXCEPT !.pc = "backoff"]
  /\ UNCHANGED <<Repository, image, bucket>>

Restart ==
  /\ In("backoff")
  /\ pod' = [pod EXCEPT !.pc = IF pod.container = "api" THEN "start" ELSE pod.container]
  /\ Alone

Next ==
  \/ \E t \in Tools : \/ \E c \in Commands : Start(t, c)
                       \/ Export(t) \/ Exported(t) \/ Load(t) \/ Open(t) \/ Write(t)
                       \/ Replace(t) \/ Names(t) \/ Hash(t) \/ Record(t) \/ Kill(t)
  \/ Release \/ (\E m \in Models : Overwrite(m)) \/ Schedule
  \/ Migrate \/ FetchAll \/ FetchOne \/ Download \/ Verify
  \/ BuildEngine \/ Convert \/ Build \/ EngineWritten \/ StartApi \/ Crash \/ Restart

PodStep ==
  \/ Migrate \/ FetchAll \/ FetchOne \/ Download \/ Verify
  \/ BuildEngine \/ Convert \/ Build \/ EngineWritten \/ StartApi \/ Restart

Spec == Init /\ [][Next]_vars /\ WF_vars(PodStep)

(***************************************************************************)
(* Properties.                                                             *)
(***************************************************************************)
(* models/registry.py: every change of the registry is one step, whatever  *)
(* is killed: the file is always what the completed changes make of it,    *)
(* and so never unreadable.  Two tools at once void this: they share one   *)
(* temporary file, and the second saves a copy it read before the first.   *)
RegistryIsAtomic == ~overlap => registry = asIf

(* scripts/fetch_artifacts.py: a pod whose API runs has every file of its  *)
(* manifest with the recorded checksum, whatever the bucket held, however  *)
(* the downloads failed and whichever container was killed.                *)
ServedIsVerified ==
  In("serving") => \A m \in Models : Listed(m) => pod.volume[m] = Expected(m)

(* TensorRTBackend: what is not an engine cannot be deserialised. *)
Deserialises == pod.gpu /\ pod.engine > 0

(* load(): the first artifact of the preference chain that can be loaded. *)
(* Mutant: an engine that cannot be deserialised is served. *)
AnyEngine(m) ==
  IF pod.gpu /\ m = 1 /\ pod.engine # 0 THEN pod.engine ELSE pod.volume[m]

Serves(m) == IF m = 1 /\ Deserialises THEN pod.engine ELSE pod.volume[m]

(* A model of the image's registry is served with the weights it was       *)
(* registered with, in either format.  Left out: a model that is not in    *)
(* the manifest, which nothing in CI notices, and a model whose export     *)
(* was killed before it was registered or ran into another tool.           *)
ServedIsRegistered ==
  In("serving") =>
    \A m \in Models \ pod.image.doubtful :
      pod.image.registry[m].status = "active" /\ Listed(m)
        => Serves(m) = pod.image.registry[m].weights

(* A pod whose bucket holds what its manifest lists starts serving, after  *)
(* any kills and failed migrations and downloads.  Left out on a GPU node: *)
(* an image whose manifest lacks the engine's model or has a broken export *)
(* of it, and a container killed while it wrote the fp16 graph, which is   *)
(* taken for a finished one ever after.                                    *)
CanStart ==
  /\ ~In("none")
  /\ \E m \in Models : Listed(m)
  /\ \A m \in Models : Listed(m) => bucket[m] = Expected(m)
  /\ pod.gpu => Expected(1) > 0 /\ (pod.half >= 0 \/ In("convert"))
PodsComeUp == []CanStart ~> In("serving")
=============================================================================
