-------------------------- MODULE Delivery_proofs --------------------------
(* Proofs about Delivery: the registry file, and what a pod serves.         *)
EXTENDS Delivery, FiniteSetTheorems, NaturalsInduction, WellFoundedInduction, TLAPS

-----------------------------------------------------------------------------
(* Types.                                                                  *)

UsedStates == [commands : 0..MaxCommands, exports : 1..MaxCommands + 1, faults : 0..MaxFaults]

(* The tools that are about to export.  Each of their commands is counted   *)
(* and has not exported yet: this is what bounds a file's content.          *)
Exporters == {t \in Tools : At(t, "export")}
Counted == used.exports + Cardinality(Exporters) <= used.commands + 1

TypeInv == TypeOK /\ Counted

LEMMA Numbers ==
  /\ MaxCommands \in Nat /\ MaxFaults \in Nat /\ Retries \in Nat \ {0}
  /\ 1 \in Models /\ Models \subseteq Nat /\ IsFiniteSet(Tools)
  /\ Content \subseteq Int /\ 0 \in Content /\ \A k \in Content : -k \in Content
  /\ \A k \in 0..MaxCommands + 1 : k \in Content /\ -k \in Content
<1>1. Cardinality(Models) \in Nat
  BY DeliveryAssumption, FS_CardinalityType
<1> QED
  BY <1>1, DeliveryAssumption DEF Content

LEMMA ExportersFinite ==
  ASSUME NEW S \in SUBSET Tools
  PROVE  IsFiniteSet(S) /\ Cardinality(S) \in Nat
  BY Numbers, FS_Subset, FS_CardinalityType

(* What a tool has in memory, by where it is.                              *)
LEMMA ToolIs ==
  ASSUME TypeOK, NEW t \in Tools
  PROVE  /\ tool[t] \in ToolStates
         /\ tool[t].pc \in {"export", "exported"} =>
              tool[t] \in [pc : {"export", "exported"},
                           cmd : {c \in Changes : c.kind = "prepare"}, weights : Content]
         /\ tool[t].pc = "load" => tool[t] \in [pc : {"load"}, cmd : Changes, weights : Content]
         /\ tool[t].pc = "open" =>
              tool[t] \in [pc : {"open"}, cmd : Changes, weights : Content,
                           doc : [Models -> Entry]]
         /\ tool[t].pc \in {"write", "replace"} =>
              tool[t] \in [pc : {"write", "replace"}, cmd : Changes, doc : [Models -> Entry],
                           fd : {"tmp", "registry", "gone"}]
         /\ tool[t].pc = "names" =>
              tool[t] \in [pc : {"names"}, cmd : {[kind |-> "manifest"]}, weights : Content]
         /\ tool[t].pc = "hash" =>
              tool[t] \in [pc : {"hash"}, cmd : {[kind |-> "manifest"]}, names : SUBSET Models]
         /\ tool[t].pc = "record" =>
              tool[t] \in [pc : {"record"}, cmd : {[kind |-> "manifest"]}, sums : Stores]
         /\ tool[t].pc \in {"idle", "export", "exported", "load", "open", "write", "replace",
                          "names", "hash", "record"}
  BY DEF TypeOK, ToolStates, Idle

LEMMA CommandIs ==
  ASSUME NEW c \in Changes
  PROVE  /\ c \in Commands /\ c.model \in Models
         /\ c.kind \in {"prepare", "register", "retire"}
         /\ c.kind # "retire" => c.is_default \in BOOLEAN
  BY DEF Changes, Commands

(* A step of the tools that starts no command and exports nothing.          *)
LEMMA ToolTypes ==
  ASSUME TypeInv, UNCHANGED Cluster,
         tool' \in [Tools -> ToolStates], Exporters' \subseteq Exporters,
         used' \in UsedStates, used'.commands = used.commands, used'.exports = used.exports,
         files' \in Stores, registry' \in Docs, asIf' \in [Models -> Entry],
         tmp' \in SUBSET Docs, Cardinality(tmp') <= 1,
         manifest' \in Stores \cup {Broken}, lost' \subseteq Models, overlap' \in BOOLEAN
  PROVE  TypeInv'
<1>1. image' = image /\ bucket' = bucket /\ pod' = pod
  BY DEF Cluster
<1>2. TypeOK'
  BY <1>1 DEF TypeInv, TypeOK, UsedStates
<1>3. Exporters \subseteq Tools
  BY DEF Exporters
<1>4. /\ Cardinality(Exporters') \in Nat /\ Cardinality(Exporters) \in Nat
      /\ Cardinality(Exporters') <= Cardinality(Exporters)
  <2> DEFINE S == Exporters'
  <2>1. S \subseteq Exporters /\ S \subseteq Tools
    BY <1>3
  <2> HIDE DEF S
  <2>2. Cardinality(S) \in Nat /\ IsFiniteSet(Exporters) /\ Cardinality(Exporters) \in Nat
    BY <1>3, <2>1, ExportersFinite
  <2>3. Cardinality(S) <= Cardinality(Exporters)
    BY <2>1, <2>2, FS_Subset
  <2> QED
    BY <2>2, <2>3 DEF S
<1>5. used.exports \in Nat /\ used.commands \in Nat
  BY Numbers DEF TypeInv, TypeOK
<1>6. Counted'
  BY <1>4, <1>5 DEF TypeInv, Counted
<1> QED
  BY <1>2, <1>6 DEF TypeInv

LEMMA Singletons ==
  /\ Cardinality({}) = 0 /\ Broken \in Docs
  /\ \A d \in Docs : {d} \in SUBSET Docs /\ Cardinality({d}) <= 1
<1>1. \A d \in Docs : Cardinality({d}) = 1
  BY FS_Singleton
<1>2. \A d \in Docs : Cardinality({d}) <= 1
  BY <1>1
<1> QED
  BY <1>2, FS_EmptySet DEF Docs

(* A tool that goes to another place than "export".                        *)
LEMMA Goes ==
  ASSUME TypeInv, NEW t \in Tools, NEW s \in ToolStates, Goto(t, s), s.pc # "export"
  PROVE  /\ tool' \in [Tools -> ToolStates] /\ tool'[t] = s
         /\ \A o \in Tools \ {t} : tool'[o] = tool[o]
         /\ Exporters' \subseteq Exporters
<1>1. tool \in [Tools -> ToolStates]
  BY DEF TypeInv, TypeOK
<1>2. tool' \in [Tools -> ToolStates] /\ tool'[t] = s /\ \A o \in Tools \ {t} : tool'[o] = tool[o]
  BY <1>1 DEF Goto
<1> QED
  BY <1>2 DEF Exporters, At

LEMMA GivesUp ==
  ASSUME TypeInv, NEW t \in Tools, ~At(t, "idle"), GiveUp(t)
  PROVE  /\ tool' \in [Tools -> ToolStates] /\ tool'[t] = Idle
         /\ \A o \in Tools \ {t} : tool'[o] = tool[o]
         /\ Exporters' \subseteq Exporters
         /\ lost' \subseteq Models /\ lost \subseteq lost'
         /\ tool[t].cmd.kind = "prepare" /\ ~At(t, "export") => tool[t].cmd.model \in lost'
<1>1. Idle \in ToolStates /\ Idle.pc # "export" /\ Goto(t, Idle)
  BY DEF ToolStates, Idle, GiveUp, Stop
<1>2. lost \subseteq Models
  BY DEF TypeInv, TypeOK
<1>3. tool[t].cmd.kind = "prepare" => tool[t].cmd.model \in Models
  <2>1. tool[t].cmd.kind = "prepare" => tool[t].cmd \in Changes \/ tool[t].cmd = [kind |-> "manifest"]
    BY ToolIs DEF TypeInv, At
  <2> QED
    BY <2>1, CommandIs
<1>4. lost' \subseteq Models /\ lost \subseteq lost'
      /\ (tool[t].cmd.kind = "prepare" /\ ~At(t, "export") => tool[t].cmd.model \in lost')
  BY <1>2, <1>3 DEF GiveUp
<1> QED
  BY <1>1, <1>4, Goes

LEMMA ReadableIs ==
  ASSUME NEW doc \in Docs, Readable(doc)
  PROVE  doc \in [Models -> Entry]
<1>1. CASE doc = Broken
  <2>1. DOMAIN doc = {}
    BY <1>1 DEF Broken
  <2> QED
    BY <2>1, Numbers DEF Readable
<1> QED
  BY <1>1 DEF Docs

(* An entry with another default.                                          *)
LEMMA EntryIs ==
  ASSUME NEW e \in Entry, NEW default \in BOOLEAN
  PROVE  /\ [e EXCEPT !.is_default = @ /\ default] \in Entry
         /\ [e EXCEPT !.is_default = @ /\ default].status = e.status
         /\ [e EXCEPT !.is_default = @ /\ default].weights = e.weights
         /\ [e EXCEPT !.is_default = @ /\ default].is_default = (e.is_default /\ default)
<1> DEFINE both == e.is_default /\ default
           f == [e EXCEPT !.is_default = both]
<1>1. both \in BOOLEAN
  BY DEF Entry
<1> HIDE DEF both
<1>2. f \in Entry /\ f.status = e.status /\ f.weights = e.weights /\ f.is_default = both
  BY <1>1 DEF Entry
<1> QED
  BY <1>2 DEF both

(* What a command makes of the registry.                                   *)
Effect(c, doc, artifacts, d) ==
  /\ c.kind # "retire" =>
       /\ d[c.model] =
            [status |-> "active", is_default |-> c.is_default, weights |-> artifacts[c.model]]
       /\ \A m \in Models \ {c.model} :
            /\ d[m].status = doc[m].status /\ d[m].weights = doc[m].weights
            /\ d[m] = [doc[m] EXCEPT !.is_default = @ /\ ~c.is_default]
  /\ c.kind = "retire" =>
       /\ d[c.model] = [doc[c.model] EXCEPT !.status = "retired"]
       /\ \A m \in Models \ {c.model} : d[m] = doc[m]

LEMMA ChangedIs ==
  ASSUME NEW c \in Changes, NEW doc \in [Models -> Entry], NEW artifacts \in Stores
  PROVE  /\ Changed(c, doc, artifacts) \in [Models -> Entry]
         /\ Effect(c, doc, artifacts, Changed(c, doc, artifacts))
<1>1. c.model \in Models
  BY CommandIs
<1>2. CASE c.kind = "retire"
  <2>1. Changed(c, doc, artifacts) = [doc EXCEPT ![c.model].status = "retired"]
    BY <1>2 DEF Changed, Retired
  <2> DEFINE e == [doc[c.model] EXCEPT !.status = "retired"]
             d == Changed(c, doc, artifacts)
  <2>2. e \in Entry
    BY <1>1 DEF Entry
  <2>3. d = [doc EXCEPT ![c.model] = e]
    BY <2>1
  <2> HIDE DEF e, d
  <2>4. d \in [Models -> Entry] /\ d[c.model] = e /\ \A m \in Models \ {c.model} : d[m] = doc[m]
    BY <1>1, <2>2, <2>3
  <2> QED
    BY <1>2, <2>4 DEF d, e, Effect
<1>3. CASE c.kind # "retire"
  <2> DEFINE e == [status |-> "active", is_default |-> c.is_default, weights |-> artifacts[c.model]]
             other(m) == [doc[m] EXCEPT !.is_default = @ /\ ~e.is_default]
             d == Changed(c, doc, artifacts)
  <2>1. d = [m \in Models |-> IF m = c.model THEN e ELSE other(m)]
    BY <1>3 DEF Changed, Registered
  <2>2. c.is_default \in BOOLEAN /\ e.is_default = c.is_default /\ (~c.is_default) \in BOOLEAN
    BY <1>3, CommandIs
  <2>3. e \in Entry
    BY <1>1, <2>2 DEF Entry, Stores
  <2>4. \A m \in Models : /\ other(m) \in Entry
                          /\ other(m).status = doc[m].status /\ other(m).weights = doc[m].weights
                          /\ other(m) = [doc[m] EXCEPT !.is_default = @ /\ ~c.is_default]
    <3>1. SUFFICES ASSUME NEW m \in Models
                   PROVE  LET f == [doc[m] EXCEPT !.is_default = @ /\ ~c.is_default] IN
                          f \in Entry /\ f.status = doc[m].status /\ f.weights = doc[m].weights
      BY <2>2
    <3>2. doc[m] \in Entry
      OBVIOUS
    <3> QED
      BY <2>2, <3>2, EntryIs
  <2> HIDE DEF e, other
  <2>5. d \in [Models -> Entry] /\ d[c.model] = e
        /\ \A m \in Models \ {c.model} : d[m] = other(m)
    BY <1>1, <2>1, <2>3, <2>4
  <2> QED
    BY <1>3, <2>4, <2>5 DEF d, e, Effect
<1> QED
  BY <1>2, <1>3

LEMMA TypesStart ==
  ASSUME TypeInv, NEW t \in Tools, NEW c \in Commands, Start(t, c)
  PROVE  TypeInv'
<1> DEFINE pc == CASE c.kind = "prepare" -> "export" [] c.kind = "manifest" -> "names"
                   [] OTHER -> "load"
           s == [pc |-> pc, cmd |-> c, weights |-> 0]
<1>1. /\ At(t, "idle") /\ used.commands < MaxCommands
      /\ used' = [used EXCEPT !.commands = @ + 1]
      /\ tool' = [tool EXCEPT ![t] = s]
      /\ UNCHANGED <<files, registry, tmp, manifest, asIf, lost, overlap, Cluster>>
  BY DEF Start, Goto
<1>2. s \in ToolStates
  <2>1. c.kind = "manifest" => c = [kind |-> "manifest"]
    BY DEF Commands
  <2>2. c.kind # "manifest" => c \in Changes
    BY DEF Changes
  <2>3. 0 \in Content
    BY Numbers
  <2>4. CASE c.kind = "manifest"
    BY <2>1, <2>3, <2>4 DEF ToolStates
  <2>5. CASE c.kind = "prepare"
    BY <2>2, <2>3, <2>5 DEF ToolStates
  <2>6. CASE c.kind \notin {"manifest", "prepare"}
    BY <2>2, <2>3, <2>6 DEF ToolStates
  <2> QED
    BY <2>4, <2>5, <2>6
<1> HIDE DEF s
<1>3. tool \in [Tools -> ToolStates] /\ used \in UsedStates
  BY DEF TypeInv, TypeOK, UsedStates
<1>4. tool' \in [Tools -> ToolStates]
  BY <1>1, <1>2, <1>3
<1>5. used' \in UsedStates /\ used'.commands = used.commands + 1 /\ used'.exports = used.exports
      /\ used.commands \in Nat /\ used.exports \in Nat
  BY <1>1, <1>3, Numbers DEF UsedStates
<1>6. TypeOK'
  BY <1>1, <1>4, <1>5 DEF TypeInv, TypeOK, UsedStates, Cluster
<1>7. Exporters' \subseteq Exporters \cup {t} /\ Exporters \subseteq Tools
  BY <1>1, <1>3 DEF Exporters, At
<1>8. Cardinality(Exporters') <= Cardinality(Exporters) + 1
      /\ Cardinality(Exporters') \in Nat /\ Cardinality(Exporters) \in Nat
  <2> DEFINE S == Exporters'
             U == Exporters \cup {t}
  <2>1. S \subseteq U /\ S \subseteq Tools /\ U \subseteq Tools
    BY <1>7
  <2> HIDE DEF S
  <2>2. IsFiniteSet(Exporters) /\ Cardinality(S) \in Nat /\ Cardinality(Exporters) \in Nat
    BY <1>7, <2>1, ExportersFinite
  <2>3. IsFiniteSet(U) /\ Cardinality(U) = IF t \in Exporters THEN Cardinality(Exporters)
                                           ELSE Cardinality(Exporters) + 1
    BY <2>2, FS_AddElement
  <2>4. Cardinality(S) <= Cardinality(U)
    <3>1. S \in SUBSET U
      BY <2>1
    <3> QED
      BY <2>3, <3>1, FS_Subset
  <2> HIDE DEF U
  <2> QED
    BY <2>2, <2>3, <2>4 DEF S
<1>9. Counted'
  BY <1>5, <1>8 DEF TypeInv, Counted
<1> QED
  BY <1>6, <1>9 DEF TypeInv

LEMMA ExportIs ==
  ASSUME TypeInv, NEW t \in Tools, Export(t)
  PROVE  /\ TypeInv'
         /\ tool[t].pc = "export" /\ tool[t].cmd.kind = "prepare" /\ tool[t].cmd \in Changes
         /\ tool' = [tool EXCEPT ![t] = tool'[t]]
         /\ tool'[t].pc = "exported" /\ tool'[t].cmd = tool[t].cmd
<1> DEFINE c == tool[t].cmd
           n == used.exports + 1
           s == [tool[t] EXCEPT !.pc = "exported", !.weights = n]
<1>1. /\ tool[t].pc = "export" /\ used' = [used EXCEPT !.exports = @ + 1]
      /\ files' = [files EXCEPT ![c.model] = -n]
      /\ tool' = [tool EXCEPT ![t] = s]
      /\ overlap' = (overlap \/ Crossed(t, c.model))
      /\ UNCHANGED <<registry, tmp, manifest, asIf, lost, Cluster>>
  BY DEF Export, At, Goto
<1>2. /\ tool \in [Tools -> ToolStates] /\ used \in UsedStates /\ files \in Stores
      /\ overlap \in BOOLEAN
      /\ tool[t] \in [pc : {"export", "exported"},
                      cmd : {d \in Changes : d.kind = "prepare"}, weights : Content]
  BY <1>1, ToolIs DEF TypeInv, TypeOK, UsedStates
<1>3. t \in Exporters /\ Exporters \subseteq Tools
  BY <1>1 DEF Exporters, At
<1>4. IsFiniteSet(Exporters) /\ Cardinality(Exporters) \in Nat /\ Cardinality(Exporters \ {t}) \in Nat
      /\ Cardinality(Exporters \ {t}) = Cardinality(Exporters) - 1
  BY <1>3, ExportersFinite, FS_RemoveElement
<1>5. used.exports \in Nat /\ used.commands \in Nat /\ used.commands <= MaxCommands
  BY <1>2, Numbers DEF UsedStates
<1>6. n \in 0..MaxCommands + 1 /\ n \in 1..MaxCommands + 1
  BY <1>4, <1>5, Numbers DEF TypeInv, Counted
<1>7. n \in Content /\ -n \in Content
  BY <1>6, Numbers
<1> HIDE DEF n
<1>8. s \in [pc : {"export", "exported"}, cmd : {d \in Changes : d.kind = "prepare"},
              weights : Content]
      /\ s.pc = "exported" /\ s.cmd = c /\ c.kind = "prepare" /\ c \in Changes
  BY <1>2, <1>7
<1>9. s \in ToolStates
  BY <1>8 DEF ToolStates
<1> HIDE DEF s
<1>10. tool' \in [Tools -> ToolStates] /\ tool'[t] = s
  BY <1>1, <1>2, <1>9
<1>11. used' \in UsedStates /\ used'.exports = n /\ used'.commands = used.commands
  <2>1. used' = [used EXCEPT !.exports = n]
    BY <1>1 DEF n
  <2> QED
    BY <1>2, <1>6, <2>1 DEF UsedStates
<1>12. files' \in Stores /\ overlap' \in BOOLEAN
  BY <1>1, <1>2, <1>7 DEF Stores
<1>13. TypeOK'
  BY <1>1, <1>10, <1>11, <1>12 DEF TypeInv, TypeOK, UsedStates, Cluster
<1>14. Exporters' = Exporters \ {t}
  BY <1>1, <1>2, <1>8, <1>10 DEF Exporters, At
<1>15. Counted'
  <2>1. used'.exports = used.exports + 1
    BY <1>11 DEF n
  <2> QED
    BY <1>4, <1>5, <1>11, <1>14, <2>1 DEF TypeInv, Counted
<1> QED
  BY <1>1, <1>8, <1>10, <1>13, <1>15 DEF TypeInv

(* What is as it was, for the steps that write little.                     *)
LEMMA StillTyped ==
  ASSUME TypeInv
  PROVE  /\ files \in Stores /\ bucket \in Stores /\ registry \in Docs /\ asIf \in [Models -> Entry]
         /\ tmp \in SUBSET Docs /\ Cardinality(tmp) <= 1 /\ manifest \in Stores \cup {Broken}
         /\ tool \in [Tools -> ToolStates] /\ image \in Images /\ pod \in PodStates \cup {NoPod}
         /\ used \in UsedStates /\ lost \subseteq Models /\ overlap \in BOOLEAN
  BY DEF TypeInv, TypeOK, UsedStates

LEMMA ExportedIs ==
  ASSUME TypeInv, NEW t \in Tools, Exported(t)
  PROVE  /\ TypeInv'
         /\ tool[t].pc = "exported" /\ tool[t].cmd.kind = "prepare" /\ tool[t].cmd \in Changes
         /\ tool'[t].pc = "load" /\ tool'[t].cmd = tool[t].cmd
         /\ \A o \in Tools \ {t} : tool'[o] = tool[o]
<1> DEFINE c == tool[t].cmd
           s == [tool[t] EXCEPT !.pc = "load"]
<1>1. /\ tool[t].pc = "exported" /\ Goto(t, s)
      /\ files' = [files EXCEPT ![c.model] = tool[t].weights]
      /\ UNCHANGED <<registry, tmp, manifest, asIf, lost, overlap, used, Cluster>>
  BY DEF Exported, At
<1>2. tool[t] \in [pc : {"export", "exported"},
                  cmd : {d \in Changes : d.kind = "prepare"}, weights : Content]
  BY <1>1, ToolIs DEF TypeInv
<1>3. /\ s \in [pc : {"load"}, cmd : Changes, weights : Content] /\ s.pc = "load" /\ s.cmd = c
      /\ c \in Changes /\ c.kind = "prepare" /\ tool[t].weights \in Content
  BY <1>2
<1>4. s \in ToolStates
  BY <1>3 DEF ToolStates
<1> HIDE DEF s
<1>5. /\ tool' \in [Tools -> ToolStates] /\ Exporters' \subseteq Exporters /\ tool'[t] = s
      /\ \A o \in Tools \ {t} : tool'[o] = tool[o]
  BY <1>1, <1>3, <1>4, Goes
<1>6. files' \in Stores
  BY <1>1, <1>3, StillTyped DEF Stores
<1>7. TypeInv'
  BY <1>1, <1>5, <1>6, StillTyped, ToolTypes
<1> QED
  BY <1>1, <1>3, <1>5, <1>7

(* The tool takes its copy of the registry, or ends.                       *)
LEMMA LoadIs ==
  ASSUME TypeInv, NEW t \in Tools, Load(t)
  PROVE  /\ TypeInv'
         /\ tool[t].pc = "load" /\ tool[t].cmd \in Changes
         /\ overlap' = (overlap \/ Crossed(t, tool[t].cmd.model))
         /\ \A o \in Tools \ {t} : tool'[o] = tool[o]
         /\ UNCHANGED <<files, registry, tmp, asIf>>
         /\ \/ /\ registry \in [Models -> Entry] /\ lost' = lost
               /\ tool'[t].pc = "open" /\ tool'[t].cmd = tool[t].cmd
               /\ tool'[t].doc = Changed(tool[t].cmd, registry, files)
            \/ /\ tool'[t] = Idle /\ lost \subseteq lost'
               /\ tool[t].cmd.kind = "prepare" => tool[t].cmd.model \in lost'
<1> DEFINE c == tool[t].cmd
           d == Changed(c, registry, files)
           s == [pc |-> "open", cmd |-> c, weights |-> files[c.model], doc |-> d]
<1>1. /\ tool[t].pc = "load" /\ overlap' = (overlap \/ Crossed(t, c.model))
      /\ IF Readable(registry) /\ ~Refused(c, registry)
         THEN Goto(t, s) /\ UNCHANGED lost ELSE GiveUp(t)
      /\ UNCHANGED <<files, registry, tmp, manifest, asIf, used, Cluster>>
  BY DEF Load, At
<1>2. c \in Changes /\ c.model \in Models
  BY <1>1, ToolIs, CommandIs DEF TypeInv
<1>3. overlap' \in BOOLEAN
  BY <1>1, StillTyped
<1>4. CASE Readable(registry) /\ ~Refused(c, registry)
  <2>1. registry \in [Models -> Entry]
    BY <1>4, StillTyped, ReadableIs
  <2>2. d \in [Models -> Entry] /\ files[c.model] \in Content
    BY <1>2, <2>1, StillTyped, ChangedIs DEF Stores
  <2> HIDE DEF d
  <2>3. s \in ToolStates
    BY <1>2, <2>2 DEF ToolStates
  <2>4. s.pc = "open" /\ s.cmd = c /\ s.doc = d /\ Goto(t, s) /\ lost' = lost
    BY <1>1, <1>4
  <2> HIDE DEF s
  <2>5. /\ tool' \in [Tools -> ToolStates] /\ Exporters' \subseteq Exporters /\ tool'[t] = s
        /\ \A o \in Tools \ {t} : tool'[o] = tool[o]
    BY <2>3, <2>4, Goes
  <2>6. TypeInv'
    BY <1>1, <1>3, <2>4, <2>5, StillTyped, ToolTypes
  <2> QED
    BY <1>1, <1>2, <2>1, <2>4, <2>5, <2>6 DEF d
<1>5. CASE ~(Readable(registry) /\ ~Refused(c, registry))
  <2>1. GiveUp(t) /\ ~At(t, "idle") /\ ~At(t, "export")
    BY <1>1, <1>5 DEF At
  <2>2. /\ tool' \in [Tools -> ToolStates] /\ tool'[t] = Idle
        /\ \A o \in Tools \ {t} : tool'[o] = tool[o]
        /\ Exporters' \subseteq Exporters /\ lost' \subseteq Models /\ lost \subseteq lost'
        /\ c.kind = "prepare" => c.model \in lost'
    BY <2>1, GivesUp
  <2>3. TypeInv'
    BY <1>1, <1>3, <2>2, StillTyped, ToolTypes
  <2> QED
    BY <1>1, <1>2, <2>2, <2>3
<1> QED
  BY <1>4, <1>5

LEMMA OpenIs ==
  ASSUME TypeInv, NEW t \in Tools, Open(t)
  PROVE  /\ TypeInv'
         /\ tool[t].pc = "open" /\ tool[t].cmd \in Changes
         /\ tool'[t].pc = "write" /\ tool'[t].cmd = tool[t].cmd /\ tool'[t].doc = tool[t].doc
         /\ tool'[t].fd = "tmp" /\ tmp' = {Broken}
         /\ \A o \in Tools \ {t} : tool'[o] = tool[o]
<1> DEFINE s == [pc |-> "write", cmd |-> tool[t].cmd, doc |-> tool[t].doc, fd |-> "tmp"]
<1>1. /\ tool[t].pc = "open" /\ tmp' = {Broken} /\ Goto(t, s)
      /\ UNCHANGED <<files, registry, manifest, asIf, lost, overlap, used, Cluster>>
  BY DEF Open, At
<1>2. tool[t] \in [pc : {"open"}, cmd : Changes, weights : Content, doc : [Models -> Entry]]
  BY <1>1, ToolIs DEF TypeInv
<1>3. s \in ToolStates /\ s.pc = "write" /\ s.cmd = tool[t].cmd /\ s.doc = tool[t].doc /\ s.fd = "tmp"
  BY <1>2 DEF ToolStates
<1> HIDE DEF s
<1>4. /\ tool' \in [Tools -> ToolStates] /\ Exporters' \subseteq Exporters /\ tool'[t] = s
      /\ \A o \in Tools \ {t} : tool'[o] = tool[o]
  BY <1>1, <1>3, Goes
<1>5. tmp' \in SUBSET Docs /\ Cardinality(tmp') <= 1
  BY <1>1, Singletons
<1>6. TypeInv'
  BY <1>1, <1>4, <1>5, StillTyped, ToolTypes
<1> QED
  BY <1>1, <1>2, <1>3, <1>4, <1>6

LEMMA WriteIs ==
  ASSUME TypeInv, NEW t \in Tools, Write(t)
  PROVE  /\ TypeInv'
         /\ tool[t].pc = "write" /\ tool[t].cmd \in Changes
         /\ tool'[t].pc = "replace" /\ tool'[t].cmd = tool[t].cmd /\ tool'[t].doc = tool[t].doc
         /\ tool'[t].fd = tool[t].fd
         /\ \A o \in Tools \ {t} : tool'[o] = tool[o]
<1> DEFINE d == tool[t].doc
           s == [tool[t] EXCEPT !.pc = "replace"]
<1>1. /\ tool[t].pc = "write" /\ Goto(t, s)
      /\ \/ /\ registry' = registry
            /\ \E old \in tmp : \E new \in Over(old, d) : tmp' = {new}
         \/ tmp' = tmp /\ registry' \in Over(registry, d)
         \/ registry' = registry /\ tmp' = tmp
      /\ UNCHANGED <<files, manifest, asIf, lost, overlap, used, Cluster>>
  BY DEF Write, At
<1>2. tool[t] \in [pc : {"write", "replace"}, cmd : Changes, doc : [Models -> Entry],
                  fd : {"tmp", "registry", "gone"}]
  BY <1>1, ToolIs DEF TypeInv
<1>3. s \in [pc : {"write", "replace"}, cmd : Changes, doc : [Models -> Entry],
              fd : {"tmp", "registry", "gone"}]
      /\ s.pc = "replace" /\ s.cmd = tool[t].cmd /\ s.doc = d /\ s.fd = tool[t].fd
      /\ d \in Docs
  BY <1>2 DEF Docs
<1>4. s \in ToolStates
  BY <1>3 DEF ToolStates
<1> HIDE DEF s, d
<1>5. /\ tool' \in [Tools -> ToolStates] /\ Exporters' \subseteq Exporters /\ tool'[t] = s
      /\ \A o \in Tools \ {t} : tool'[o] = tool[o]
  BY <1>1, <1>3, <1>4, Goes
<1>6. \A old : Over(old, d) \subseteq Docs
  BY <1>3 DEF Over, Docs
<1>7. registry' \in Docs /\ tmp' \in SUBSET Docs /\ Cardinality(tmp') <= 1
  <2>1. CASE registry' = registry /\ \E old \in tmp : \E new \in Over(old, d) : tmp' = {new}
    <3>1. PICK new \in Docs : tmp' = {new}
      BY <1>6, <2>1
    <3>2. tmp' \in SUBSET Docs /\ Cardinality(tmp') <= 1
      BY <3>1, Singletons
    <3> QED
      BY <2>1, <3>2, StillTyped
  <2>2. CASE tmp' = tmp /\ registry' \in Over(registry, d)
    BY <1>6, <2>2, StillTyped
  <2>3. CASE registry' = registry /\ tmp' = tmp
    BY <2>3, StillTyped
  <2> QED
    BY <1>1, <2>1, <2>2, <2>3
<1>8. TypeInv'
  BY <1>1, <1>5, <1>7, StillTyped, ToolTypes
<1> QED
  BY <1>1, <1>2, <1>3, <1>5, <1>8 DEF d

(* The registry as it would be if this change were one step.               *)
AsOneStep(c, doc) ==
  [m \in Models |-> IF m = c.model THEN doc[m]
                   ELSE [asIf[m] EXCEPT !.is_default = @ /\ ~doc[c.model].is_default]]

LEMMA AsOneStepIs ==
  ASSUME TypeInv, NEW c \in Changes, NEW doc \in [Models -> Entry]
  PROVE  AsOneStep(c, doc) \in [Models -> Entry]
<1>1. c.model \in Models /\ asIf \in [Models -> Entry]
  BY CommandIs, StillTyped
<1>2. (~doc[c.model].is_default) \in BOOLEAN
  BY <1>1
<1>3. ASSUME NEW m \in Models
      PROVE  [asIf[m] EXCEPT !.is_default = @ /\ ~doc[c.model].is_default] \in Entry
  <2>1. asIf[m] \in Entry
    BY <1>1
  <2> QED
    BY <1>2, <2>1, EntryIs
<1>4. \A m \in Models : doc[m] \in Entry
  OBVIOUS
<1> QED
  BY <1>3, <1>4 DEF AsOneStep

LEMMA ReplaceIs ==
  ASSUME TypeInv, NEW t \in Tools, Replace(t)
  PROVE  /\ TypeInv'
         /\ tool[t].pc = "replace" /\ tool[t].cmd \in Changes /\ tool'[t] = Idle
         /\ \A o \in Tools \ {t} : \/ tool'[o] = tool[o]
                                  \/ /\ tool[o].pc \in {"write", "replace"}
                                     /\ tool'[o].pc = tool[o].pc /\ tool'[o].cmd = tool[o].cmd
                                     /\ tool'[o].doc = tool[o].doc
         /\ files' = files /\ overlap' = overlap
         /\ \/ /\ tmp = {} /\ UNCHANGED <<registry, tmp, asIf>> /\ lost \subseteq lost'
               /\ tool[t].cmd.kind = "prepare" => tool[t].cmd.model \in lost'
            \/ /\ registry' \in tmp /\ tmp' = {}
               /\ asIf' = AsOneStep(tool[t].cmd, tool[t].doc)
               /\ lost' = IF tool[t].cmd.kind = "retire" THEN lost ELSE lost \ {tool[t].cmd.model}
<1> DEFINE c == tool[t].cmd
           moved(o) == [tool[o] EXCEPT !.fd = Moved(@)]
<1>1. /\ tool[t].pc = "replace" /\ UNCHANGED <<files, manifest, overlap, used, Cluster>>
  BY DEF Replace, At
<1>2. c \in Changes /\ tool[t].doc \in [Models -> Entry]
  BY <1>1, ToolIs DEF TypeInv
<1>3. CASE tmp = {}
  <2>1. GiveUp(t) /\ UNCHANGED <<registry, tmp, asIf>> /\ ~At(t, "idle") /\ ~At(t, "export")
    BY <1>1, <1>3 DEF Replace, At
  <2>2. /\ tool' \in [Tools -> ToolStates] /\ tool'[t] = Idle
        /\ \A o \in Tools \ {t} : tool'[o] = tool[o]
        /\ Exporters' \subseteq Exporters /\ lost' \subseteq Models /\ lost \subseteq lost'
        /\ c.kind = "prepare" => c.model \in lost'
    BY <2>1, GivesUp
  <2>3. TypeInv'
    BY <1>1, <2>1, <2>2, StillTyped, ToolTypes
  <2> QED
    BY <1>1, <1>2, <1>3, <2>1, <2>2, <2>3
<1>4. CASE tmp # {}
  <2>1. /\ registry' \in tmp /\ tmp' = {} /\ asIf' = AsOneStep(c, tool[t].doc)
        /\ lost' = IF c.kind = "retire" THEN lost ELSE lost \ {c.model}
        /\ tool' = [o \in Tools |->
               IF o = t THEN Idle
               ELSE IF tool[o].pc \in {"write", "replace"} THEN moved(o) ELSE tool[o]]
    BY <1>4 DEF Replace, AsOneStep
  <2>2. ASSUME NEW o \in Tools, tool[o].pc \in {"write", "replace"}
        PROVE  /\ moved(o) \in ToolStates
               /\ moved(o).pc = tool[o].pc /\ moved(o).cmd = tool[o].cmd /\ moved(o).doc = tool[o].doc
    <3>1. tool[o] \in [pc : {"write", "replace"}, cmd : Changes, doc : [Models -> Entry],
                      fd : {"tmp", "registry", "gone"}]
      BY <2>2, ToolIs DEF TypeInv
    <3>2. Moved(tool[o].fd) \in {"registry", "gone"}
      BY DEF Moved
    <3>3. /\ moved(o) \in [pc : {"write", "replace"}, cmd : Changes, doc : [Models -> Entry],
                            fd : {"tmp", "registry", "gone"}]
          /\ moved(o).pc = tool[o].pc /\ moved(o).cmd = tool[o].cmd /\ moved(o).doc = tool[o].doc
      BY <3>1, <3>2
    <3> QED
      BY <3>3 DEF ToolStates
  <2> HIDE DEF moved
  <2>3. Idle \in ToolStates /\ \A o \in Tools : tool[o] \in ToolStates
    BY StillTyped DEF ToolStates
  <2>4. tool' \in [Tools -> ToolStates] /\ tool'[t] = Idle
    BY <2>1, <2>2, <2>3
  <2>5. \A o \in Tools \ {t} : \/ tool'[o] = tool[o]
                              \/ /\ tool[o].pc \in {"write", "replace"}
                                 /\ tool'[o].pc = tool[o].pc /\ tool'[o].cmd = tool[o].cmd
                                 /\ tool'[o].doc = tool[o].doc
    BY <2>1, <2>2
  <2>6. Exporters' \subseteq Exporters
    BY <2>4, <2>5 DEF Exporters, At, Idle
  <2>7. /\ registry' \in Docs /\ tmp' \in SUBSET Docs /\ Cardinality(tmp') <= 1
        /\ lost' \subseteq Models
    BY <2>1, StillTyped, Singletons
  <2>8. asIf' \in [Models -> Entry]
    BY <1>2, <2>1, AsOneStepIs
  <2>9. TypeInv'
    BY <1>1, <2>4, <2>6, <2>7, <2>8, StillTyped, ToolTypes
  <2> QED
    BY <1>1, <1>2, <2>1, <2>4, <2>5, <2>9
<1> QED
  BY <1>3, <1>4

LEMMA ManifestIs ==
  ASSUME TypeInv, NEW t \in Tools, Names(t) \/ Hash(t) \/ Record(t)
  PROVE  /\ TypeInv'
         /\ tool[t].pc \in {"names", "hash", "record"} /\ tool'[t].pc \in {"hash", "record", "idle"}
         /\ tool[t].cmd.kind = "manifest"
         /\ tool'[t].pc # "idle" => tool'[t].cmd.kind = "manifest"
         /\ \A o \in Tools \ {t} : tool'[o] = tool[o]
         /\ UNCHANGED <<files, registry, tmp, asIf, lost, overlap>>
<1>1. UNCHANGED <<files, registry, tmp, asIf, lost, overlap, used, Cluster>>
  BY DEF Names, Hash, Record
<1> DEFINE Result(s) == /\ Goto(t, s) /\ s \in ToolStates /\ s.pc \in {"hash", "record", "idle"}
                        /\ s.pc # "idle" => s.cmd.kind = "manifest"
<1>2. /\ tool[t].pc \in {"names", "hash", "record"} /\ tool[t].cmd = [kind |-> "manifest"]
      /\ manifest' \in Stores \cup {Broken} /\ \E s : Result(s)
  <2>1. CASE Names(t)
    <3>1. tool[t].pc = "names" /\ manifest' = manifest
      BY <2>1 DEF Names, At
    <3>2. tool[t].cmd = [kind |-> "manifest"]
      BY <3>1, ToolIs DEF TypeInv
    <3> DEFINE names == {m \in Models : registry[m].status # "absent"}
               s == [pc |-> "hash", cmd |-> tool[t].cmd, names |-> names]
    <3>3. Goto(t, s) \/ Goto(t, Idle)
      BY <2>1 DEF Names, Stop
    <3>4. names \in SUBSET Models
      OBVIOUS
    <3> HIDE DEF names
    <3>5. s \in ToolStates /\ s.pc = "hash" /\ s.cmd.kind = "manifest"
      BY <3>2, <3>4 DEF ToolStates
    <3>6. Idle \in ToolStates /\ Idle.pc = "idle"
      BY DEF ToolStates, Idle
    <3> HIDE DEF s
    <3> QED
      BY <3>1, <3>2, <3>3, <3>5, <3>6, StillTyped
  <2>2. CASE Hash(t)
    <3>1. tool[t].pc = "hash" /\ manifest' = Broken
      BY <2>2 DEF Hash, At
    <3>2. tool[t].cmd = [kind |-> "manifest"] /\ tool[t].names \in SUBSET Models
      BY <3>1, ToolIs DEF TypeInv
    <3> DEFINE sums == [m \in Models |-> IF tool[t].names = {} \/ m \in tool[t].names
                                        THEN files[m] ELSE 0]
               s == [pc |-> "record", cmd |-> tool[t].cmd, sums |-> sums]
    <3>3. Goto(t, s)
      BY <2>2 DEF Hash
    <3>4. sums \in Stores
      BY StillTyped, Numbers DEF Stores
    <3> HIDE DEF sums
    <3>5. s \in ToolStates /\ s.pc = "record" /\ s.cmd.kind = "manifest"
      BY <3>2, <3>4 DEF ToolStates
    <3> HIDE DEF s
    <3> QED
      BY <3>1, <3>2, <3>3, <3>5
  <2>3. CASE Record(t)
    <3>1. tool[t].pc = "record" /\ manifest' \in Over(manifest, tool[t].sums) /\ Goto(t, Idle)
      BY <2>3 DEF Record, At, Stop
    <3>2. tool[t].cmd = [kind |-> "manifest"] /\ tool[t].sums \in Stores
      BY <3>1, ToolIs DEF TypeInv
    <3>3. Idle \in ToolStates /\ Idle.pc = "idle"
      BY DEF ToolStates, Idle
    <3> QED
      BY <3>1, <3>2, <3>3 DEF Over
  <2> QED
    BY <2>1, <2>2, <2>3
<1>3. PICK s : Result(s)
  BY <1>2
<1>4. /\ tool' \in [Tools -> ToolStates] /\ Exporters' \subseteq Exporters /\ tool'[t] = s
      /\ \A o \in Tools \ {t} : tool'[o] = tool[o]
  BY <1>3, Goes
<1>5. TypeInv'
  BY <1>1, <1>2, <1>4, StillTyped, ToolTypes
<1> QED
  BY <1>1, <1>2, <1>3, <1>4, <1>5

LEMMA KillIs ==
  ASSUME TypeInv, NEW t \in Tools, Kill(t)
  PROVE  /\ TypeInv' /\ tool'[t] = Idle
         /\ \A o \in Tools \ {t} : tool'[o] = tool[o]
         /\ UNCHANGED <<files, registry, tmp, asIf, overlap>> /\ lost \subseteq lost'
         /\ tool[t].cmd.kind = "prepare" /\ ~At(t, "export") => tool[t].cmd.model \in lost'
<1>1. /\ ~At(t, "idle") /\ GiveUp(t) /\ used.faults < MaxFaults
      /\ used' = [used EXCEPT !.faults = @ + 1]
      /\ UNCHANGED <<files, registry, tmp, manifest, asIf, overlap, Cluster>>
  BY DEF Kill, Fault
<1>2. /\ tool' \in [Tools -> ToolStates] /\ tool'[t] = Idle
      /\ \A o \in Tools \ {t} : tool'[o] = tool[o]
      /\ Exporters' \subseteq Exporters /\ lost' \subseteq Models /\ lost \subseteq lost'
      /\ tool[t].cmd.kind = "prepare" /\ ~At(t, "export") => tool[t].cmd.model \in lost'
  BY <1>1, GivesUp
<1>3. used' \in UsedStates /\ used'.commands = used.commands /\ used'.exports = used.exports
  BY <1>1, StillTyped, Numbers DEF UsedStates
<1>4. TypeInv'
  BY <1>1, <1>2, <1>3, StillTyped, ToolTypes
<1> QED
  BY <1>1, <1>2, <1>4

-----------------------------------------------------------------------------
(* The pod.  Inductive once it is said how far the container that runs has *)
(* come, and what became of the engine.                                    *)

(* Every file but those still to be fetched has the recorded checksum.     *)
Verified(p) ==
  \A m \in Models : p.image.manifest[m] # 0 /\ m \notin p.left => p.volume[m] = p.image.manifest[m]

Complete(p) == \A m \in Models : p.image.manifest[m] # 0 => p.volume[m] = p.image.manifest[m]

(* A file made from the model's file is whole or broken, and the model's   *)
(* file was a model.                                                       *)
MadeOf(made, weights) == made \in {0, weights, -weights} /\ (made # 0 => weights > 0)

PodInv(p) ==
  /\ p.pc = "migrate" => p.container = "migrate"
  /\ p.pc \in {"fetch", "next", "download", "verify"} => p.container = "fetch"
  /\ p.pc \in {"engine", "convert", "build", "engine written"} => p.container = "engine"
  /\ p.pc \in {"start", "serving"} => p.container = "api"
  /\ p.pc \in {"next", "download", "verify"} => Verified(p)
  /\ p.pc \in {"download", "verify"} => p.left # {}
  /\ p.container \notin {"migrate", "fetch"} => Complete(p)
  /\ p.container \in {"migrate", "fetch"} => p.half = 0 /\ p.engine = 0
  /\ MadeOf(p.half, p.volume[1]) /\ MadeOf(p.engine, p.volume[1])
  /\ p.pc = "convert" => p.volume[1] > 0
  /\ p.pc \in {"build", "engine written"} => p.half = p.volume[1] /\ p.half > 0

PodSound == pod \in PodStates => PodInv(pod)

LEMMA FirstIs ==
  ASSUME NEW S \in SUBSET Models, S # {}
  PROVE  First(S) \in S
<1>1. S \subseteq Nat
  BY Numbers
<1>2. PICK least \in S : \A n \in S : <<n, least>> \notin OpToRel(<, Nat)
  BY <1>1, NatLessThanWellFounded, WFMin
<1>3. \A n \in S : ~(n < least)
  BY <1>1, <1>2 DEF OpToRel
<1>4. \A n \in S : least <= n
  BY <1>1, <1>3
<1> QED
  BY <1>4 DEF First

LEMMA PodTypes ==
  ASSUME TypeInv, UNCHANGED Repository, image' \in Images, bucket' \in Stores,
         pod' \in PodStates \cup {NoPod},
         used' \in UsedStates, used'.commands = used.commands, used'.exports = used.exports
  PROVE  TypeInv'
<1>1. TypeOK'
  BY DEF TypeInv, TypeOK, UsedStates, Repository
<1>2. Exporters' = Exporters
  BY DEF Exporters, At, Repository
<1> QED
  BY <1>1, <1>2 DEF TypeInv, Counted

(* What the pod's fields are.                                              *)
LEMMA PodIs ==
  ASSUME TypeInv, ~In("none")
  PROVE  /\ pod \in PodStates
         /\ pod.volume \in [Models -> Content] /\ pod.image \in Images
         /\ pod.image.manifest \in [Models -> Content]
         /\ pod.half \in Int /\ pod.engine \in Int /\ pod.volume[1] \in Int
<1>1. pod \in PodStates
  BY StillTyped DEF In, NoPod
<1>2. 1 \in Models /\ Content \subseteq Int
  BY Numbers
<1>3. pod.volume \in [Models -> Content] /\ pod.image \in Images /\ pod.half \in Content
      /\ pod.engine \in Content
  BY <1>1 DEF PodStates, Stores
<1>4. pod.volume[1] \in Content /\ pod.image.manifest \in [Models -> Content]
  BY <1>2, <1>3 DEF Images, Stores
<1> QED
  BY <1>1, <1>2, <1>3, <1>4

LEMMA FaultIs ==
  ASSUME TypeInv, Fault
  PROVE  used' \in UsedStates /\ used'.commands = used.commands /\ used'.exports = used.exports
  BY StillTyped, Numbers DEF UsedStates, Fault

(* A step of the pod that is counted as a fault or not at all.             *)
LEMMA PodMoves ==
  ASSUME TypeInv, UNCHANGED <<Repository, image, bucket>>, used' = used \/ Fault, pod' \in PodStates
  PROVE  TypeInv'
<1>1. used' \in UsedStates /\ used'.commands = used.commands /\ used'.exports = used.exports
  BY FaultIs, StillTyped
<1>2. image' \in Images /\ bucket' \in Stores
  BY StillTyped
<1> QED
  BY <1>1, <1>2, PodTypes

(* A container that ends or is killed leaves its files.                    *)
LEMMA BackOff ==
  ASSUME TypeInv, PodSound, ~In("none"),
         \/ pod' = [pod EXCEPT !.pc = "backoff"]
         \/ Exit1
  PROVE  pod' \in PodStates /\ PodInv(pod')
<1>1. pod \in PodStates /\ PodInv(pod) /\ 0 \in Content
  BY PodIs, Numbers DEF PodSound
<1>2. /\ pod' \in PodStates /\ pod'.pc = "backoff"
      /\ pod'.container = pod.container /\ pod'.image = pod.image /\ pod'.volume = pod.volume
      /\ pod'.half = pod.half /\ pod'.engine = pod.engine
  BY <1>1 DEF PodStates, Exit1
<1> QED
  BY <1>1, <1>2 DEF PodInv, Complete

LEMMA MigrateKeeps ==
  ASSUME TypeInv, PodSound, Migrate
  PROVE  pod' \in PodStates /\ PodInv(pod') /\ (used' = used \/ Fault)
<1>1. pod.pc = "migrate" /\ ~In("none")
  BY DEF Migrate, In
<1>2. pod \in PodStates /\ PodInv(pod) /\ pod.container = "migrate"
  BY <1>1, PodIs DEF PodSound, PodInv
<1>3. CASE Fault /\ Exit1
  BY <1>1, <1>3, BackOff
<1>4. CASE pod' = [pod EXCEPT !.pc = "fetch", !.container = "fetch"] /\ UNCHANGED used
  <2>1. /\ pod' \in PodStates /\ pod'.pc = "fetch" /\ pod'.container = "fetch"
        /\ pod'.image = pod.image /\ pod'.volume = pod.volume
        /\ pod'.half = pod.half /\ pod'.engine = pod.engine
    BY <1>2, <1>4 DEF PodStates
  <2> QED
    BY <1>2, <1>4, <2>1 DEF PodInv
<1> QED
  BY <1>3, <1>4 DEF Migrate

LEMMA FetchAllKeeps ==
  ASSUME TypeInv, PodSound, FetchAll
  PROVE  pod' \in PodStates /\ PodInv(pod')
<1>1. pod.pc = "fetch" /\ ~In("none")
  BY DEF FetchAll, In
<1>2. pod \in PodStates /\ PodInv(pod)
  BY <1>1, PodIs DEF PodSound
<1>3. CASE Exit1
  BY <1>1, <1>3, BackOff
<1>4. CASE ~Exit1
  <2> DEFINE listed == {m \in Models : Listed(m)}
  <2>1. pod' = [pod EXCEPT !.pc = "next", !.left = listed]
    BY <1>4 DEF FetchAll
  <2>2. listed \in SUBSET Models /\ \A m \in Models : pod.image.manifest[m] # 0 => m \in listed
    BY DEF Listed
  <2> HIDE DEF listed
  <2>3. /\ pod' \in PodStates /\ pod'.pc = "next" /\ pod'.left = listed
        /\ pod'.container = pod.container /\ pod'.image = pod.image /\ pod'.volume = pod.volume
        /\ pod'.half = pod.half /\ pod'.engine = pod.engine
    BY <1>2, <2>1, <2>2 DEF PodStates
  <2> QED
    BY <1>1, <1>2, <2>2, <2>3 DEF PodInv, Complete, Verified
<1> QED
  BY <1>3, <1>4

LEMMA FetchOneKeeps ==
  ASSUME TypeInv, PodSound, FetchOne
  PROVE  pod' \in PodStates /\ PodInv(pod')
<1>1. pod.pc = "next" /\ ~In("none")
  BY DEF FetchOne, In
<1>2. pod \in PodStates /\ PodInv(pod) /\ Verified(pod) /\ pod.container = "fetch"
      /\ pod.gpu \in BOOLEAN
  BY <1>1, PodIs DEF PodSound, PodInv, PodStates
<1> DEFINE m == First(pod.left)
<1>3. CASE pod.left = {}
  <2>1. pod' = [pod EXCEPT !.pc = IF pod.gpu THEN "engine" ELSE "start",
                           !.container = IF pod.gpu THEN "engine" ELSE "api"]
    BY <1>3 DEF FetchOne
  <2>2. /\ pod' \in PodStates
        /\ \/ pod'.pc = "engine" /\ pod'.container = "engine"
           \/ pod'.pc = "start" /\ pod'.container = "api"
        /\ pod'.image = pod.image /\ pod'.volume = pod.volume
        /\ pod'.half = pod.half /\ pod'.engine = pod.engine
    BY <1>2, <2>1 DEF PodStates
  <2>3. Complete(pod')
    BY <1>2, <1>3, <2>2 DEF Complete, Verified
  <2> QED
    BY <1>2, <2>2, <2>3 DEF PodInv
<1>4. CASE pod.left # {} /\ pod.volume[m] = Expected(m)
  <2>1. pod' = [pod EXCEPT !.left = @ \ {m}]
    BY <1>4 DEF FetchOne
  <2>2. /\ pod' \in PodStates /\ pod'.pc = "next" /\ pod'.left = pod.left \ {m}
        /\ pod'.container = pod.container /\ pod'.image = pod.image /\ pod'.volume = pod.volume
        /\ pod'.half = pod.half /\ pod'.engine = pod.engine
    BY <1>1, <1>2, <2>1 DEF PodStates
  <2>3. Verified(pod')
    BY <1>2, <1>4, <2>2 DEF Verified, Expected
  <2> QED
    BY <1>2, <2>2, <2>3 DEF PodInv
<1>5. CASE pod.left # {} /\ pod.volume[m] # Expected(m)
  <2>1. pod' = [pod EXCEPT !.pc = "download", !.attempt = 1]
    BY <1>5 DEF FetchOne
  <2>2. 1 \in 0..Retries
    BY Numbers
  <2>3. /\ pod' \in PodStates /\ pod'.pc = "download" /\ pod'.left = pod.left
        /\ pod'.container = pod.container /\ pod'.image = pod.image /\ pod'.volume = pod.volume
        /\ pod'.half = pod.half /\ pod'.engine = pod.engine
    BY <1>2, <2>1, <2>2 DEF PodStates
  <2>4. Verified(pod')
    BY <1>2, <2>3 DEF Verified
  <2> QED
    BY <1>2, <1>5, <2>3, <2>4 DEF PodInv
<1> QED
  BY <1>3, <1>4, <1>5

LEMMA DownloadKeeps ==
  ASSUME TypeInv, PodSound, Download
  PROVE  pod' \in PodStates /\ PodInv(pod') /\ (used' = used \/ Fault)
<1> DEFINE m == First(pod.left)
<1>1. pod.pc = "download" /\ ~In("none") /\ (used' = used \/ Fault)
  BY DEF Download, In
<1>2. /\ pod \in PodStates /\ PodInv(pod) /\ Verified(pod) /\ pod.container = "fetch"
      /\ pod.left # {} /\ pod.left \in SUBSET Models /\ pod.attempt \in 0..Retries
  BY <1>1, PodIs DEF PodSound, PodInv, PodStates
<1>3. bucket[m] \in Content /\ -bucket[m] \in Content /\ 0 \in Content
  <2>1. m \in Models
    BY <1>2, FirstIs
  <2> QED
    BY <2>1, StillTyped, Numbers DEF Stores
<1> HIDE DEF m
<1>4. CASE \E k \in Content : pod' = [pod EXCEPT !.pc = "verify", !.staging = k]
  <2>1. PICK k \in Content : pod' = [pod EXCEPT !.pc = "verify", !.staging = k]
    BY <1>4
  <2>2. /\ pod' \in PodStates /\ pod'.pc = "verify" /\ pod'.left = pod.left
        /\ pod'.container = pod.container /\ pod'.image = pod.image /\ pod'.volume = pod.volume
        /\ pod'.half = pod.half /\ pod'.engine = pod.engine
    BY <1>2, <2>1 DEF PodStates
  <2>3. Verified(pod')
    BY <1>2, <2>2 DEF Verified
  <2> QED
    BY <1>1, <1>2, <2>2, <2>3 DEF PodInv
<1>5. CASE pod.attempt < Retries /\ pod' = [pod EXCEPT !.attempt = @ + 1, !.staging = 0]
  <2>1. pod.attempt + 1 \in 0..Retries
    BY <1>2, <1>5, Numbers
  <2>2. /\ pod' \in PodStates /\ pod'.pc = pod.pc /\ pod'.left = pod.left
        /\ pod'.container = pod.container /\ pod'.image = pod.image /\ pod'.volume = pod.volume
        /\ pod'.half = pod.half /\ pod'.engine = pod.engine
    BY <1>2, <1>3, <1>5, <2>1 DEF PodStates
  <2>3. Verified(pod')
    BY <1>2, <2>2 DEF Verified
  <2> QED
    BY <1>1, <1>2, <2>2, <2>3 DEF PodInv
<1>6. CASE Exit1
  BY <1>1, <1>6, BackOff
<1>7. \/ \E k \in Content : pod' = [pod EXCEPT !.pc = "verify", !.staging = k]
      \/ pod.attempt < Retries /\ pod' = [pod EXCEPT !.attempt = @ + 1, !.staging = 0]
      \/ Exit1
  BY <1>3 DEF Download, Exit1, m
<1> QED
  BY <1>1, <1>4, <1>5, <1>6, <1>7

LEMMA VerifyKeeps ==
  ASSUME TypeInv, PodSound, Verify
  PROVE  pod' \in PodStates /\ PodInv(pod')
<1> DEFINE m == First(pod.left)
<1>1. pod.pc = "verify" /\ ~In("none")
  BY DEF Verify, In
<1>2. /\ pod \in PodStates /\ PodInv(pod) /\ Verified(pod) /\ pod.container = "fetch"
      /\ pod.left # {} /\ pod.left \in SUBSET Models /\ pod.staging \in Content
      /\ pod.volume \in [Models -> Content] /\ pod.half = 0 /\ pod.engine = 0
  BY <1>1, PodIs DEF PodSound, PodInv, PodStates
<1>3. m \in Models /\ 0 \in Content
  BY <1>2, FirstIs, Numbers
<1> HIDE DEF m
<1>4. CASE pod.staging = Expected(m)
  <2> DEFINE volume == [pod.volume EXCEPT ![m] = pod.staging]
  <2>1. pod' = [pod EXCEPT !.pc = "next", !.staging = 0, !.left = @ \ {m}, !.volume = volume]
    BY <1>4 DEF Verify, m
  <2>2. volume \in Stores /\ volume[m] = Expected(m) /\ \A n \in Models \ {m} : volume[n] = pod.volume[n]
    BY <1>2, <1>3, <1>4 DEF Stores
  <2> HIDE DEF volume
  <2>3. /\ pod' \in PodStates /\ pod'.pc = "next" /\ pod'.left = pod.left \ {m}
        /\ pod'.container = pod.container /\ pod'.image = pod.image /\ pod'.volume = volume
        /\ pod'.half = pod.half /\ pod'.engine = pod.engine
    BY <1>2, <1>3, <2>1, <2>2 DEF PodStates
  <2>4. Verified(pod')
    BY <1>2, <2>2, <2>3 DEF Verified, Expected
  <2>5. MadeOf(pod'.half, pod'.volume[1]) /\ MadeOf(pod'.engine, pod'.volume[1])
    BY <1>2, <2>3 DEF MadeOf
  <2> QED
    BY <1>2, <2>3, <2>4, <2>5 DEF PodInv
<1>5. CASE pod.staging # Expected(m)
  BY <1>1, <1>5, BackOff DEF Verify, m
<1> QED
  BY <1>4, <1>5

(* The engine's container changes its own two files only.                  *)
LEMMA EngineKeeps ==
  ASSUME TypeInv, PodSound, BuildEngine \/ Convert \/ Build \/ EngineWritten
  PROVE  pod' \in PodStates /\ PodInv(pod')
<1> DEFINE v == pod.volume[1]
<1>1. ~In("none") /\ pod.pc \in {"engine", "convert", "build", "engine written"}
  BY DEF BuildEngine, Convert, Build, EngineWritten, In
<1>2. /\ pod \in PodStates /\ PodInv(pod) /\ pod.container = "engine" /\ Complete(pod)
      /\ v \in Content /\ v \in Int /\ -v \in Content /\ pod.half \in Content /\ -pod.half \in Content
      /\ MadeOf(pod.half, v) /\ MadeOf(pod.engine, v)
      /\ pod.half \in Int /\ pod.engine \in Int /\ 0 \in Content
  <2>1. pod \in PodStates /\ PodInv(pod)
    BY <1>1, PodIs DEF PodSound
  <2>2. pod.half \in Content /\ v \in Content
    BY <2>1, Numbers DEF PodStates, Stores
  <2> QED
    BY <1>1, <2>1, <2>2, PodIs, Numbers DEF PodInv
<1> DEFINE Moves(pc, container, half, engine) ==
             /\ pod' \in PodStates /\ pod'.pc = pc /\ pod'.container = container
             /\ pod'.half = half /\ pod'.engine = engine
             /\ pod'.image = pod.image /\ pod'.volume = pod.volume
<1>3. Complete(pod) /\ pod'.image = pod.image /\ pod'.volume = pod.volume => Complete(pod')
  BY DEF Complete
<1>4. CASE pod' = [pod EXCEPT !.pc = "start", !.container = "api"]
  <2>1. Moves("start", "api", pod.half, pod.engine)
    BY <1>2, <1>4 DEF PodStates
  <2> QED
    BY <1>2, <1>3, <2>1 DEF PodInv
<1>5. CASE Exit1
  BY <1>1, <1>5, BackOff
<1>6. CASE ~Rejected /\ pod.half = 0 /\ pod' = [pod EXCEPT !.pc = "convert", !.half = -v]
  <2>1. Moves("convert", "engine", -v, pod.engine)
    BY <1>2, <1>6 DEF PodStates
  <2>2. v > 0
    BY <1>2, <1>6 DEF Rejected
  <2>3. MadeOf(-v, v)
    BY <1>2, <2>2 DEF MadeOf
  <2> HIDE DEF v
  <2> QED
    BY <1>2, <1>3, <2>1, <2>2, <2>3 DEF PodInv, v
<1>7. CASE ~Rejected /\ pod.half > 0 /\ pod' = [pod EXCEPT !.pc = "build"]
  <2>1. Moves("build", "engine", pod.half, pod.engine)
    BY <1>2, <1>7 DEF PodStates
  <2>2. v > 0 /\ pod.half = v
    BY <1>2, <1>7 DEF Rejected, MadeOf
  <2> QED
    BY <1>2, <1>3, <2>1, <2>2 DEF PodInv
<1>8. CASE Convert
  <2>1. pod.pc = "convert" /\ pod' = [pod EXCEPT !.pc = "build", !.half = v]
    BY <1>8 DEF Convert, In
  <2>2. Moves("build", "engine", v, pod.engine)
    BY <1>2, <2>1 DEF PodStates
  <2>3. v > 0 /\ MadeOf(v, v)
    BY <1>2, <2>1 DEF PodInv, MadeOf
  <2> QED
    BY <1>2, <1>3, <2>2, <2>3 DEF PodInv
<1>9. CASE Build
  <2>1. pod.pc = "build" /\ pod' = [pod EXCEPT !.pc = "engine written", !.engine = -pod.half]
    BY <1>9 DEF Build, In
  <2>2. Moves("engine written", "engine", pod.half, -pod.half)
    BY <1>2, <2>1 DEF PodStates
  <2>3. pod.half = v /\ v > 0 /\ MadeOf(-pod.half, v)
    BY <1>2, <2>1 DEF PodInv, MadeOf
  <2> QED
    BY <1>2, <1>3, <2>2, <2>3 DEF PodInv
<1>10. CASE EngineWritten
  <2>1. /\ pod.pc = "engine written"
        /\ pod' = [pod EXCEPT !.pc = "start", !.container = "api", !.engine = pod.half]
    BY <1>10 DEF EngineWritten, In
  <2>2. Moves("start", "api", pod.half, pod.half)
    BY <1>2, <2>1 DEF PodStates
  <2> QED
    BY <1>2, <1>3, <2>2 DEF PodInv
<1> QED
  BY <1>4, <1>5, <1>6, <1>7, <1>8, <1>9, <1>10 DEF BuildEngine, NoTensorRT

LEMMA ApiKeeps ==
  ASSUME TypeInv, PodSound, StartApi \/ Crash \/ Restart
  PROVE  pod' \in PodStates /\ PodInv(pod')
<1>1. ~In("none")
  BY DEF StartApi, Crash, Restart, In
<1>2. pod \in PodStates /\ PodInv(pod) /\ pod.container \in {"migrate", "fetch", "engine", "api"}
  BY <1>1, PodIs DEF PodSound, PodStates
<1>3. CASE Crash
  BY <1>1, <1>3, BackOff DEF Crash
<1>4. CASE StartApi
  <2>1. pod.pc = "start" /\ pod' = [pod EXCEPT !.pc = "serving"]
    BY <1>4 DEF StartApi, In
  <2>2. /\ pod' \in PodStates /\ pod'.pc = "serving" /\ pod'.container = pod.container
        /\ pod'.image = pod.image /\ pod'.volume = pod.volume
        /\ pod'.half = pod.half /\ pod'.engine = pod.engine
    BY <1>2, <2>1 DEF PodStates
  <2> QED
    BY <1>2, <2>1, <2>2 DEF PodInv, Complete
<1>5. CASE Restart
  <2> DEFINE pc == IF pod.container = "api" THEN "start" ELSE pod.container
  <2>1. pod' = [pod EXCEPT !.pc = pc]
    BY <1>5 DEF Restart
  <2>2. \/ pc = "migrate" /\ pod.container = "migrate"
        \/ pc = "fetch" /\ pod.container = "fetch"
        \/ pc = "engine" /\ pod.container = "engine"
        \/ pc = "start" /\ pod.container = "api"
    BY <1>2
  <2> HIDE DEF pc
  <2>3. /\ pod' \in PodStates /\ pod'.pc = pc /\ pod'.container = pod.container
        /\ pod'.image = pod.image /\ pod'.volume = pod.volume
        /\ pod'.half = pod.half /\ pod'.engine = pod.engine
    BY <1>2, <2>1, <2>2 DEF PodStates
  <2> QED
    BY <1>2, <2>2, <2>3 DEF PodInv, Complete
<1> QED
  BY <1>3, <1>4, <1>5

LEMMA ReleaseIs ==
  ASSUME TypeInv, Release
  PROVE  /\ TypeInv' /\ UNCHANGED <<Repository, bucket, pod>>
         /\ registry \in [Models -> Entry] /\ manifest \in Stores
         /\ image' = [registry |-> registry, manifest |-> manifest, files |-> files,
                      doubtful |-> IF overlap THEN Models ELSE lost]
<1>1. /\ Readable(registry) /\ Readable(manifest) /\ UNCHANGED <<Repository, bucket, pod, used>>
      /\ image' = [registry |-> registry, manifest |-> manifest, files |-> files,
                   doubtful |-> IF overlap THEN Models ELSE lost]
  BY DEF Release, CIPasses
<1>2. registry \in [Models -> Entry]
  BY <1>1, StillTyped, ReadableIs
<1>3. manifest \in Stores
  <2>1. DOMAIN Broken = {}
    BY DEF Broken
  <2> QED
    BY <1>1, <2>1, StillTyped, Numbers DEF Readable
<1> DEFINE doubtful == IF overlap THEN Models ELSE lost
<1>4. doubtful \in SUBSET Models
  BY StillTyped
<1>5. image' = [registry |-> registry, manifest |-> manifest, files |-> files, doubtful |-> doubtful]
  BY <1>1
<1> HIDE DEF doubtful
<1>6. image' \in Images
  BY <1>2, <1>3, <1>4, <1>5, StillTyped DEF Images
<1>7. TypeInv'
  BY <1>1, <1>6, StillTyped, PodTypes
<1> QED
  BY <1>1, <1>2, <1>3, <1>7

LEMMA OverwriteIs ==
  ASSUME TypeInv, NEW m \in Models, Overwrite(m)
  PROVE  TypeInv' /\ UNCHANGED <<Repository, image, pod>>
<1>1. UNCHANGED <<Repository, image, pod, used>> /\ bucket' = [bucket EXCEPT ![m] = files[m]]
  BY DEF Overwrite
<1>2. bucket' \in Stores
  BY <1>1, StillTyped DEF Stores
<1> QED
  BY <1>1, <1>2, StillTyped, PodTypes

(* A new pod has an empty volume.                                          *)
LEMMA ScheduleIs ==
  ASSUME TypeInv, Schedule
  PROVE  /\ TypeInv' /\ UNCHANGED <<Repository, image>>
         /\ pod' \in PodStates /\ PodInv(pod') /\ pod'.image = image
<1>1. /\ UNCHANGED <<Repository, image, used>> /\ bucket' = image.files
  BY DEF Schedule
<1> DEFINE volume == [m \in Models |-> 0]
<1>2. PICK gpu \in BOOLEAN :
       pod' = [pc |-> "migrate", container |-> "migrate", gpu |-> gpu, image |-> image,
               volume |-> volume, staging |-> 0, left |-> {}, attempt |-> 0,
               half |-> 0, engine |-> 0]
  BY DEF Schedule
<1>3. 0 \in Content /\ 0 \in 0..Retries /\ 1 \in Models
  BY Numbers
<1>4. volume \in Stores /\ volume[1] = 0
  BY <1>3 DEF Stores
<1> HIDE DEF volume
<1>5. /\ pod' \in PodStates /\ pod'.pc = "migrate" /\ pod'.container = "migrate"
      /\ pod'.half = 0 /\ pod'.engine = 0 /\ pod'.volume = volume /\ pod'.image = image
  BY <1>2, <1>3, <1>4, StillTyped DEF PodStates
<1>6. PodInv(pod')
  BY <1>4, <1>5 DEF PodInv, MadeOf
<1>7. bucket' \in Stores
  BY <1>1, StillTyped DEF Images
<1>8. TypeInv'
  BY <1>1, <1>5, <1>7, StillTyped, PodTypes
<1> QED
  BY <1>1, <1>5, <1>6, <1>8

PodSteps == PodStep \/ Crash

LEMMA PodStepIs ==
  ASSUME TypeInv, PodSound, PodSteps
  PROVE  /\ TypeInv' /\ UNCHANGED <<Repository, image, bucket>>
         /\ pod' \in PodStates /\ PodInv(pod')
<1>1. pod' \in PodStates /\ PodInv(pod')
  BY MigrateKeeps, FetchAllKeeps, FetchOneKeeps, DownloadKeeps, VerifyKeeps, EngineKeeps, ApiKeeps
     DEF PodSteps, PodStep
<1>2. UNCHANGED <<Repository, image, bucket>> /\ (used' = used \/ Fault)
  BY MigrateKeeps, DownloadKeeps DEF PodSteps, PodStep, Migrate, FetchAll, FetchOne, Download, Verify, BuildEngine,
     Convert, Build, EngineWritten, StartApi, Crash, Restart, Alone
<1>3. TypeInv'
  BY <1>1, <1>2, PodMoves
<1> QED
  BY <1>1, <1>2, <1>3

ToolStep(t) ==
  \/ \E c \in Commands : Start(t, c)
  \/ Export(t) \/ Exported(t) \/ Load(t) \/ Open(t) \/ Write(t)
  \/ Replace(t) \/ Names(t) \/ Hash(t) \/ Record(t) \/ Kill(t)

LEMMA ToolStepIs ==
  ASSUME TypeInv, NEW t \in Tools, ToolStep(t)
  PROVE  TypeInv' /\ UNCHANGED Cluster
<1>1. TypeInv'
  BY TypesStart, ExportIs, ExportedIs, LoadIs, OpenIs, WriteIs, ReplaceIs, ManifestIs, KillIs
     DEF ToolStep
<1>2. UNCHANGED Cluster
  BY DEF ToolStep, Start, Export, Exported, Load, Open, Write, Replace, Names, Hash, Record, Kill
<1> QED
  BY <1>1, <1>2

LEMMA InitTypes == Init => TypeInv
<1> SUFFICES ASSUME Init PROVE TypeInv
  OBVIOUS
<1>1. 0 \in Content /\ 1 \in Content /\ Committed \subseteq Models
  <2>1. 0 \in 0..MaxCommands + 1 /\ 1 \in 0..MaxCommands + 1
    BY Numbers
  <2> QED
    BY <2>1, Numbers, DeliveryAssumption
<1>2. files \in Stores /\ bucket \in Stores /\ manifest \in Stores
  BY <1>1 DEF Init, Stores
<1>3. registry \in [Models -> Entry] /\ asIf \in [Models -> Entry]
  BY <1>1 DEF Init, Entry, Absent
<1>4. tmp \in SUBSET Docs /\ Cardinality(tmp) <= 1
  BY Singletons DEF Init
<1>5. tool \in [Tools -> ToolStates]
  BY DEF Init, ToolStates
<1>6. image \in Images
  BY <1>2, <1>3 DEF Init, Images
<1>7. used \in UsedStates /\ used.exports = 1 /\ used.commands = 0
  BY Numbers DEF Init, UsedStates
<1>8. TypeOK
  BY <1>2, <1>3, <1>4, <1>5, <1>6, <1>7 DEF Init, TypeOK, UsedStates, Docs
<1>9. Exporters = {}
  BY DEF Init, Exporters, At, Idle
<1>10. Counted
  BY <1>7, <1>9, FS_EmptySet DEF Counted
<1> QED
  BY <1>8, <1>10 DEF TypeInv

PodsKept == TypeInv /\ PodSound

LEMMA PodsKeep == PodsKept /\ [Next]_vars => PodsKept'
<1> SUFFICES ASSUME TypeInv, PodSound, [Next]_vars PROVE PodsKept'
  BY DEF PodsKept
<1>1. CASE UNCHANGED vars
  BY <1>1 DEF vars, PodsKept, TypeInv, TypeOK, Counted, Exporters, At, PodSound
<1>2. ASSUME NEW t \in Tools, ToolStep(t) PROVE PodsKept'
  BY <1>2, ToolStepIs DEF PodsKept, PodSound, Cluster
<1>3. CASE Release
  BY <1>3, ReleaseIs DEF PodsKept, PodSound
<1>4. ASSUME NEW m \in Models, Overwrite(m) PROVE PodsKept'
  BY <1>4, OverwriteIs DEF PodsKept, PodSound
<1>5. CASE Schedule
  BY <1>5, ScheduleIs DEF PodsKept, PodSound
<1>6. CASE PodSteps
  BY <1>6, PodStepIs DEF PodsKept, PodSound
<1> QED
  BY <1>1, <1>2, <1>3, <1>4, <1>5, <1>6 DEF Next, ToolStep, PodSteps, PodStep

THEOREM PodsAreKept == Spec => []PodsKept
<1>1. Init => PodsKept
  <2>1. NoPod \notin PodStates
    BY DEF NoPod, PodStates
  <2> QED
    BY <2>1, InitTypes DEF PodsKept, PodSound, Init
<1> QED
  BY <1>1, PodsKeep, PTL DEF Spec

(* The types of the repository, the tools, the image and the pod.          *)
THEOREM TypeCorrect == Spec => []TypeOK
<1>1. PodsKept => TypeOK
  BY DEF PodsKept, TypeInv
<1> QED
  BY <1>1, PodsAreKept, PTL

(* fetch_artifacts.py: a pod that serves has every file of its manifest    *)
(* with the recorded checksum, for any number of models, retries, failed   *)
(* downloads and killed containers, whatever the bucket held meanwhile.    *)
THEOREM OnlyVerifiedIsServed == Spec => []ServedIsVerified
<1>1. PodsKept => ServedIsVerified
  <2> SUFFICES ASSUME PodsKept, In("serving"), NEW m \in Models, Listed(m)
               PROVE  pod.volume[m] = Expected(m)
    BY DEF ServedIsVerified
  <2>1. pod.pc = "serving" /\ ~In("none")
    BY DEF In
  <2>2. PodInv(pod)
    BY <2>1, PodIs DEF PodsKept, PodSound
  <2> QED
    BY <2>1, <2>2 DEF PodInv, Complete, Listed, Expected
<1> QED
  BY <1>1, PodsAreKept, PTL

-----------------------------------------------------------------------------
(* The registry.  As long as no tool was at work on what another one read  *)
(* or wrote, the tools' changes are one after the other.                   *)

OneDefault(doc) == \A m, n \in Models : m # n => ~(doc[m].is_default /\ doc[n].is_default)

(* The files of m are newer than the registry's entry because of t.        *)
Past(t, m) == Exporting(t) /\ ~At(t, "export") /\ tool[t].cmd.model = m

OneSaves == \A t, o \in Tools : Saving(t) /\ Saving(o) => t = o
OneAhead == \A t, o \in Tools, m \in Models : Past(t, m) /\ Past(o, m) => t = o

(* What a tool is about to save is still the right document, and nobody    *)
(* else has the temporary file.                                            *)
SavesTheChange ==
  \A t \in Tools : Saving(t) =>
    /\ tool[t].doc = Changed(tool[t].cmd, registry, files)
    /\ \A o \in Tools \ {t} : ~Past(o, tool[t].cmd.model)
    /\ ~At(t, "open") => tool[t].fd = "tmp"
    /\ At(t, "write") => tmp = {Broken}
    /\ At(t, "replace") => tmp = {tool[t].doc}

(* The registry has the weights that are on disk.                          *)
WeightsAreThere ==
  \A m \in Models \ lost :
    registry[m].status = "active" /\ (\A t \in Tools : ~Past(t, m))
      => registry[m].weights = files[m]

RepoInv ==
  /\ registry = asIf /\ OneDefault(registry)
  /\ OneSaves /\ OneAhead /\ SavesTheChange /\ WeightsAreThere

RepoSound == overlap \/ RepoInv

(* A step that changes neither the registry nor the files, and with which  *)
(* a tool at most ends.                                                    *)
LEMMA NothingNew ==
  ASSUME TypeInv, RepoInv, UNCHANGED <<files, registry, tmp, asIf>>, lost \subseteq lost',
         \A t \in Tools : /\ Saving(t)' => Saving(t) /\ tool'[t] = tool[t]
                          /\ \A m \in Models : Past(t, m)' => Past(t, m)
                          /\ \A m \in Models : Past(t, m) => Past(t, m)' \/ m \in lost'
  PROVE  RepoInv'
<1>1. registry' = asIf' /\ OneDefault(registry')
  BY DEF RepoInv
<1>2. OneSaves'
  BY DEF RepoInv, OneSaves
<1>3. OneAhead'
  BY DEF RepoInv, OneAhead
<1>4. SavesTheChange'
  <2> SUFFICES ASSUME NEW t \in Tools, Saving(t)'
               PROVE  /\ tool'[t].doc = Changed(tool'[t].cmd, registry', files')
                      /\ \A o \in Tools \ {t} : ~Past(o, tool[t].cmd.model)'
                      /\ ~At(t, "open")' => tool'[t].fd = "tmp"
                      /\ At(t, "write")' => tmp' = {Broken}
                      /\ At(t, "replace")' => tmp' = {tool'[t].doc}
    BY DEF SavesTheChange
  <2>1. Saving(t) /\ tool'[t] = tool[t]
    OBVIOUS
  <2>2. \A o \in Tools \ {t} : ~Past(o, tool[t].cmd.model)
    BY <2>1 DEF RepoInv, SavesTheChange
  <2>3. tool[t].cmd.model \in Models
    BY <2>1, ToolIs, CommandIs DEF TypeInv, Saving
  <2>4. \A o \in Tools \ {t} : ~Past(o, tool[t].cmd.model)'
    <3> SUFFICES ASSUME NEW o \in Tools \ {t}, Past(o, tool[t].cmd.model)' PROVE FALSE
      OBVIOUS
    <3>1. Past(o, tool[t].cmd.model)' => \E m \in Models : m = tool[t].cmd.model /\ Past(o, m)'
      BY <2>1, <2>3 DEF Past
    <3> QED
      BY <2>2, <3>1
  <2> QED
    BY <2>1, <2>4 DEF RepoInv, SavesTheChange, At
<1>5. WeightsAreThere'
  BY DEF RepoInv, WeightsAreThere
<1> QED
  BY <1>1, <1>2, <1>3, <1>4, <1>5 DEF RepoInv

(* A tool that ends, or does something else than a change.                 *)
LEMMA OneEnds ==
  ASSUME TypeInv, RepoInv, UNCHANGED <<files, registry, tmp, asIf>>, lost \subseteq lost',
         NEW t \in Tools, \A o \in Tools \ {t} : tool'[o] = tool[o],
         ~Saving(t)', ~Exporting(t)' \/ At(t, "export")',
         \A m \in Models : Past(t, m) => m \in lost'
  PROVE  RepoInv'
<1>1. ASSUME NEW o \in Tools
      PROVE  /\ Saving(o)' => Saving(o) /\ tool'[o] = tool[o]
             /\ \A m \in Models : Past(o, m)' => Past(o, m)
             /\ \A m \in Models : Past(o, m) => Past(o, m)' \/ m \in lost'
  <2>1. CASE o = t
    BY <2>1 DEF Past
  <2>2. CASE o # t
    BY <2>2 DEF Past, Saving, Exporting, At
  <2> QED
    BY <2>1, <2>2
<1> QED
  BY <1>1, NothingNew

LEMMA StartRepo ==
  ASSUME TypeInv, RepoInv, NEW t \in Tools, NEW c \in Commands, Start(t, c)
  PROVE  RepoInv'
<1>1. /\ tool[t].pc = "idle" /\ UNCHANGED <<files, registry, tmp, asIf, lost>>
      /\ tool' = [tool EXCEPT ![t] =
           [pc |-> CASE c.kind = "prepare" -> "export" [] c.kind = "manifest" -> "names"
                     [] OTHER -> "load",
            cmd |-> c, weights |-> 0]]
  BY DEF Start, At, Goto
<1>2. /\ \A o \in Tools \ {t} : tool'[o] = tool[o]
      /\ tool'[t].pc \in {"export", "names", "load"} /\ tool'[t].cmd = c
      /\ c.kind = "prepare" => tool'[t].pc = "export"
  BY <1>1, StillTyped
<1>3. ~Saving(t)' /\ (~Exporting(t)' \/ At(t, "export")')
  BY <1>2 DEF Saving, Exporting, At
<1>4. \A m \in Models : ~Past(t, m)
  BY <1>1 DEF Past, Exporting, At
<1> QED
  BY <1>1, <1>2, <1>3, <1>4, OneEnds

LEMMA ManifestRepo ==
  ASSUME TypeInv, RepoInv, NEW t \in Tools, Names(t) \/ Hash(t) \/ Record(t)
  PROVE  RepoInv'
<1>1. /\ tool[t].pc \in {"names", "hash", "record"} /\ tool'[t].pc \in {"hash", "record", "idle"}
      /\ tool'[t].pc # "idle" => tool'[t].cmd.kind = "manifest"
      /\ \A o \in Tools \ {t} : tool'[o] = tool[o]
      /\ UNCHANGED <<files, registry, tmp, asIf, lost>>
  BY ManifestIs
<1>2. tool[t].cmd.kind = "manifest"
  BY <1>1, ToolIs DEF TypeInv
<1>3. ~Saving(t)' /\ ~Exporting(t)'
  BY <1>1 DEF Saving, Exporting, At
<1>4. \A m \in Models : ~Past(t, m)
  BY <1>2 DEF Past, Exporting
<1> QED
  BY <1>1, <1>3, <1>4, OneEnds

LEMMA KillRepo ==
  ASSUME TypeInv, RepoInv, NEW t \in Tools, Kill(t)
  PROVE  RepoInv'
<1>1. /\ tool'[t] = Idle
      /\ \A o \in Tools \ {t} : tool'[o] = tool[o]
      /\ UNCHANGED <<files, registry, tmp, asIf>> /\ lost \subseteq lost'
      /\ tool[t].cmd.kind = "prepare" /\ ~At(t, "export") => tool[t].cmd.model \in lost'
  BY KillIs
<1>2. ~Saving(t)' /\ ~Exporting(t)'
  BY <1>1 DEF Saving, Exporting, At, Idle
<1>3. \A m \in Models : Past(t, m) => m \in lost'
  BY <1>1 DEF Past, Exporting
<1> QED
  BY <1>1, <1>2, <1>3, OneEnds

(* Nobody saves and nobody else exports this model: the step crossed       *)
(* nobody.                                                                 *)
LEMMA ExportRepo ==
  ASSUME TypeInv, RepoInv, NEW t \in Tools, Export(t), ~overlap'
  PROVE  RepoInv'
<1> DEFINE c == tool[t].cmd
<1>1. /\ tool[t].pc = "export" /\ c.kind = "prepare" /\ c.model \in Models
      /\ tool'[t].pc = "exported" /\ tool'[t].cmd = c
  BY ExportIs, CommandIs
<1>2. /\ UNCHANGED <<registry, tmp, asIf, lost>>
      /\ \E k : files' = [files EXCEPT ![c.model] = k]
      /\ \A o \in Tools \ {t} : tool'[o] = tool[o]
      /\ ~Crossed(t, c.model)
  BY StillTyped DEF Export, Goto
<1>3. \A o \in Tools : ~Saving(o) /\ ~Saving(o)'
  BY <1>1, <1>2 DEF Crossed, Saving
<1>4. \A o \in Tools \ {t} : ~Past(o, c.model) /\ \A m \in Models : Past(o, m)' <=> Past(o, m)
  BY <1>2 DEF Crossed, Past, Exporting, At
<1>5. \A m \in Models : /\ Past(t, m)' <=> m = c.model
                        /\ ~Past(t, m)
                        /\ m # c.model => files'[m] = files[m]
  BY <1>1, <1>2, StillTyped DEF Past, Exporting, At, Stores
<1>6. OneAhead'
  BY <1>4, <1>5 DEF RepoInv, OneAhead
<1>7. WeightsAreThere'
  BY <1>1, <1>2, <1>4, <1>5 DEF RepoInv, WeightsAreThere
<1> QED
  BY <1>2, <1>3, <1>6, <1>7 DEF RepoInv, OneSaves, SavesTheChange, OneDefault

(* The change a command makes of the registry is not about other models'   *)
(* files.                                                                  *)
LEMMA ExportedRepo ==
  ASSUME TypeInv, RepoInv, NEW t \in Tools, Exported(t)
  PROVE  RepoInv'
<1> DEFINE c == tool[t].cmd
<1>1. /\ tool[t].pc = "exported" /\ c.kind = "prepare" /\ c.model \in Models
      /\ tool'[t].pc = "load" /\ tool'[t].cmd = c
      /\ \A o \in Tools \ {t} : tool'[o] = tool[o]
  BY ExportedIs, CommandIs
<1>2. /\ UNCHANGED <<registry, tmp, asIf, lost>>
      /\ \E k : files' = [files EXCEPT ![c.model] = k]
  BY DEF Exported
<1>3. \A m \in Models \ {c.model} : files'[m] = files[m]
  BY <1>2, StillTyped DEF Stores
<1>4. \A o \in Tools : /\ Saving(o)' <=> Saving(o)
                       /\ Saving(o) => o # t
                       /\ \A m : Past(o, m)' <=> Past(o, m)
  <2>1. /\ ~Saving(t) /\ ~Saving(t)'
        /\ \A m : Past(t, m) <=> m = c.model
        /\ \A m : Past(t, m)' <=> m = c.model
    BY <1>1 DEF Saving, Past, Exporting, At
  <2>2. \A o \in Tools \ {t} : (Saving(o)' <=> Saving(o)) /\ \A m : Past(o, m)' <=> Past(o, m)
    BY <1>1 DEF Saving, Past, Exporting, At
  <2> QED
    BY <2>1, <2>2
<1>5. Past(t, c.model)
  BY <1>1 DEF Past, Exporting, At
<1>6. OneSaves' /\ OneAhead'
  BY <1>4 DEF RepoInv, OneSaves, OneAhead
<1>7. SavesTheChange'
  <2> SUFFICES ASSUME NEW o \in Tools, Saving(o)'
               PROVE  /\ tool'[o].doc = Changed(tool'[o].cmd, registry', files')
                      /\ \A p \in Tools \ {o} : ~Past(p, tool[o].cmd.model)'
                      /\ ~At(o, "open")' => tool'[o].fd = "tmp"
                      /\ At(o, "write")' => tmp' = {Broken}
                      /\ At(o, "replace")' => tmp' = {tool'[o].doc}
    BY DEF SavesTheChange
  <2>1. Saving(o) /\ o # t /\ tool'[o] = tool[o]
    BY <1>1, <1>4
  <2>2. tool[o].cmd.model # c.model
    BY <1>5, <2>1 DEF RepoInv, SavesTheChange
  <2>3. tool[o].cmd.model \in Models
    BY <2>1, ToolIs, CommandIs DEF TypeInv, Saving
  <2>4. Changed(tool[o].cmd, registry, files') = Changed(tool[o].cmd, registry, files)
    BY <1>3, <2>2, <2>3 DEF Changed
  <2>5. \A p \in Tools \ {o} : ~Past(p, tool[o].cmd.model)'
    <3>1. \A p \in Tools \ {o} : ~Past(p, tool[o].cmd.model)
      BY <2>1 DEF RepoInv, SavesTheChange
    <3>2. \A p \in Tools \ {o} : Past(p, tool[o].cmd.model)' => Past(p, tool[o].cmd.model)
      BY <1>1, <1>5, <2>1, <2>2 DEF Past, Exporting, At
    <3> QED
      BY <3>1, <3>2
  <2> QED
    BY <1>2, <2>1, <2>4, <2>5 DEF RepoInv, SavesTheChange, At
<1>8. WeightsAreThere'
  BY <1>2, <1>3, <1>4, <1>5 DEF RepoInv, WeightsAreThere
<1> QED
  BY <1>2, <1>6, <1>7, <1>8 DEF RepoInv, OneDefault

(* The tool takes its copy when no other tool is at work on it.            *)
LEMMA LoadRepo ==
  ASSUME TypeInv, RepoInv, NEW t \in Tools, Load(t), ~overlap'
  PROVE  RepoInv'
<1> DEFINE c == tool[t].cmd
<1>1. /\ tool[t].pc = "load" /\ c \in Changes /\ c.model \in Models
      /\ \A o \in Tools \ {t} : tool'[o] = tool[o]
      /\ UNCHANGED <<files, registry, tmp, asIf>>
      /\ ~Crossed(t, c.model)
  BY LoadIs, CommandIs
<1>2. CASE /\ lost' = lost /\ tool'[t].pc = "open" /\ tool'[t].cmd = c
           /\ tool'[t].doc = Changed(c, registry, files)
  <2>1. /\ \A o \in Tools \ {t} : ~Saving(o) /\ ~Saving(o)'
        /\ \A o \in Tools \ {t} : ~(Exporting(o) /\ tool[o].cmd.model = c.model)
        /\ Saving(t)'
    BY <1>1, <1>2 DEF Crossed, Saving
  <2>2. \A o \in Tools, m \in Models : Past(o, m)' <=> Past(o, m)
    <3>1. \A m \in Models : Past(t, m)' <=> Past(t, m)
      BY <1>1, <1>2 DEF Past, Exporting, At
    <3>2. \A o \in Tools \ {t}, m \in Models : Past(o, m)' <=> Past(o, m)
      BY <1>1 DEF Past, Exporting, At
    <3> QED
      BY <3>1, <3>2
  <2>3. OneSaves' /\ OneAhead'
    BY <2>1, <2>2 DEF RepoInv, OneSaves, OneAhead
  <2>4. SavesTheChange'
    <3> SUFFICES ASSUME NEW o \in Tools, Saving(o)'
                 PROVE  /\ tool'[o].doc = Changed(tool'[o].cmd, registry', files')
                        /\ \A p \in Tools \ {o} : ~Past(p, tool[o].cmd.model)'
                        /\ ~At(o, "open")' => tool'[o].fd = "tmp"
                        /\ At(o, "write")' => tmp' = {Broken}
                        /\ At(o, "replace")' => tmp' = {tool'[o].doc}
      BY DEF SavesTheChange
    <3>1. o = t
      BY <2>1
    <3>2. \A p \in Tools \ {t} : ~Past(p, c.model)'
      <4>1. \A p \in Tools \ {t} : ~Past(p, c.model)
        BY <2>1 DEF Past
      <4>2. \A p \in Tools \ {t} : Past(p, c.model)' => Past(p, c.model)
        BY <1>1, <1>2 DEF Past, Exporting, At
      <4> QED
        BY <4>1, <4>2
    <3> QED
      BY <1>1, <1>2, <3>1, <3>2 DEF At
  <2>5. WeightsAreThere'
    BY <1>1, <1>2, <2>2 DEF RepoInv, WeightsAreThere
  <2> QED
    BY <1>1, <2>3, <2>4, <2>5 DEF RepoInv, OneDefault
<1>3. CASE /\ tool'[t] = Idle /\ lost \subseteq lost'
           /\ c.kind = "prepare" => c.model \in lost'
  <2>1. ~Saving(t)' /\ ~Exporting(t)'
    BY <1>3 DEF Saving, Exporting, At, Idle
  <2>2. \A m \in Models : Past(t, m) => m \in lost'
    BY <1>3 DEF Past, Exporting
  <2> QED
    BY <1>1, <1>3, <2>1, <2>2, OneEnds
<1> QED
  BY <1>2, <1>3, LoadIs

(* The one tool that saves goes on: what is Past stays so.                 *)
LEMMA SaverGoesOn ==
  ASSUME TypeInv, RepoInv, NEW t \in Tools, Saving(t),
         UNCHANGED <<files, registry, asIf, lost>>,
         tool'[t].pc \in {"write", "replace"}, tool'[t].cmd = tool[t].cmd,
         tool'[t].doc = tool[t].doc, tool'[t].fd = "tmp",
         At(t, "write")' => tmp' = {Broken}, At(t, "replace")' => tmp' = {tool[t].doc},
         \A o \in Tools \ {t} : tool'[o] = tool[o]
  PROVE  RepoInv'
<1>1. /\ \A o \in Tools \ {t} : ~Saving(o) /\ ~Saving(o)'
      /\ Saving(t)'
  BY DEF RepoInv, OneSaves, Saving
<1>2. \A o \in Tools, m \in Models : Past(o, m)' <=> Past(o, m)
  <2>1. \A m \in Models : Past(t, m)' <=> Past(t, m)
    BY DEF Past, Exporting, Saving, At
  <2>2. \A o \in Tools \ {t}, m \in Models : Past(o, m)' <=> Past(o, m)
    BY DEF Past, Exporting, At
  <2> QED
    BY <2>1, <2>2
<1>3. OneSaves' /\ OneAhead'
  BY <1>1, <1>2 DEF RepoInv, OneSaves, OneAhead
<1>4. SavesTheChange'
  <2> SUFFICES ASSUME NEW o \in Tools, Saving(o)'
               PROVE  /\ tool'[o].doc = Changed(tool'[o].cmd, registry', files')
                      /\ \A p \in Tools \ {o} : ~Past(p, tool[o].cmd.model)'
                      /\ ~At(o, "open")' => tool'[o].fd = "tmp"
                      /\ At(o, "write")' => tmp' = {Broken}
                      /\ At(o, "replace")' => tmp' = {tool'[o].doc}
    BY DEF SavesTheChange
  <2>1. o = t
    BY <1>1
  <2>2. tool[t].doc = Changed(tool[t].cmd, registry, files)
    BY DEF RepoInv, SavesTheChange
  <2>3. \A p \in Tools \ {t} : ~Past(p, tool[t].cmd.model)'
    <3>1. \A p \in Tools \ {t} : ~Past(p, tool[t].cmd.model)
      BY DEF RepoInv, SavesTheChange
    <3>2. \A p \in Tools \ {t} : Past(p, tool[t].cmd.model)' => Past(p, tool[t].cmd.model)
      BY DEF Past, Exporting, At
    <3> QED
      BY <3>1, <3>2
  <2> QED
    BY <2>1, <2>2, <2>3
<1>5. WeightsAreThere'
  BY <1>2 DEF RepoInv, WeightsAreThere
<1> QED
  BY <1>3, <1>4, <1>5 DEF RepoInv, OneDefault

LEMMA OpenRepo ==
  ASSUME TypeInv, RepoInv, NEW t \in Tools, Open(t)
  PROVE  RepoInv'
<1>1. /\ tool[t].pc = "open" /\ tool'[t].pc = "write" /\ tool'[t].cmd = tool[t].cmd
      /\ tool'[t].doc = tool[t].doc /\ tool'[t].fd = "tmp" /\ tmp' = {Broken}
      /\ \A o \in Tools \ {t} : tool'[o] = tool[o]
  BY OpenIs
<1>2. UNCHANGED <<files, registry, asIf, lost>>
  BY DEF Open
<1> QED
  BY <1>1, <1>2, SaverGoesOn DEF Saving, At

LEMMA WriteRepo ==
  ASSUME TypeInv, RepoInv, NEW t \in Tools, Write(t)
  PROVE  RepoInv'
<1>1. /\ tool[t].pc = "write" /\ tool'[t].pc = "replace" /\ tool'[t].cmd = tool[t].cmd
      /\ tool'[t].doc = tool[t].doc /\ tool'[t].fd = tool[t].fd
      /\ \A o \in Tools \ {t} : tool'[o] = tool[o]
  BY WriteIs
<1>2. tool[t].fd = "tmp" /\ tmp = {Broken}
  BY <1>1 DEF RepoInv, SavesTheChange, Saving, At
<1>3. /\ UNCHANGED <<files, registry, asIf, lost>>
      /\ \E old \in tmp : \E new \in Over(old, tool[t].doc) : tmp' = {new}
  BY <1>2 DEF Write
<1>4. tmp' = {tool[t].doc}
  BY <1>2, <1>3 DEF Over
<1> QED
  BY <1>1, <1>2, <1>3, <1>4, SaverGoesOn DEF Saving, At

(* With one default at most, what a command saves is what it changes in    *)
(* one step.                                                               *)
LEMMA OneStep ==
  ASSUME TypeInv, RepoInv, NEW c \in Changes, registry \in [Models -> Entry]
  PROVE  LET d == Changed(c, registry, files)
         IN  /\ d \in [Models -> Entry] /\ AsOneStep(c, d) = d /\ OneDefault(d)
             /\ c.kind = "retire" => d[c.model].status = "retired"
             /\ c.kind # "retire" => d[c.model].weights = files[c.model]
             /\ \A m \in Models \ {c.model} :
                  d[m].status = registry[m].status /\ d[m].weights = registry[m].weights
<1> DEFINE d == Changed(c, registry, files)
           k == c.model
<1>1. /\ k \in Models /\ d \in [Models -> Entry] /\ asIf = registry /\ OneDefault(registry)
      /\ files \in Stores
  BY ChangedIs, CommandIs, StillTyped DEF RepoInv
<1>4. Effect(c, registry, files, d)
  BY <1>1, ChangedIs
<1>2. CASE c.kind = "retire"
  <2>1. /\ d[k] = [registry[k] EXCEPT !.status = "retired"]
        /\ \A m \in Models \ {k} : d[m] = registry[m]
    BY <1>2, <1>4, Zenon DEF Effect 
  <2>2. d[k].status = "retired" /\ d[k].is_default = registry[k].is_default
    <3>1. registry[k] \in Entry
      BY <1>1
    <3> QED
      BY <2>1, <3>1 DEF Entry
  <2> HIDE DEF d
  <2>3. OneDefault(d)
    BY <1>1, <2>1, <2>2 DEF OneDefault
  <2>4. \A m \in Models \ {k} : [asIf[m] EXCEPT !.is_default = @ /\ ~d[k].is_default] = d[m]
    <3> SUFFICES ASSUME NEW m \in Models \ {k}
                 PROVE  [registry[m] EXCEPT !.is_default = @ /\ ~d[k].is_default] = registry[m]
      BY <1>1, <2>1
    <3> DEFINE b == registry[m].is_default /\ ~d[k].is_default
    <3>1. registry[m] \in Entry
      OBVIOUS
    <3>2. b = registry[m].is_default
      <4>1. ~(registry[m].is_default /\ registry[k].is_default)
        BY <1>1 DEF OneDefault
      <4>2. registry[m].is_default \in BOOLEAN
        BY <3>1 DEF Entry
      <4> QED
        BY <2>2, <4>1, <4>2
    <3>3. [registry[m] EXCEPT !.is_default = b] = registry[m]
      <4> HIDE DEF b
      <4> QED
        BY <3>1, <3>2 DEF Entry
    <3> QED
      BY <3>3 DEF b
  <2>5. AsOneStep(c, d) = d
    BY <1>1, <2>4 DEF AsOneStep
  <2> QED
    BY <1>1, <1>2, <2>1, <2>2, <2>3, <2>5 DEF d
<1>3. CASE c.kind # "retire"
  <2>1. /\ d[k] = [status |-> "active", is_default |-> c.is_default, weights |-> files[k]]
        /\ \A m \in Models \ {k} :
             /\ d[m].status = registry[m].status /\ d[m].weights = registry[m].weights
             /\ d[m] = [registry[m] EXCEPT !.is_default = @ /\ ~c.is_default]
    BY <1>3, <1>4, Zenon DEF Effect 
  <2>2. d[k].is_default = c.is_default /\ d[k].weights = files[k] /\ c.is_default \in BOOLEAN
    BY <1>3, <2>1, CommandIs
  <2> HIDE DEF d
  <2>3. \A m \in Models \ {k} : d[m].is_default = (registry[m].is_default /\ ~c.is_default)
    <3> SUFFICES ASSUME NEW m \in Models \ {k}
                 PROVE  d[m].is_default = (registry[m].is_default /\ ~c.is_default)
      OBVIOUS
    <3>1. registry[m] \in Entry /\ (~c.is_default) \in BOOLEAN
      BY <2>2
    <3>2. [registry[m] EXCEPT !.is_default = @ /\ ~c.is_default].is_default
            = (registry[m].is_default /\ ~c.is_default)
      BY <3>1, EntryIs, Zenon
    <3> QED
      BY <2>1, <3>2, Zenon
  <2>4. OneDefault(d)
    <3> SUFFICES ASSUME NEW m \in Models, NEW n \in Models, m # n, d[m].is_default, d[n].is_default
                 PROVE  FALSE
      BY DEF OneDefault
    <3>1. CASE m = k \/ n = k
      BY <2>2, <2>3, <3>1
    <3>2. CASE m # k /\ n # k
      BY <1>1, <2>3, <3>2 DEF OneDefault
    <3> QED
      BY <3>1, <3>2
  <2>5. \A m \in Models \ {k} : [asIf[m] EXCEPT !.is_default = @ /\ ~d[k].is_default] = d[m]
    BY <1>1, <2>1, <2>2
  <2>6. AsOneStep(c, d) = d
    BY <1>1, <2>5 DEF AsOneStep
  <2> QED
    BY <1>1, <1>3, <2>1, <2>2, <2>4, <2>6 DEF d
<1> QED
  BY <1>2, <1>3

LEMMA ReplaceRepo ==
  ASSUME TypeInv, RepoInv, registry \in [Models -> Entry], NEW t \in Tools, Replace(t)
  PROVE  RepoInv' /\ registry' \in [Models -> Entry]
<1> DEFINE c == tool[t].cmd
           d == Changed(c, registry, files)
<1>1. /\ tool[t].pc = "replace" /\ c \in Changes /\ c.model \in Models /\ tool'[t] = Idle
      /\ files' = files
      /\ \A o \in Tools \ {t} : \/ tool'[o] = tool[o]
                               \/ /\ tool[o].pc \in {"write", "replace"}
                                  /\ tool'[o].pc = tool[o].pc /\ tool'[o].cmd = tool[o].cmd
                                  /\ tool'[o].doc = tool[o].doc
  BY ReplaceIs, CommandIs
<1>2. tmp = {tool[t].doc} /\ tool[t].doc = d
  BY <1>1 DEF RepoInv, SavesTheChange, Saving, At
<1>3. /\ registry' = d /\ asIf' = AsOneStep(c, d)
      /\ lost' = IF c.kind = "retire" THEN lost ELSE lost \ {c.model}
  BY <1>2, ReplaceIs
<1>4. /\ d \in [Models -> Entry] /\ AsOneStep(c, d) = d /\ OneDefault(d)
      /\ c.kind = "retire" => d[c.model].status = "retired"
      /\ c.kind # "retire" => d[c.model].weights = files[c.model]
      /\ \A m \in Models \ {c.model} :
           d[m].status = registry[m].status /\ d[m].weights = registry[m].weights
  BY <1>1, OneStep
<1> HIDE DEF d
<1>5. \A o \in Tools : ~Saving(o)'
  <2>1. ~Saving(t)'
    BY <1>1 DEF Saving, Idle
  <2>2. \A o \in Tools \ {t} : ~Saving(o)
    BY <1>1 DEF RepoInv, OneSaves, Saving
  <2>3. \A o \in Tools \ {t} : ~Saving(o)'
    BY <1>1, <2>2 DEF Saving
  <2> QED
    BY <2>1, <2>3
<1>6. \A o \in Tools, m \in Models : /\ Past(o, m)' => Past(o, m)
                                     /\ Past(o, m) => Past(o, m)' \/ m = c.model
  <2>1. \A m \in Models : ~Past(t, m)' /\ (Past(t, m) => m = c.model)
    BY <1>1 DEF Past, Exporting, At, Idle
  <2>2. \A o \in Tools \ {t}, m \in Models : Past(o, m)' <=> Past(o, m)
    BY <1>1 DEF Past, Exporting, At
  <2> QED
    BY <2>1, <2>2
<1>7. OneSaves' /\ SavesTheChange'
  BY <1>5 DEF OneSaves, SavesTheChange
<1>8. OneAhead'
  BY <1>6 DEF RepoInv, OneAhead
<1>9. WeightsAreThere'
  <2> SUFFICES ASSUME NEW m \in Models \ lost', d[m].status = "active",
                      \A o \in Tools : ~Past(o, m)'
               PROVE  d[m].weights = files[m]
    BY <1>1, <1>3 DEF WeightsAreThere
  <2>1. CASE m = c.model
    BY <1>4, <2>1
  <2>2. CASE m # c.model
    <3>1. m \notin lost /\ registry[m].status = "active" /\ \A o \in Tools : ~Past(o, m)
      BY <1>3, <1>4, <1>6, <2>2
    <3> QED
      BY <1>4, <2>2, <3>1 DEF RepoInv, WeightsAreThere
  <2> QED
    BY <2>1, <2>2
<1> QED
  BY <1>3, <1>4, <1>7, <1>8, <1>9 DEF RepoInv

LEMMA ToolRepo ==
  ASSUME TypeInv, RepoSound, NEW t \in Tools, ToolStep(t)
  PROVE  RepoSound'
<1>1. overlap \in BOOLEAN /\ overlap' \in BOOLEAN
  <2>1. TypeInv'
    BY ToolStepIs
  <2> QED
    BY <2>1 DEF TypeInv, TypeOK
<1>2. overlap => overlap'
  BY <1>1, Zenon DEF ToolStep, Start, Export, Exported, Load, Open, Write, Replace, Names, Hash,
     Record, Kill
<1> SUFFICES ASSUME ~overlap' PROVE RepoInv'
  BY DEF RepoSound
<1>3. RepoInv
  BY <1>2 DEF RepoSound
<1>4. registry \in [Models -> Entry]
  BY <1>3, StillTyped DEF RepoInv
<1> QED
  BY <1>3, <1>4, StartRepo, ExportRepo, ExportedRepo, LoadRepo, OpenRepo, WriteRepo, ReplaceRepo,
     ManifestRepo, KillRepo DEF ToolStep

LEMMA StillRepo ==
  ASSUME RepoSound, UNCHANGED Repository
  PROVE  RepoSound'
  BY DEF RepoSound, RepoInv, OneDefault, OneSaves, OneAhead, SavesTheChange, WeightsAreThere,
     Past, Exporting, Saving, At, Repository

(* What an image holds of a model that is in its manifest was registered.  *)
Honest(i) ==
  \A m \in Models \ i.doubtful :
    i.registry[m].status = "active" /\ i.manifest[m] # 0 => i.registry[m].weights = i.manifest[m]

ImagesSound == Honest(image) /\ (pod \in PodStates => Honest(pod.image))

(* CI compares the manifest with the files, and the tools have ended.      *)
LEMMA ReleaseHonest ==
  ASSUME TypeInv, RepoSound, Release
  PROVE  Honest(image')
<1>1. image' = [registry |-> registry, manifest |-> manifest, files |-> files,
                doubtful |-> IF overlap THEN Models ELSE lost]
  BY ReleaseIs
<1>2. /\ \A t \in Tools : At(t, "idle")
      /\ Problems(registry, files) = {}
      /\ \A m \in Models : manifest[m] # 0 /\ files[m] # 0 => manifest[m] = files[m]
  BY DEF Release, CIPasses, ManifestMatches
<1> SUFFICES ASSUME NEW m \in Models, m \notin image'.doubtful,
                    registry[m].status = "active", manifest[m] # 0
             PROVE  registry[m].weights = manifest[m]
  BY <1>1 DEF Honest
<1>3. ~overlap /\ m \notin lost
  BY <1>1
<1>4. files[m] # 0
  BY <1>2 DEF Problems
<1>5. \A t \in Tools : ~Past(t, m)
  BY <1>2 DEF Past, Exporting
<1>6. registry[m].weights = files[m]
  BY <1>3, <1>5 DEF RepoSound, RepoInv, WeightsAreThere
<1> QED
  BY <1>2, <1>4, <1>6

(* A pod keeps the image it was made from.                                 *)
LEMMA SameImage ==
  ASSUME pod \in PodStates, PodSteps
  PROVE  pod'.image = pod.image
<1>1. CASE Migrate \/ FetchAll
  BY <1>1 DEF PodStates, Migrate, FetchAll, Exit1
<1>2. CASE FetchOne
  BY <1>2 DEF PodStates, FetchOne
<1>3. CASE Download
  BY <1>3 DEF PodStates, Download, Exit1
<1>4. CASE Verify
  BY <1>4 DEF PodStates, Verify, Exit1
<1>5. CASE BuildEngine
  BY <1>5 DEF PodStates, BuildEngine, NoTensorRT, Exit1
<1>6. CASE Convert \/ Build \/ EngineWritten
  BY <1>6 DEF PodStates, Convert, Build, EngineWritten
<1>7. CASE StartApi \/ Crash \/ Restart
  BY <1>7 DEF PodStates, StartApi, Crash, Restart
<1> QED
  BY <1>1, <1>2, <1>3, <1>4, <1>5, <1>6, <1>7 DEF PodSteps, PodStep

Inv == PodsKept /\ RepoSound /\ ImagesSound

LEMMA InitInv == Init => Inv
<1> SUFFICES ASSUME Init PROVE Inv
  OBVIOUS
<1>1. PodsKept
  <2>1. NoPod \notin PodStates
    BY DEF NoPod, PodStates
  <2> QED
    BY <2>1, InitTypes DEF PodsKept, PodSound, Init
<1>2. \A t \in Tools : /\ ~Saving(t)
                       /\ \A m \in Models : ~Past(t, m)
  BY DEF Init, Saving, Past, Exporting, At, Idle
<1>3. OneDefault(registry)
  BY DEF Init, OneDefault, Absent
<1>4. WeightsAreThere
  BY DEF Init, WeightsAreThere, Absent
<1>5. RepoInv
  BY <1>2, <1>3, <1>4 DEF Init, RepoInv, OneSaves, OneAhead, SavesTheChange
<1>6. Honest(image)
  BY DEF Init, Honest, Absent
<1>7. pod \notin PodStates
  BY DEF Init, NoPod, PodStates
<1> QED
  BY <1>1, <1>5, <1>6, <1>7 DEF Inv, RepoSound, ImagesSound

LEMMA NextKeeps == Inv /\ [Next]_vars => Inv'
<1> SUFFICES ASSUME PodsKept, RepoSound, ImagesSound, [Next]_vars PROVE Inv'
  BY DEF Inv
<1>1. PodsKept' /\ TypeInv /\ PodSound
  BY PodsKeep DEF PodsKept
<1>2. CASE UNCHANGED vars
  BY <1>1, <1>2, StillRepo DEF vars, Repository, Inv, ImagesSound
<1>3. ASSUME NEW t \in Tools, ToolStep(t) PROVE Inv'
  BY <1>1, <1>3, ToolStepIs, ToolRepo DEF Cluster, Inv, ImagesSound
<1>4. CASE Release
  BY <1>1, <1>4, ReleaseIs, ReleaseHonest, StillRepo DEF Inv, ImagesSound
<1>5. ASSUME NEW m \in Models, Overwrite(m) PROVE Inv'
  BY <1>1, <1>5, OverwriteIs, StillRepo DEF Inv, ImagesSound
<1>6. CASE Schedule
  BY <1>1, <1>6, ScheduleIs, StillRepo DEF Inv, ImagesSound
<1>7. CASE PodSteps
  <2>1. pod'.image = pod.image /\ pod \in PodStates
    <3>1. ~In("none")
      BY <1>7 DEF PodSteps, PodStep, Migrate, FetchAll, FetchOne, Download, Verify, BuildEngine, Convert,
         Build, EngineWritten, StartApi, Crash, Restart, In
    <3>2. pod \in PodStates
      BY <1>1, <3>1, PodIs
    <3>3. pod'.image = pod.image
      BY <1>7, <3>2, SameImage
    <3> QED
      BY <3>2, <3>3
  <2> QED
    BY <1>1, <1>7, <2>1, PodStepIs, StillRepo DEF Inv, ImagesSound
<1> QED
  BY <1>2, <1>3, <1>4, <1>5, <1>6, <1>7 DEF Next, ToolStep, PodSteps, PodStep

(* The inductive invariant: how far the pod has come, that the tools'      *)
(* changes of the registry follow each other, and that an image that was   *)
(* let through CI agrees with its registry.                                *)
THEOREM Invariance == Spec => []Inv
  BY InitInv, NextKeeps, PTL DEF Spec

(* models/registry.py: unless a tool was at work on what another one read  *)
(* or wrote, the registry file is at any moment what the completed changes *)
(* make of it, wherever a tool is killed; for any number of tools.         *)
THEOREM ChangesAreAtomic == Spec => []RegistryIsAtomic
<1>1. Inv => RegistryIsAtomic
  BY DEF Inv, RepoSound, RepoInv, RegistryIsAtomic
<1> QED
  BY <1>1, Invariance, PTL

(* A serving pod serves each model with the weights it was registered      *)
(* with, from the model's file or from the engine that was built of it.    *)
THEOREM OnlyRegisteredIsServed == Spec => []ServedIsRegistered
<1>1. Inv => ServedIsRegistered
  <2> SUFFICES ASSUME Inv, In("serving"), NEW m \in Models \ pod.image.doubtful,
                      pod.image.registry[m].status = "active", Listed(m)
               PROVE  Serves(m) = pod.image.registry[m].weights
    BY DEF ServedIsRegistered
  <2>1. ~In("none") /\ pod.pc = "serving"
    BY DEF In
  <2>2. pod \in PodStates /\ PodInv(pod) /\ Honest(pod.image)
        /\ pod.engine \in Int /\ pod.volume[1] \in Int
    BY <2>1, PodIs DEF Inv, PodsKept, PodSound, ImagesSound
  <2>3. pod.volume[m] = pod.image.manifest[m] /\ pod.image.manifest[m] # 0
    BY <2>1, <2>2 DEF PodInv, Complete, Listed
  <2>4. pod.volume[m] = pod.image.registry[m].weights
    BY <2>2, <2>3 DEF Honest
  <2>5. pod.engine > 0 => pod.engine = pod.volume[1]
    <3> DEFINE made == pod.engine
               weights == pod.volume[1]
    <3>1. made \in Int /\ weights \in Int /\ MadeOf(made, weights)
      BY <2>2 DEF PodInv
    <3> HIDE DEF made, weights
    <3>2. made > 0 => made = weights
      BY <3>1 DEF MadeOf
    <3> QED
      BY <3>2 DEF made, weights
  <2> QED
    BY <2>4, <2>5 DEF Serves, Deserialises
<1> QED
  BY <1>1, Invariance, PTL
=============================================================================
