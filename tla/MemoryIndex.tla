---------------------------- MODULE MemoryIndex ----------------------------
(***************************************************************************)
(* The similarity index an API process keeps in memory, the default        *)
(* backend (api/services/similarity_index.py), as the endpoints of         *)
(* api/routers/similarity.py use it.  get_similarity_index() is a plain    *)
(* function, so FastAPI runs it in a thread: several requests may be in it *)
(* at once.  What an endpoint does with the index it got has no await that *)
(* yields and is one step.                                                 *)
(*                                                                         *)
(* A vector is the image it was computed from.                             *)
(***************************************************************************)
EXTENDS Naturals, Sequences

CONSTANTS
  Requests,
  Items,     \* ids of images
  Dims,      \* lengths of the vectors the embedding models give
  Default,   \* dimension of a new SimilarityIndex
  MaxAsked   \* bound: requests so far

MemoryAssumption ==
  Default \in Nat \ {0} /\ Dims \subseteq Nat \ {0} /\ MaxAsked \in Nat

VARIABLES
  disk,     \* similarity_index.npz and similarity_index.json
  built,    \* the SimilarityIndex objects, oldest first
  current,  \* _index: one of them, 0 is None
  pc, ask,  \* a request, and what it asks
  use,      \* the object a request has its hands on
  told,     \* history: the images whose indexing was acknowledged
  asked,    \* how many requests there were
  raced     \* history: requests met in get_similarity_index()

vars == <<disk, built, current, pc, ask, use, told, asked, raced>>

(* save() writes the vectors, then the metadata: killed in between, it     *)
(* leaves the vectors of one save with the metadata of another.            *)
Lists == UNION {[1 .. n -> Items] : n \in 0 .. 2}
Saves == [dimension : Dims, ids : Lists]
NoFile == [vectors |-> "none"]
Disks == {NoFile} \cup [vectors : Saves, meta : Saves]

Asks == [kind : {"index"}, id : Items, dim : Dims] \cup [kind : {"search"}, dim : Dims]
NoAsk == [kind |-> "none"]
Places == {"idle", "resolve", "build", "load", "install", "check", "return", "ready"}

TypeOK ==
  /\ disk \in Disks
  /\ \A k \in DOMAIN built :
       /\ built[k].dimension \in Dims \cup {Default}
       /\ built[k].width \in Dims \cup {Default}
       /\ built[k].vectors \in Seq(Items) /\ built[k].items \in Seq(Items)
  /\ current \in 0 .. Len(built)
  /\ pc \in [Requests -> Places]
  /\ ask \in [Requests -> Asks \cup {NoAsk}]
  /\ use \in [Requests -> 0 .. Len(built)]
  /\ told \subseteq Items /\ asked \in 0 .. MaxAsked /\ raced \in BOOLEAN

Init ==
  /\ disk \in Disks
  /\ built = <<>> /\ current = 0
  /\ pc = [q \in Requests |-> "idle"]
  /\ ask = [q \in Requests |-> NoAsk]
  /\ use = [q \in Requests |-> 0]
  /\ told = {} /\ asked = 0 /\ raced = FALSE

Goto(q, place) == pc' = [pc EXCEPT ![q] = place]
At(q, place) == pc[q] = place

(* After a race nothing is promised, and no more requests come (a bound).   *)
Begin(q, a) ==
  /\ At(q, "idle") /\ asked < MaxAsked /\ ~ raced
  /\ Goto(q, "resolve")
  /\ ask' = [ask EXCEPT ![q] = a]
  /\ asked' = asked + 1
  /\ UNCHANGED <<disk, built, current, use, told, raced>>

-----------------------------------------------------------------------------
(* get_similarity_index()                                                  *)

Building == {q \in Requests : pc[q] \in {"build", "load", "install", "check"}}

Resolve(q) ==
  /\ At(q, "resolve")
  /\ Goto(q, IF current = 0 THEN "build" ELSE "return")
  /\ raced' = (raced \/ Building # {})
  /\ UNCHANGED <<disk, built, current, ask, use, told, asked>>

Cleared(dimension) ==
  [dimension |-> dimension, width |-> dimension, vectors |-> <<>>, items |-> <<>>]

Build(q) ==
  /\ At(q, "build")
  /\ built' = Append(built, Cleared(Default))
  /\ current' = Len(built) + 1
  /\ Goto(q, "load")
  /\ UNCHANGED <<disk, ask, use, told, asked, raced>>

(* load() of what _index is by now: without both files, nothing to do.     *)
Load(q) ==
  /\ At(q, "load")
  /\ use' = [use EXCEPT ![q] = current]
  /\ Goto(q, IF disk = NoFile THEN "return" ELSE "install")
  /\ UNCHANGED <<disk, built, current, ask, told, asked, raced>>

Loaded ==
  [dimension |-> disk.meta.dimension, width |-> disk.vectors.dimension,
   vectors |-> disk.vectors.ids, items |-> disk.meta.ids]

Install(q) ==
  /\ At(q, "install")
  /\ built' = [built EXCEPT ![use[q]] = Loaded]
  /\ Goto(q, "check")
  /\ UNCHANGED <<disk, current, ask, use, told, asked, raced>>

(* The two files are from different saves.                                 *)
(* Mutant: whatever was loaded is served. *)
NeverInconsistent(index) == FALSE

Inconsistent(index) == Len(index.vectors) # Len(index.items)

Check(q) ==
  LET index == built[use[q]] IN
  /\ At(q, "check")
  /\ built' = IF Inconsistent(index)
              THEN [built EXCEPT ![use[q]] = Cleared(index.dimension)] ELSE built
  /\ Goto(q, "return")
  /\ UNCHANGED <<disk, current, ask, use, told, asked, raced>>

Return(q) ==
  /\ At(q, "return")
  /\ use' = [use EXCEPT ![q] = current]
  /\ Goto(q, "ready")
  /\ UNCHANGED <<disk, built, current, ask, told, asked, raced>>

-----------------------------------------------------------------------------
(* The endpoints.                                                          *)

(* The first vector decides how long the vectors are.                      *)
Sized(index, dim) ==
  IF index.items = <<>> /\ index.dimension # dim THEN Cleared(dim) ELSE index

(* add() checks the length, vstack() that of the vectors there are.        *)
Takes(index, dim) == index.dimension = dim /\ index.width = dim

Added(index, id) ==
  [index EXCEPT !.vectors = Append(@, id), !.items = Append(@, id)]

Answered(q) ==
  /\ Goto(q, "idle")
  /\ ask' = [ask EXCEPT ![q] = NoAsk]
  /\ use' = [use EXCEPT ![q] = 0]

IndexImage(q) ==
  LET sized == Sized(built[use[q]], ask[q].dim) IN
  /\ At(q, "ready") /\ ask[q].kind = "index"
  /\ IF Takes(sized, ask[q].dim)
     THEN /\ built' = [built EXCEPT ![use[q]] = Added(sized, ask[q].id)]
          /\ told' = told \cup {ask[q].id}
     ELSE built' = [built EXCEPT ![use[q]] = sized] /\ UNCHANGED told
  /\ Answered(q)
  /\ UNCHANGED <<disk, current, asked, raced>>

(* What a search may return: items with the vectors they are found by.     *)
Hits(index) ==
  {<<index.items[k], index.vectors[k]>> : k \in DOMAIN index.items \cap DOMAIN index.vectors}

(* It changes nothing.                                                     *)
Search(q) ==
  /\ At(q, "ready") /\ ask[q].kind = "search"
  /\ Answered(q)
  /\ UNCHANGED <<disk, built, current, told, asked, raced>>

Next ==
  \E q \in Requests :
    \/ \E a \in Asks : Begin(q, a)
    \/ Resolve(q) \/ Build(q) \/ Load(q) \/ Install(q) \/ Check(q) \/ Return(q)
    \/ IndexImage(q) \/ Search(q)

Spec == Init /\ [][Next]_vars

-----------------------------------------------------------------------------
(* Two saves of the same size, which load() cannot tell from one.          *)
Mixed ==
  /\ disk # NoFile
  /\ Len(disk.vectors.ids) = Len(disk.meta.ids)
  /\ disk.vectors.ids # disk.meta.ids

(* "refusing to serve is better than returning results attributed to the   *)
(* wrong image", "store it so future searches can find it": a request that *)
(* has its hands on the index gets every image back that was acknowledged, *)
(* and each by its own vector, unless requests met while the index was     *)
(* made or its files are two saves of the same size.                       *)
HitsAreTheirOwn ==
  ~ raced /\ ~ Mixed =>
    \A q \in Requests :
      At(q, "ready") =>
        /\ \A hit \in Hits(built[use[q]]) : hit[1] = hit[2]
        /\ \A id \in told : <<id, id>> \in Hits(built[use[q]])
=============================================================================
