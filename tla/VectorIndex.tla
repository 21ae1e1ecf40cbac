---------------------------- MODULE VectorIndex ----------------------------
(***************************************************************************)
(* The similarity index in Postgres (api/services/pgvector_index.py) as    *)
(* the index and search endpoints of several replicas drive it             *)
(* (api/routers/similarity.py).  Each step of a request runs up to its     *)
(* next await; a database session commits in one step.                     *)
(***************************************************************************)
EXTENDS Integers

CONSTANTS
  Replicas,
  Requests,    \* requests in flight at the same time
  Items,       \* ids of indexed images
  Dims,        \* lengths of the vectors the embedding models give
  Configured,  \* settings.similarity_dimension
  MaxEvents    \* bound: outages and restarts

ASSUME VectorAssumption ==
  /\ Configured \in Nat \ {0} /\ Dims \subseteq Nat \ {0}
  /\ MaxEvents \in Nat

VARIABLES
  serving,    \* the replicas that have started
  dimension,  \* PgVectorSimilarityIndex.dimension of a replica
  ready,      \* PgVectorSimilarityIndex._ready
  available,  \* DatabaseService._available
  table,      \* similarity_vectors: its column's dimension (0: no table), its ids
  up,         \* Postgres answers
  pc,         \* <<call, phase>> of a request, or <<answer, "done">>
  req,        \* what a request asks of which replica
  stored,     \* history: the ids of images a caller was told are indexed
  events,     \* history: outages and restarts so far
  struck      \* history: which of Upsets have happened

replica == <<serving, dimension, ready, available>>
world == <<up, events>>
vars == <<replica, table, world, pc, req, stored, struck>>

Upsets ==
  { "overlap",     \* a request was under way while another resized the index
    "interrupted", \* Postgres or the replica stopped while one resized it
    "blind",       \* a request went on although Postgres had not counted for it
    "foreign" }    \* replicas took the index to be of different lengths, or
                   \* one was restarted and takes it to be the configured one

Calls == {"count", "drop", "reset", "insert", "query", "recount"}
Outcomes == {"stored", "found", "empty", "mismatch", "failed"}
Places ==
  (Calls \X {"run", "creating", "created"})
    \cup (Outcomes \X {"done"}) \cup {<<"idle", "done">>}
Widths == Dims \cup {Configured}
Asks ==
  [at : Replicas, kind : {"index", "search"}, dim : Dims, id : Items, hoped : BOOLEAN]
NoRequest == [at |-> {}, kind |-> "none", dim |-> 0, id |-> {}, hoped |-> FALSE]

TypeOK ==
  /\ serving \subseteq Replicas
  /\ dimension \in [Replicas -> Widths]
  /\ ready \in [Replicas -> BOOLEAN]
  /\ available \in [Replicas -> BOOLEAN]
  /\ table \in [dim : Widths \cup {0}, ids : SUBSET Items]
  /\ up \in BOOLEAN /\ events \in 0 .. MaxEvents
  /\ pc \in [Requests -> Places]
  /\ req \in [Requests -> Asks \cup {NoRequest}]
  /\ stored \subseteq Items
  /\ struck \subseteq Upsets

Init ==
  /\ serving = {}
  /\ dimension = [r \in Replicas |-> Configured]
  /\ ready = [r \in Replicas |-> FALSE]
  /\ available = [r \in Replicas |-> FALSE]
  /\ table = [dim |-> 0, ids |-> {}]
  /\ up = TRUE /\ events = 0
  /\ pc = [q \in Requests |-> <<"idle", "done">>]
  /\ req = [q \in Requests |-> NoRequest]
  /\ stored = {} /\ struck = {}

-----------------------------------------------------------------------------
Done(q) == pc[q][2] = "done"

(* A request goes on with what it asks, or is answered.                    *)
Enter(q, ask, place) ==
  /\ pc' = [pc EXCEPT ![q] = place]
  /\ req' = [req EXCEPT ![q] = IF place[2] = "done" THEN NoRequest ELSE ask]

Goto(q, place) == Enter(q, req[q], place)
Width(q) == dimension[req[q].at]
Ready(q) == ready[req[q].at]

(* insert() and query() check the vector's length against the replica's.   *)
Fits(ask) == dimension[ask.at] = ask.dim

(* What follows when ensure_schema() returns False.                        *)
Without(ask, call) ==
  CASE call = "recount" -> <<"stored", "done">>
    [] call = "query" -> <<"found", "done">>
    [] call = "count" /\ ask.kind = "search" -> <<"empty", "done">>
    [] OTHER -> <<IF Fits(ask) THEN "failed" ELSE "mismatch", "done">>

(* A call starts with ensure_schema(): up to its first await, or to the    *)
(* statement itself when the replica believes the table to be there.       *)
Ensured(ask, call, believed) ==
  IF believed THEN <<call, "run">>
  ELSE IF available[ask.at] THEN <<call, "creating">>
  ELSE Without(ask, call)

(* insert() checks the length first, query() the schema.                   *)
Insert(q, believed) ==
  Goto(q, IF Fits(req[q]) THEN Ensured(req[q], "insert", believed)
          ELSE <<"mismatch", "done">>)

Query(q, believed) ==
  Goto(q, IF believed /\ ~ Fits(req[q]) THEN <<"mismatch", "done">>
          ELSE Ensured(req[q], "query", believed))

\* Mutant: the index is resized whatever it holds.
ResizesAnyway(q, empty) == ~ Fits(req[q])

\* Mutant: the index never takes the size of its first vector.
NeverResizes(q, empty) == FALSE

Resizes(q, empty) == empty /\ ~ Fits(req[q])

NotReady(r) == [ready EXCEPT ![r] = FALSE]

(* reset() returns at once without a database; otherwise the replica       *)
(* changes its dimension before it drops the table.                        *)
Reset(q) ==
  IF available[req[q].at]
  THEN /\ dimension' = [dimension EXCEPT ![req[q].at] = req[q].dim]
       /\ ready' = NotReady(req[q].at)
       /\ Goto(q, <<"drop", "run">>)
  ELSE Insert(q, Ready(q)) /\ UNCHANGED <<dimension, ready>>

(* The first count() of index_image() or search() has answered.            *)
Counted(q, empty) ==
  \/ /\ req[q].kind = "index" /\ Resizes(q, empty)
     /\ Reset(q)
  \/ /\ req[q].kind = "index" /\ ~ Resizes(q, empty)
     /\ Insert(q, Ready(q))
     /\ UNCHANGED <<dimension, ready>>
  \/ /\ req[q].kind = "search"
     /\ IF empty THEN Goto(q, <<"empty", "done">>) ELSE Query(q, Ready(q))
     /\ UNCHANGED <<dimension, ready>>

-----------------------------------------------------------------------------
(* ensure_schema()                                                         *)

(* CREATE TABLE IF NOT EXISTS, with this replica's dimension.              *)
WithTable(width) ==
  IF table.dim = 0 THEN [dim |-> width, ids |-> {}] ELSE table

Create(q) ==
  /\ pc[q][2] = "creating" /\ up
  /\ table' = WithTable(Width(q))
  /\ Goto(q, <<pc[q][1], "created">>)
  /\ UNCHANGED <<replica, world>>

(* Of several that create the table at a time, one may lose.               *)
Contended(me) ==
  \/ table.dim = 0 /\ (Replicas \ serving) \ {me} # {}
  \/ \E p \in Requests \ {me} : pc[p][2] \in {"creating", "created"}

CreateFails(q) ==
  /\ pc[q][2] = "creating"
  /\ ~ up \/ Contended(q)
  /\ \/ pc[q][1] = "count" /\ Counted(q, TRUE)
     \/ /\ pc[q][1] = "reset" /\ Insert(q, Ready(q))
        /\ UNCHANGED <<dimension, ready>>
     \/ /\ pc[q][1] \notin {"count", "reset"}
        /\ Goto(q, Without(req[q], pc[q][1]))
        /\ UNCHANGED <<dimension, ready>>
  /\ UNCHANGED <<serving, available, table, world>>

Created(q) ==
  /\ pc[q][2] = "created"
  /\ ready' = [ready EXCEPT ![req[q].at] = TRUE]
  /\ \/ pc[q][1] = "reset" /\ Insert(q, TRUE)
     \/ pc[q][1] = "query" /\ Query(q, TRUE)
     \/ pc[q][1] \notin {"reset", "query"} /\ Goto(q, <<pc[q][1], "run">>)
  /\ UNCHANGED <<serving, dimension, available, table, world>>

-----------------------------------------------------------------------------
(* The endpoints.                                                          *)

Empty == table.ids = {}

(* The image has been embedded; index_image() or search() calls count().   *)
Begin(q, ask) ==
  /\ Done(q) /\ ask.at \in serving
  /\ Enter(q, ask, Ensured(ask, "count", ready[ask.at]))
  /\ UNCHANGED <<replica, table, world>>

Runs(q, call) == pc[q] = <<call, "run">> /\ up

Count(q) ==
  /\ Runs(q, "count") /\ table.dim # 0
  /\ Counted(q, Empty)
  /\ UNCHANGED <<serving, available, table, world>>

(* The rest of reset(): DROP TABLE, then ensure_schema().                  *)
Drop(q) ==
  /\ Runs(q, "drop")
  /\ table' = [dim |-> 0, ids |-> {}]
  /\ IF ~ Ready(q) /\ available[req[q].at] THEN Goto(q, <<"reset", "creating">>)
     ELSE Insert(q, Ready(q))
  /\ UNCHANGED <<replica, world>>

InsertRow(q) ==
  /\ Runs(q, "insert") /\ table.dim = req[q].dim
  /\ table' = [table EXCEPT !.ids = @ \cup {req[q].id}]
  /\ Goto(q, Ensured(req[q], "recount", Ready(q)))
  /\ UNCHANGED <<replica, world>>

Recount(q) ==
  /\ Runs(q, "recount") /\ table.dim # 0
  /\ Goto(q, <<"stored", "done">>)
  /\ UNCHANGED <<replica, table, world>>

Find(q) ==
  /\ Runs(q, "query") /\ table.dim = req[q].dim
  /\ Goto(q, <<"found", "done">>)
  /\ UNCHANGED <<replica, table, world>>

(* A statement fails: no database, no table, or a column of another width. *)
Fail(q) ==
  /\ pc[q][2] = "run"
  /\ \/ ~ up
     \/ pc[q][1] # "drop" /\ table.dim = 0
     \/ pc[q][1] \in {"insert", "query"} /\ table.dim # req[q].dim
  /\ Goto(q, <<"failed", "done">>)
  /\ UNCHANGED <<replica, table, world>>

-----------------------------------------------------------------------------
(* Replicas and the database.                                              *)

(* lifespan(): connect(), then ensure_schema(), before any request.        *)
Boot(r) ==
  /\ r \notin serving
  /\ serving' = serving \cup {r}
  /\ available' = [available EXCEPT ![r] = up]
  /\ \/ /\ up
        /\ table' = WithTable(dimension[r])
        /\ ready' = [ready EXCEPT ![r] = TRUE]
     \/ /\ ~ up \/ Contended(r)
        /\ UNCHANGED <<ready, table>>
  /\ UNCHANGED <<dimension, pc, req, world>>

(* A health probe's ping() sets _available.                                *)
Ping(r) ==
  /\ r \in serving
  /\ available' = [available EXCEPT ![r] = up]
  /\ UNCHANGED <<serving, dimension, ready, table, pc, req, world>>

(* A replica is stopped with the requests it serves.                       *)
Crash(r) ==
  /\ r \in serving /\ events < MaxEvents
  /\ serving' = serving \ {r}
  /\ dimension' = [dimension EXCEPT ![r] = Configured]
  /\ ready' = [ready EXCEPT ![r] = FALSE]
  /\ available' = [available EXCEPT ![r] = FALSE]
  /\ pc' = [q \in Requests |-> IF req[q].at = r THEN <<"failed", "done">> ELSE pc[q]]
  /\ req' = [q \in Requests |-> IF req[q].at = r THEN NoRequest ELSE req[q]]
  /\ events' = events + 1
  /\ UNCHANGED <<table, up>>

Outage ==
  /\ up /\ events < MaxEvents
  /\ up' = FALSE /\ events' = events + 1
  /\ UNCHANGED <<replica, table, pc, req>>

Recovery ==
  /\ ~ up /\ up' = TRUE
  /\ UNCHANGED <<replica, table, pc, req, events>>

IndexAsk(r, dim, id) ==
  [at |-> r, kind |-> "index", dim |-> dim, id |-> id, hoped |-> FALSE]

(* Whoever searches a replica that has the table hopes to find what has    *)
(* been stored.                                                            *)
SearchAsk(r, dim, id) ==
  [at |-> r, kind |-> "search", dim |-> dim, id |-> id,
   hoped |-> stored # {} /\ ready[r]]

Step ==
  \/ \E q \in Requests :
       \/ \E r \in Replicas, dim \in Dims, id \in Items :
            Begin(q, IndexAsk(r, dim, id)) \/ Begin(q, SearchAsk(r, dim, id))
       \/ Create(q) \/ CreateFails(q) \/ Created(q)
       \/ Count(q) \/ Drop(q) \/ InsertRow(q) \/ Recount(q) \/ Find(q)
       \/ Fail(q)
  \/ \E r \in Replicas : Boot(r) \/ Ping(r) \/ Crash(r)
  \/ Outage \/ Recovery

Answers(q, answer) == ~ Done(q) /\ pc'[q] = <<answer, "done">>

(* 201: the caller of an index request has been told.                      *)
Told == {req[q].id : q \in {p \in Requests : Answers(p, "stored")}}

Resizing == {q \in Requests : pc[q][1] \in {"drop", "reset"}}

Stopped == serving \ serving'

Uncounted(q) ==
  \/ Done(q) /\ Done(q)' /\ pc[q] # pc'[q]
  \/ pc[q] = <<"count", "creating">> /\ ~ up

Overlap == \E q \in Resizing, p \in Requests : p # q /\ ~ Done(p)

Happening ==
  {kind \in Upsets :
     \/ kind = "interrupted" /\ \E q \in Resizing : ~ up \/ req[q].at \in Stopped
     \/ kind = "blind" /\ \E q \in Requests : Uncounted(q)
     \/ kind = "foreign" /\
          (Stopped # {} \/ \E r, s \in serving : dimension[r] # dimension[s])}

(* After an overlap no property promises anything: the other upsets are    *)
(* not told apart any more.                                                *)
Known == IF "overlap" \in struck \/ Overlap THEN Upsets ELSE struck \cup Happening

Next == Step /\ stored' = stored \cup Told /\ struck' = Known

Spec == Init /\ [][Next]_vars

-----------------------------------------------------------------------------
(* Properties.                                                             *)

(* "Attach a label ...; store it so future searches can find it"           *)
(* (api/routers/similarity.py): an image whose indexing was acknowledged   *)
(* is in the table, whatever replicas, outages and restarts do since, if   *)
(* no request came in the way of one that resized the index and none took  *)
(* a database that did not answer for an empty one.                        *)
StoredIsKept == struck \cap {"overlap", "blind"} = {} => stored \subseteq table.ids

(* "every replica reads and writes one index": a vector is refused for its *)
(* length only when the index holds vectors of another length, or the      *)
(* replica takes Postgres to be down, and will not resize an empty index.  *)
(* "index_size: 0 means nothing has been indexed yet": a search that finds *)
(* the index empty began before anything was indexed.                      *)
AnswersAreReal ==
  [][\A q \in Requests :
       /\ struck' \cap {"overlap", "interrupted", "foreign"} = {}
            /\ Answers(q, "mismatch") /\ available[req[q].at] =>
              table.ids # {} /\ table.dim # req[q].dim
       /\ struck' \cap {"overlap", "blind"} = {} /\ Answers(q, "empty") =>
            ~ req[q].hoped]_vars
=============================================================================
