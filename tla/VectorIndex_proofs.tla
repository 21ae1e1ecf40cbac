------------------------- MODULE VectorIndex_proofs ------------------------
(* Proofs about VectorIndex: the types of its variables, what the answers  *)
(* of its requests mean, and that no acknowledged image is lost; with      *)
(* vectors of one length, not even when requests overlap.  And about       *)
(* MemoryIndex: its types, and that hits are found by their own vectors.   *)
EXTENDS MCVectorIndex, Sequences, TLAPS

-----------------------------------------------------------------------------
(* Types.                                                                  *)

Spaces == [dim : Widths \cup {0}, ids : SUBSET Items]

Starts == {<<"count", "creating">>, <<"count", "created">>}

(* A request under way asks something of a replica that serves, one that   *)
(* drops the table is at the statement, and one that hopes to find         *)
(* something began when its replica had counted.                           *)
Sited(phase, aim) ==
  /\ phase \in Places
  /\ phase[2] # "done" =>
       /\ aim \in Asks /\ aim.at \in serving
       /\ phase[1] = "drop" => phase[2] = "run"
       /\ aim.hoped => stored # {} /\ phase \notin Starts

TypeInv ==
  /\ TypeOK
  /\ table.dim = 0 => table.ids = {}
  /\ \A q \in Requests : Sited(pc[q], req[q])

(* Every other request stays where it is.                                  *)
Alone(q) == \A p \in Requests \ {q} : pc'[p] = pc[p] /\ req'[p] = req[p]

History == stored' = stored \cup Told /\ struck' = Known

LEMMA HistoryIsTyped ==
  ASSUME TypeInv, History
  PROVE  /\ stored' \subseteq Items /\ stored \subseteq stored'
         /\ struck' \subseteq Upsets /\ struck \subseteq struck'
<1>1. Told \subseteq Items
  BY DEF Told, Answers, TypeInv, Sited, Done, Asks
<1>2. Known \subseteq Upsets /\ struck \subseteq Known
  BY DEF Known, Happening, TypeInv, TypeOK
<1> QED BY <1>1, <1>2 DEF History, TypeInv, TypeOK

(* A place a request under way may go to.                                  *)
Onward(q, phase) ==
  /\ phase \in Places /\ (phase[1] = "drop" => phase[2] = "run")
  /\ phase \in Starts => pc[q] \in Starts

LEMMA UnderWay ==
  ASSUME TypeInv, NEW q \in Requests, ~ Done(q)
  PROVE  /\ req[q] \in Asks /\ req[q].at \in Replicas /\ req[q].at \in serving
         /\ req[q].dim \in Dims /\ req[q].id \in Items
         /\ pc[q] \in Places /\ pc[q][1] \in Calls
         /\ pc[q][1] = "drop" => pc[q][2] = "run"
BY DEF TypeInv, TypeOK, Sited, Done, Asks, Places

(* One request moves.                                                      *)
LEMMA MoveIsTyped ==
  ASSUME TypeInv, History, NEW q \in Requests, NEW aim \in Asks, NEW phase \in Places,
         Enter(q, aim, phase),
         aim.at \in serving, phase[1] = "drop" => phase[2] = "run",
         aim.hoped => phase[2] = "done" \/ (stored # {} /\ phase \notin Starts),
         serving' = serving, available' = available, UNCHANGED world,
         dimension' \in [Replicas -> Widths], ready' \in [Replicas -> BOOLEAN],
         table' \in Spaces, table'.dim = 0 => table'.ids = {}
  PROVE  TypeInv' /\ Alone(q)
<1>1. /\ pc' \in [Requests -> Places]
      /\ req' \in [Requests -> Asks \cup {NoRequest}]
  BY DEF TypeInv, TypeOK, Enter
<1>2. stored' \subseteq Items /\ stored \subseteq stored' /\ struck' \subseteq Upsets
  BY HistoryIsTyped
<1>3. TypeOK'
  BY <1>1, <1>2 DEF TypeInv, TypeOK, world, Spaces
<1>4. Alone(q)
  BY DEF Alone, Enter, TypeInv, TypeOK
<1>5. ASSUME NEW p \in Requests PROVE Sited(pc[p], req[p])'
  <2>1. CASE p = q
    BY <2>1, <1>2 DEF Sited, Enter, TypeInv, TypeOK, Starts
  <2>2. CASE p # q
    <3>1. pc'[p] = pc[p] /\ req'[p] = req[p] /\ Sited(pc[p], req[p])
      BY <2>2, <1>4 DEF Alone, TypeInv
    <3> QED BY <3>1, <1>2 DEF Sited
  <2> QED BY <2>1, <2>2
<1> QED BY <1>3, <1>4, <1>5 DEF TypeInv

LEMMA GoIsTyped ==
  ASSUME TypeInv, History, NEW q \in Requests, ~ Done(q), NEW phase,
         Goto(q, phase), Onward(q, phase),
         serving' = serving, available' = available, UNCHANGED world,
         dimension' \in [Replicas -> Widths], ready' \in [Replicas -> BOOLEAN],
         table' \in Spaces, table'.dim = 0 => table'.ids = {}
  PROVE  TypeInv' /\ Alone(q)
<1>1. req[q].hoped => stored # {} /\ pc[q] \notin Starts
  BY DEF TypeInv, Sited, Done, Starts
<1> QED BY <1>1, UnderWay, MoveIsTyped DEF Goto, Onward

(* No request moves.                                                       *)
LEMMA StillIsTyped ==
  ASSUME TypeInv, History, UNCHANGED <<pc, req>>, serving \subseteq serving',
         TypeOK'
  PROVE  \A q \in Requests : Sited(pc[q], req[q])'
BY HistoryIsTyped DEF TypeInv, Sited

-----------------------------------------------------------------------------
(* Where the calls lead.                                                   *)

Inserting == {<<"insert", "run">>, <<"insert", "creating">>, <<"failed", "done">>}
Querying == {<<"query", "run">>, <<"query", "creating">>, <<"found", "done">>}
Recounting == {<<"recount", "run">>, <<"recount", "creating">>, <<"stored", "done">>}
Counting ==
  {<<"count", "run">>, <<"count", "creating">>, <<"empty", "done">>,
   <<"failed", "done">>, <<"mismatch", "done">>}

LEMMA EnsuredGoes ==
  ASSUME NEW aim, NEW believed
  PROVE  /\ Ensured(aim, "query", believed) \in Querying
         /\ Ensured(aim, "recount", believed) \in Recounting
         /\ Ensured(aim, "count", believed) \in Counting
         /\ believed => Ensured(aim, "count", believed) = <<"count", "run">>
         /\ Fits(aim) => Ensured(aim, "insert", believed) \in Inserting
BY DEF Ensured, Without, Querying, Recounting, Counting, Inserting

LEMMA InsertGoes ==
  ASSUME NEW q, NEW believed, Insert(q, believed)
  PROVE  \E phase :
           /\ Goto(q, phase)
           /\ \/ Fits(req[q]) /\ phase \in Inserting
              \/ ~ Fits(req[q]) /\ phase = <<"mismatch", "done">>
BY EnsuredGoes DEF Insert

LEMMA QueryGoes ==
  ASSUME NEW q, NEW believed, Query(q, believed)
  PROVE  \E phase :
           /\ Goto(q, phase)
           /\ \/ phase \in Querying
              \/ ~ Fits(req[q]) /\ phase = <<"mismatch", "done">>
BY EnsuredGoes DEF Query

(* What follows a count.                                                   *)
Settled(q, empty, phase) ==
  \/ Fits(req[q]) /\ phase \in Inserting
  \/ /\ ~ Fits(req[q]) /\ phase = <<"mismatch", "done">>
     /\ ~ empty \/ ~ available[req[q].at]
  \/ empty /\ phase = <<"empty", "done">>
  \/ ~ empty /\ phase \in Querying

Resized(q, empty) ==
  /\ empty /\ ~ Fits(req[q])
  /\ dimension' = [dimension EXCEPT ![req[q].at] = req[q].dim]
  /\ ready' = [ready EXCEPT ![req[q].at] = FALSE]
  /\ Goto(q, <<"drop", "run">>)

LEMMA CountedGoes ==
  ASSUME NEW q, NEW empty, Counted(q, empty)
  PROVE  \/ Resized(q, empty)
         \/ /\ UNCHANGED <<dimension, ready>>
            /\ \E phase : Goto(q, phase) /\ Settled(q, empty, phase)
<1>1. CASE Resizes(q, empty) /\ Reset(q)
  <2>1. CASE available[req[q].at]
    BY <1>1, <2>1 DEF Reset, Resizes, Resized, NotReady
  <2>2. CASE ~ available[req[q].at]
    BY <1>1, <2>2, InsertGoes DEF Reset, Resizes, Settled
  <2> QED BY <2>1, <2>2
<1>2. CASE ~ Resizes(q, empty) /\ Insert(q, Ready(q)) /\ UNCHANGED <<dimension, ready>>
  BY <1>2, InsertGoes DEF Resizes, Settled
<1>3. CASE /\ IF empty THEN Goto(q, <<"empty", "done">>) ELSE Query(q, Ready(q))
           /\ UNCHANGED <<dimension, ready>>
  BY <1>3, QueryGoes DEF Settled
<1> QED BY <1>1, <1>2, <1>3 DEF Counted

-----------------------------------------------------------------------------
(* What the steps do to types.                                             *)

LEMMA PlacesAre ==
  ASSUME NEW q, NEW phase \in Inserting \cup Querying \cup Recounting
                              \cup {<<"mismatch", "done">>, <<"empty", "done">>,
                                    <<"failed", "done">>, <<"drop", "run">>,
                                    <<"reset", "creating">>}
  PROVE  Onward(q, phase)
BY DEF Onward, Inserting, Querying, Recounting, Places, Calls, Outcomes, Starts

LEMMA SettledOnward ==
  ASSUME NEW q, NEW empty, NEW phase, Settled(q, empty, phase)
  PROVE  Onward(q, phase)
BY PlacesAre DEF Settled

LEMMA TypedState ==
  ASSUME TypeInv
  PROVE  /\ dimension \in [Replicas -> Widths]
         /\ ready \in [Replicas -> BOOLEAN]
         /\ available \in [Replicas -> BOOLEAN]
         /\ table \in Spaces /\ (table.dim = 0 => table.ids = {})
BY DEF TypeInv, TypeOK, Spaces

LEMMA WithTableIs ==
  ASSUME VectorAssumption, TypeInv, NEW width \in Widths
  PROVE  /\ WithTable(width) \in Spaces /\ WithTable(width).dim # 0
         /\ WithTable(width).dim = 0 => WithTable(width).ids = {}
         /\ WithTable(width).ids = table.ids
         /\ WithTable(width).dim = (IF table.dim = 0 THEN width ELSE table.dim)
BY DEF VectorAssumption, Widths, TypeInv, TypeOK, WithTable, Spaces

LEMMA BeginIsTyped ==
  ASSUME TypeInv, History, NEW q \in Requests, NEW aim \in Asks, Begin(q, aim),
         aim.hoped => stored # {} /\ ready[aim.at]
  PROVE  /\ TypeInv' /\ Alone(q) /\ Done(q) /\ pc'[q] \in Counting
         /\ UNCHANGED <<replica, table, world>>
<1> DEFINE phase == Ensured(aim, "count", ready[aim.at])
<1>1. phase \in Counting /\ (ready[aim.at] => phase = <<"count", "run">>)
  BY EnsuredGoes
<1>2. Enter(q, aim, phase) /\ UNCHANGED <<replica, table, world>>
  BY DEF Begin
<1>3. Done(q) /\ aim.at \in serving
  BY DEF Begin
<1> HIDE DEF phase
<1>4. phase \in Places /\ (phase[1] = "drop" => phase[2] = "run")
  BY <1>1 DEF Counting, Places, Calls, Outcomes
<1>5. aim.hoped => phase[2] = "done" \/ (stored # {} /\ phase \notin Starts)
  BY <1>1 DEF Starts
<1>6. TypeInv' /\ Alone(q)
  BY <1>2, <1>3, <1>4, <1>5, TypedState, MoveIsTyped DEF replica
<1>7. pc'[q] = phase
  BY <1>2 DEF Enter, TypeInv, TypeOK
<1> QED BY <1>1, <1>2, <1>3, <1>6, <1>7

LEMMA CreateIsTyped ==
  ASSUME VectorAssumption, TypeInv, History, NEW q \in Requests, Create(q)
  PROVE  /\ TypeInv' /\ Alone(q) /\ ~ Done(q) /\ req'[q] = req[q]
         /\ pc[q][2] = "creating" /\ pc'[q] = <<pc[q][1], "created">>
         /\ table' = WithTable(dimension[req[q].at])
         /\ UNCHANGED replica
<1> DEFINE phase == <<pc[q][1], "created">>
<1>1. ~ Done(q) /\ pc[q][2] = "creating"
  BY DEF Create, Done
<1>2. pc[q][1] \in Calls /\ pc[q][1] # "drop" /\ pc[q] = <<pc[q][1], "creating">>
  BY <1>1, UnderWay DEF Places
<1>3. Onward(q, phase)
  BY <1>2 DEF Onward, Places, Calls, Starts
<1>4. /\ Goto(q, phase) /\ UNCHANGED <<replica, world>>
      /\ table' = WithTable(dimension[req[q].at])
  BY DEF Create, Width
<1> HIDE DEF phase
<1>5. dimension[req[q].at] \in Widths
  BY <1>1, UnderWay, TypedState
<1>6. table' \in Spaces /\ (table'.dim = 0 => table'.ids = {})
  BY <1>4, <1>5, WithTableIs
<1>7. TypeInv' /\ Alone(q)
  BY <1>1, <1>3, <1>4, <1>6, TypedState, GoIsTyped DEF replica
<1>8. pc'[q] = phase /\ req'[q] = req[q]
  BY <1>4 DEF Goto, Enter, TypeInv, TypeOK, phase
<1> QED BY <1>1, <1>4, <1>7, <1>8 DEF phase

(* A step that only takes the request on.                                  *)
Goes(q, phase) ==
  /\ Alone(q) /\ ~ Done(q) /\ Onward(q, phase)
  /\ pc'[q] = phase /\ (phase[2] # "done" => req'[q] = req[q])

LEMMA GoGoes ==
  ASSUME TypeInv, History, NEW q \in Requests, ~ Done(q), NEW phase,
         Goto(q, phase), Onward(q, phase),
         UNCHANGED <<serving, dimension, available, world>>,
         ready' \in [Replicas -> BOOLEAN],
         table' \in Spaces, table'.dim = 0 => table'.ids = {}
  PROVE  TypeInv' /\ Goes(q, phase)
<1>1. TypeInv' /\ Alone(q)
  BY TypedState, GoIsTyped
<1>2. pc'[q] = phase /\ (phase[2] # "done" => req'[q] = req[q])
  BY DEF Goto, Enter, TypeInv, TypeOK
<1> QED BY <1>1, <1>2 DEF Goes

LEMMA ResizedGoes ==
  ASSUME TypeInv, History, NEW q \in Requests, ~ Done(q), NEW empty,
         Resized(q, empty), UNCHANGED <<serving, available, table, world>>
  PROVE  TypeInv' /\ Goes(q, <<"drop", "run">>)
<1> DEFINE phase == <<"drop", "run">>
<1>1. Goto(q, phase)
  BY DEF Resized
<1>2. Onward(q, phase)
  BY PlacesAre
<1> HIDE DEF phase
<1>3. /\ dimension' \in [Replicas -> Widths]
      /\ ready' \in [Replicas -> BOOLEAN]
  BY UnderWay, TypedState DEF Resized, Widths
<1>4. TypeInv' /\ Alone(q)
  BY <1>1, <1>2, <1>3, TypedState, GoIsTyped
<1>5. pc'[q] = phase /\ (phase[2] # "done" => req'[q] = req[q])
  BY <1>1 DEF Goto, Enter, TypeInv, TypeOK
<1> QED BY <1>2, <1>4, <1>5 DEF Goes, phase

(* Where a step leads that changes neither the table nor a dimension.      *)
Turns(q, phase) ==
  \/ pc[q][2] = "created" /\ phase = <<pc[q][1], "run">>
  \/ pc[q] = <<"count", "run">> /\ Settled(q, Empty, phase)
  \/ pc[q] = <<"count", "creating">> /\ Settled(q, TRUE, phase)
  \/ /\ pc[q][1] \in {"reset", "insert"}
     /\ \/ Fits(req[q]) /\ phase \in Inserting
        \/ ~ Fits(req[q]) /\ phase = <<"mismatch", "done">>
  \/ pc[q][1] = "query" /\ phase \in Querying
  \/ pc[q][1] = "query" /\ ~ Fits(req[q]) /\ phase = <<"mismatch", "done">>
  \/ pc[q][1] = "recount" /\ phase = <<"stored", "done">>
  \/ phase = <<"failed", "done">> /\ (pc[q][1] = "drop" => ~ up)

Turned(q) ==
  /\ \E phase : Goes(q, phase) /\ Turns(q, phase)
  /\ UNCHANGED <<serving, dimension, available, table>>

(* A request finds the index empty and resizes it; it may have lost the    *)
(* table's creation to another, or Postgres.                               *)
Shrinks(q) ==
  /\ Goes(q, <<"drop", "run">>) /\ pc[q][1] = "count" /\ ~ Fits(req[q])
  /\ \/ table.ids = {}
     \/ pc[q] = <<"count", "creating">> /\ ~ up
     \/ \E p \in Requests \ {q} : ~ Done(p)
  /\ dimension' = [dimension EXCEPT ![req[q].at] = req[q].dim]
  /\ UNCHANGED <<serving, available, table>>

LEMMA TurnsOnward ==
  ASSUME TypeInv, NEW q \in Requests, ~ Done(q), NEW phase, Turns(q, phase)
  PROVE  Onward(q, phase)
<1>1. CASE pc[q][2] = "created" /\ phase = <<pc[q][1], "run">>
  BY <1>1, UnderWay DEF Onward, Places, Calls, Starts
<1>2. CASE Settled(q, Empty, phase) \/ Settled(q, TRUE, phase)
  BY <1>2, SettledOnward
<1> QED BY <1>1, <1>2, PlacesAre DEF Turns, Recounting

LEMMA TurnIsTyped ==
  ASSUME TypeInv, History, NEW q \in Requests, ~ Done(q), NEW phase,
         Goto(q, phase), Turns(q, phase),
         UNCHANGED <<serving, dimension, available, table, world>>,
         ready' \in [Replicas -> BOOLEAN]
  PROVE  TypeInv' /\ Turned(q)
BY TurnsOnward, TypedState, GoGoes DEF Turned

LEMMA CreateFailsGoes ==
  ASSUME TypeInv, History, NEW q \in Requests, CreateFails(q)
  PROVE  TypeInv' /\ (Turned(q) \/ Shrinks(q))
<1>1. ~ Done(q) /\ pc[q][2] = "creating" /\ UNCHANGED <<serving, available, table, world>>
  BY DEF CreateFails, Done
<1>2. pc[q][1] \in Calls \ {"drop"} /\ pc[q] = <<pc[q][1], "creating">>
  BY <1>1, UnderWay DEF Places
<1>3. CASE pc[q][1] = "count" /\ Counted(q, TRUE)
  <2>1. CASE Resized(q, TRUE)
    <3>1. TypeInv' /\ Goes(q, <<"drop", "run">>)
      BY <1>1, <2>1, ResizedGoes
    <3>2. ~ up \/ table.ids = {} \/ \E p \in Requests \ {q} : ~ Done(p)
      BY DEF CreateFails, Contended, TypeInv, Done
    <3> QED BY <1>1, <1>2, <1>3, <2>1, <3>1, <3>2 DEF Shrinks, Resized
  <2>2. CASE /\ UNCHANGED <<dimension, ready>>
             /\ \E phase : Goto(q, phase) /\ Settled(q, TRUE, phase)
    <3>1. PICK phase : Goto(q, phase) /\ Settled(q, TRUE, phase)
      BY <2>2
    <3>2. Turns(q, phase)
      BY <1>2, <1>3, <3>1 DEF Turns
    <3> QED BY <1>1, <2>2, <3>1, <3>2, TypedState, TurnIsTyped
  <2> QED BY <1>3, <2>1, <2>2, CountedGoes
<1>4. CASE /\ pc[q][1] = "reset" /\ Insert(q, Ready(q))
           /\ UNCHANGED <<dimension, ready>>
  <2>1. PICK phase : /\ Goto(q, phase)
                     /\ \/ Fits(req[q]) /\ phase \in Inserting
                        \/ ~ Fits(req[q]) /\ phase = <<"mismatch", "done">>
    BY <1>4, InsertGoes
  <2>2. Turns(q, phase)
    BY <1>4, <2>1 DEF Turns
  <2> QED BY <1>1, <1>4, <2>1, <2>2, TypedState, TurnIsTyped
<1>5. CASE /\ pc[q][1] \notin {"count", "reset"}
           /\ Goto(q, Without(req[q], pc[q][1]))
           /\ UNCHANGED <<dimension, ready>>
  <2> DEFINE phase == Without(req[q], pc[q][1])
  <2>1. pc[q][1] \in {"insert", "query", "recount"}
    BY <1>2, <1>5 DEF Calls
  <2>2. Turns(q, phase)
    BY <2>1 DEF Without, Turns, Inserting, Querying
  <2> HIDE DEF phase
  <2>3. Goto(q, phase)
    BY <1>5 DEF phase
  <2> QED BY <1>1, <1>5, <2>2, <2>3, TypedState, TurnIsTyped
<1> QED BY <1>3, <1>4, <1>5 DEF CreateFails

LEMMA CreatedGoes ==
  ASSUME TypeInv, History, NEW q \in Requests, Created(q)
  PROVE  TypeInv' /\ Turned(q)
<1>1. /\ ~ Done(q) /\ pc[q][2] = "created"
      /\ UNCHANGED <<serving, dimension, available, table, world>>
  BY DEF Created, Done
<1>2. ready' \in [Replicas -> BOOLEAN]
  BY TypedState DEF Created
<1>3. \E phase : Goto(q, phase) /\ Turns(q, phase)
  <2>1. CASE pc[q][1] = "reset" /\ Insert(q, TRUE)
    BY <2>1, InsertGoes DEF Turns
  <2>2. CASE pc[q][1] = "query" /\ Query(q, TRUE)
    BY <2>2, QueryGoes DEF Turns
  <2>3. CASE Goto(q, <<pc[q][1], "run">>)
    BY <1>1, <2>3 DEF Turns
  <2> QED BY <2>1, <2>2, <2>3 DEF Created
<1> QED BY <1>1, <1>2, <1>3, TurnIsTyped

LEMMA CountGoes ==
  ASSUME TypeInv, History, NEW q \in Requests, Count(q)
  PROVE  TypeInv' /\ (Turned(q) \/ Shrinks(q))
<1>1. /\ ~ Done(q) /\ pc[q] = <<"count", "run">> /\ Counted(q, Empty)
      /\ UNCHANGED <<serving, available, table, world>>
  BY DEF Count, Runs, Done
<1>2. CASE Resized(q, Empty)
  <2>1. TypeInv' /\ Goes(q, <<"drop", "run">>)
    BY <1>1, <1>2, ResizedGoes
  <2> QED BY <1>1, <1>2, <2>1 DEF Shrinks, Resized, Empty
<1>3. CASE /\ UNCHANGED <<dimension, ready>>
           /\ \E phase : Goto(q, phase) /\ Settled(q, Empty, phase)
  <2>1. PICK phase : Goto(q, phase) /\ Settled(q, Empty, phase)
    BY <1>3
  <2>2. Turns(q, phase)
    BY <1>1, <2>1 DEF Turns
  <2> QED BY <1>1, <1>3, <2>1, <2>2, TypedState, TurnIsTyped
<1> QED BY <1>1, <1>2, <1>3, CountedGoes

LEMMA AnswersGo ==
  ASSUME TypeInv, History, NEW q \in Requests, Recount(q) \/ Find(q) \/ Fail(q)
  PROVE  TypeInv' /\ Turned(q)
<1>1. /\ ~ Done(q)
      /\ UNCHANGED <<serving, dimension, available, ready, table, world>>
  BY DEF Recount, Find, Fail, Runs, Done, replica
<1>2. \E phase : Goto(q, phase) /\ Turns(q, phase)
  <2>1. CASE Recount(q)
    BY <2>1 DEF Recount, Runs, Turns
  <2>2. CASE Find(q)
    BY <2>2 DEF Find, Runs, Turns, Querying
  <2>3. CASE Fail(q)
    BY <2>3 DEF Fail, Turns
  <2> QED BY <2>1, <2>2, <2>3
<1> QED BY <1>1, <1>2, TypedState, TurnIsTyped

(* The table is gone; the request goes on to create it, or to its insert.  *)
Emptied(q) ==
  /\ pc[q] = <<"drop", "run">> /\ up
  /\ \E phase :
       /\ Goes(q, phase)
       /\ \/ phase = <<"reset", "creating">>
          \/ Fits(req[q]) /\ phase \in Inserting
          \/ ~ Fits(req[q]) /\ phase = <<"mismatch", "done">>
  /\ table' = [dim |-> 0, ids |-> {}]
  /\ UNCHANGED <<serving, dimension, available>>

LEMMA DropGoes ==
  ASSUME TypeInv, History, NEW q \in Requests, Drop(q)
  PROVE  TypeInv' /\ Emptied(q)
<1>1. /\ ~ Done(q) /\ pc[q] = <<"drop", "run">> /\ up
      /\ table' = [dim |-> 0, ids |-> {}]
      /\ UNCHANGED <<serving, dimension, available, ready, world>>
  BY DEF Drop, Runs, Done, replica
<1>2. table' \in Spaces /\ (table'.dim = 0 => table'.ids = {})
  BY <1>1 DEF Spaces
<1>3. PICK phase :
        /\ Goto(q, phase)
        /\ \/ phase = <<"reset", "creating">>
           \/ Fits(req[q]) /\ phase \in Inserting
           \/ ~ Fits(req[q]) /\ phase = <<"mismatch", "done">>
  BY InsertGoes DEF Drop
<1>4. Onward(q, phase)
  BY <1>3, PlacesAre
<1>5. TypeInv' /\ Goes(q, phase)
  BY <1>1, <1>2, <1>3, <1>4, TypedState, GoGoes
<1> QED BY <1>1, <1>3, <1>5 DEF Emptied

Stores(q) ==
  /\ pc[q] = <<"insert", "run">>
  /\ \E phase \in Recounting : Goes(q, phase)
  /\ table.dim # 0 /\ table'.dim = table.dim
  /\ table'.ids = table.ids \cup {req[q].id}
  /\ UNCHANGED <<serving, dimension, available>>

LEMMA InsertRowGoes ==
  ASSUME VectorAssumption, TypeInv, History, NEW q \in Requests, InsertRow(q)
  PROVE  TypeInv' /\ Stores(q)
<1> DEFINE phase == Ensured(req[q], "recount", Ready(q))
<1>1. /\ ~ Done(q) /\ pc[q] = <<"insert", "run">> /\ table.dim = req[q].dim
      /\ table' = [table EXCEPT !.ids = @ \cup {req[q].id}]
      /\ Goto(q, phase)
      /\ UNCHANGED <<serving, dimension, available, ready, world>>
  BY DEF InsertRow, Runs, Done, replica
<1>2. table.dim # 0
  BY <1>1, UnderWay DEF VectorAssumption
<1>3. /\ table' \in Spaces /\ table'.dim = table.dim
      /\ table'.ids = table.ids \cup {req[q].id}
  BY <1>1, UnderWay, TypedState DEF Spaces
<1>4. phase \in Recounting
  BY EnsuredGoes
<1> HIDE DEF phase
<1>5. Onward(q, phase)
  BY <1>4, PlacesAre
<1>6. TypeInv' /\ Goes(q, phase)
  BY <1>1, <1>2, <1>3, <1>5, TypedState, GoGoes
<1> QED BY <1>1, <1>2, <1>3, <1>4, <1>6 DEF Stores

(* The kinds of steps there are.                                           *)
Begun(q) ==
  /\ Alone(q) /\ Done(q) /\ pc'[q] \in Counting
  /\ UNCHANGED <<serving, dimension, table>>

Made(q) ==
  /\ Alone(q) /\ ~ Done(q) /\ req'[q] = req[q]
  /\ pc[q][2] = "creating" /\ pc'[q] = <<pc[q][1], "created">>
  /\ req[q].at \in serving /\ table' = WithTable(dimension[req[q].at])
  /\ table'.ids = table.ids
  /\ UNCHANGED <<serving, dimension>>

Booted(r) ==
  /\ UNCHANGED <<pc, req, dimension>> /\ serving' = serving \cup {r}
  /\ table' = table \/ table' = WithTable(dimension[r])
  /\ table'.ids = table.ids

Crashed(r) ==
  /\ r \in serving \ serving' /\ UNCHANGED table
  /\ \A q \in Requests :
       /\ ~ Done(q)' => /\ pc'[q] = pc[q] /\ req'[q] = req[q]
                        /\ dimension'[req[q].at] = dimension[req[q].at]
       /\ pc'[q] = pc[q] \/ pc'[q] = <<"failed", "done">>
  /\ dimension' = [dimension EXCEPT ![r] = Configured]

Still == UNCHANGED <<pc, req, dimension, serving, table>>

LEMMA BootIsTyped ==
  ASSUME VectorAssumption, TypeInv, History, NEW r \in Replicas, Boot(r)
  PROVE  /\ TypeInv' /\ UNCHANGED <<pc, req, dimension>>
         /\ serving' = serving \cup {r}
         /\ table' = table \/ table' = WithTable(dimension[r])
<1>1. /\ UNCHANGED <<pc, req, dimension, world>>
      /\ serving' = serving \cup {r}
      /\ available' = [available EXCEPT ![r] = up]
      /\ ready' = [ready EXCEPT ![r] = TRUE] \/ ready' = ready
      /\ table' = table \/ table' = WithTable(dimension[r])
  BY DEF Boot
<1>2. dimension[r] \in Widths
  BY TypedState
<1>3. table' \in Spaces /\ (table'.dim = 0 => table'.ids = {})
  BY <1>1, <1>2, TypedState, WithTableIs
<1>4. available' \in [Replicas -> BOOLEAN] /\ ready' \in [Replicas -> BOOLEAN]
  BY <1>1 DEF TypeInv, TypeOK
<1>5. TypeOK'
  BY <1>1, <1>3, <1>4, HistoryIsTyped DEF TypeInv, TypeOK, Spaces, world
<1> QED BY <1>1, <1>3, <1>5, StillIsTyped DEF TypeInv

LEMMA QuietStepIsTyped ==
  ASSUME VectorAssumption, TypeInv, History,
         (\E r \in Replicas : Ping(r)) \/ Outage \/ Recovery
  PROVE  TypeInv' /\ UNCHANGED <<pc, req, dimension, serving, table>>
<1>1. UNCHANGED <<pc, req, dimension, serving, table, ready>>
  BY DEF Ping, Outage, Recovery, replica
<1>2. available' \in [Replicas -> BOOLEAN] /\ up' \in BOOLEAN
  BY DEF Ping, Outage, Recovery, replica, world, TypeInv, TypeOK
<1>3. events' \in 0 .. MaxEvents
  BY DEF Ping, Outage, Recovery, world, TypeInv, TypeOK, VectorAssumption
<1>4. TypeOK'
  BY <1>1, <1>2, <1>3, HistoryIsTyped DEF TypeInv, TypeOK
<1> QED BY <1>1, <1>4, StillIsTyped DEF TypeInv

LEMMA CrashIsTyped ==
  ASSUME VectorAssumption, TypeInv, History, NEW r \in Replicas, Crash(r)
  PROVE  TypeInv' /\ Crashed(r)
<1>1. \A q \in Requests :
        \/ pc'[q] = pc[q] /\ req'[q] = req[q] /\ req[q].at # r
        \/ pc'[q] = <<"failed", "done">> /\ req'[q] = NoRequest
  BY DEF Crash
<1>2. /\ serving' = serving \ {r} /\ r \in serving /\ UNCHANGED <<table, up>>
      /\ dimension' = [dimension EXCEPT ![r] = Configured]
      /\ ready' = [ready EXCEPT ![r] = FALSE]
      /\ available' = [available EXCEPT ![r] = FALSE]
  BY DEF Crash
<1>3. events' \in 0 .. MaxEvents
  BY DEF Crash, TypeInv, TypeOK, VectorAssumption
<1>4. pc' \in [Requests -> Places] /\ req' \in [Requests -> Asks \cup {NoRequest}]
  BY DEF Crash, TypeInv, TypeOK, Places, Outcomes
<1>5. TypeOK'
  BY <1>2, <1>3, <1>4, HistoryIsTyped DEF TypeInv, TypeOK, Widths
<1>6. \A q \in Requests : Sited(pc[q], req[q])'
  <2> SUFFICES ASSUME NEW q \in Requests PROVE Sited(pc[q], req[q])'
    OBVIOUS
  <2>1. CASE pc'[q] = pc[q] /\ req'[q] = req[q] /\ req[q].at # r
    BY <1>2, <2>1, HistoryIsTyped DEF TypeInv, Sited
  <2>2. CASE pc'[q] = <<"failed", "done">>
    BY <2>2 DEF Sited, Places, Outcomes
  <2> QED BY <1>1, <2>1, <2>2
<1>7. \A q \in Requests :
        /\ ~ Done(q)' => /\ pc'[q] = pc[q] /\ req'[q] = req[q]
                         /\ dimension'[req[q].at] = dimension[req[q].at]
        /\ pc'[q] = pc[q] \/ pc'[q] = <<"failed", "done">>
  <2> SUFFICES ASSUME NEW q \in Requests, ~ Done(q)'
               PROVE  /\ pc'[q] = pc[q] /\ req'[q] = req[q]
                      /\ dimension'[req[q].at] = dimension[req[q].at]
    BY <1>1
  <2>1. pc'[q] = pc[q] /\ req'[q] = req[q] /\ req[q].at # r /\ ~ Done(q)
    BY <1>1 DEF Done
  <2> QED BY <1>2, <2>1, UnderWay, TypedState
<1> QED BY <1>2, <1>5, <1>6, <1>7 DEF TypeInv, Crashed

LEMMA NextGoes ==
  ASSUME VectorAssumption, TypeInv, Next
  PROVE  /\ TypeInv' /\ History
         /\ \/ \E q \in Requests : \/ Begun(q) \/ Made(q) \/ Turned(q)
                                   \/ Shrinks(q) \/ Emptied(q) \/ Stores(q)
            \/ \E r \in Replicas : Booted(r) \/ Crashed(r)
            \/ Still
<1> DEFINE Kinds ==
      \/ \E q \in Requests : \/ Begun(q) \/ Made(q) \/ Turned(q)
                             \/ Shrinks(q) \/ Emptied(q) \/ Stores(q)
      \/ \E r \in Replicas : Booted(r) \/ Crashed(r)
      \/ Still
<1>1. History
  BY DEF Next, History
<1>2. ASSUME NEW q \in Requests, NEW r \in Replicas, NEW dim \in Dims, NEW id \in Items,
             Begin(q, IndexAsk(r, dim, id)) \/ Begin(q, SearchAsk(r, dim, id))
      PROVE  TypeInv' /\ Kinds
  <2>1. /\ IndexAsk(r, dim, id) \in Asks /\ ~ IndexAsk(r, dim, id).hoped
        /\ SearchAsk(r, dim, id) \in Asks
        /\ SearchAsk(r, dim, id).hoped =>
             stored # {} /\ ready[SearchAsk(r, dim, id).at]
    BY TypedState DEF IndexAsk, SearchAsk, Asks
  <2>2. TypeInv' /\ Begun(q)
    BY <1>1, <1>2, <2>1, BeginIsTyped DEF Begun, replica
  <2> QED BY <2>2
<1>3. ASSUME NEW q \in Requests, Create(q) PROVE TypeInv' /\ Kinds
  <2>1. /\ TypeInv' /\ Alone(q) /\ ~ Done(q) /\ req'[q] = req[q]
        /\ pc[q][2] = "creating" /\ pc'[q] = <<pc[q][1], "created">>
        /\ table' = WithTable(dimension[req[q].at])
        /\ UNCHANGED replica
    BY <1>1, <1>3, CreateIsTyped
  <2>2. req[q].at \in serving /\ table'.ids = table.ids
    BY <2>1, UnderWay, TypedState, WithTableIs
  <2> QED BY <2>1, <2>2 DEF Made, replica
<1>4. ASSUME NEW q \in Requests,
             CreateFails(q) \/ Created(q) \/ Count(q) \/ Recount(q) \/ Find(q) \/ Fail(q)
      PROVE  TypeInv' /\ Kinds
  BY <1>1, <1>4, CreateFailsGoes, CreatedGoes, CountGoes, AnswersGo
<1>5. ASSUME NEW q \in Requests, Drop(q) \/ InsertRow(q) PROVE TypeInv' /\ Kinds
  BY <1>1, <1>5, DropGoes, InsertRowGoes
<1>6. ASSUME NEW r \in Replicas, Boot(r) PROVE TypeInv' /\ Kinds
  <2>1. /\ TypeInv' /\ UNCHANGED <<pc, req, dimension>>
        /\ serving' = serving \cup {r}
        /\ table' = table \/ table' = WithTable(dimension[r])
    BY <1>1, <1>6, BootIsTyped
  <2>2. table'.ids = table.ids
    BY <2>1, TypedState, WithTableIs
  <2> QED BY <2>1, <2>2 DEF Booted
<1>7. ASSUME NEW r \in Replicas, Crash(r) PROVE TypeInv' /\ Kinds
  <2>1. TypeInv' /\ Crashed(r)
    BY <1>1, <1>7, CrashIsTyped
  <2> QED BY <2>1
<1>8. ASSUME (\E r \in Replicas : Ping(r)) \/ Outage \/ Recovery
      PROVE  TypeInv' /\ Kinds
  BY <1>1, <1>8, QuietStepIsTyped DEF Still
<1> QED
  BY <1>1, <1>2, <1>3, <1>4, <1>5, <1>6, <1>7, <1>8 DEF Next, Step

-----------------------------------------------------------------------------
(* Nothing acknowledged is lost while requests keep out of the way of one  *)
(* that resizes the index.                                                 *)

Quiet == "overlap" \notin struck /\ ~ Overlap

Reliable == Quiet /\ "blind" \notin struck

(* Everything acknowledged is in the table, and so is what is about to be; *)
(* the table a request is about to drop is empty.                          *)
Safe ==
  /\ StoredIsKept
  /\ Reliable => \A q \in Requests : ~ Done(q) =>
       /\ pc[q][1] = "recount" => req[q].id \in table.ids
       /\ pc[q][1] = "drop" => table.ids = {}

LEMMA QuietBefore ==
  ASSUME TypeInv, History, "overlap" \notin struck'
  PROVE  Quiet /\ struck \subseteq struck' /\ Happening \subseteq struck'
<1>1. ~ ("overlap" \in struck \/ Overlap)
  BY DEF History, Known, Upsets
<1> QED BY <1>1 DEF History, Known, Quiet

(* In quiet states a request that resizes the index is alone.              *)
LEMMA ResizesAlone ==
  ASSUME TypeInv, Quiet, NEW q \in Requests, pc[q][1] \in {"drop", "reset"},
         NEW p \in Requests \ {q}
  PROVE  Done(p)
BY DEF Quiet, Overlap, Resizing

LEMMA SafeStep ==
  ASSUME TypeInv, TypeInv', Safe, History, NEW q \in Requests, Alone(q),
         ~ Done(q)' /\ ~ Done(q) => req'[q] = req[q],
         \/ table'.ids = table.ids
         \/ ~ Done(q) /\ table.ids \subseteq table'.ids
         \/ pc[q][1] = "drop" /\ ~ Done(q),
         Reliable /\ "blind" \notin Happening =>
           /\ pc'[q][1] \in {"recount", "stored"} /\ ~ Done(q) => req[q].id \in table'.ids
           /\ pc'[q][1] = "recount" => ~ Done(q)
           /\ Reliable' /\ pc'[q][1] = "drop" => table'.ids = {}
  PROVE  Safe'
<1>1. ASSUME struck' \cap {"overlap", "blind"} = {}
      PROVE  /\ Reliable /\ "blind" \notin Happening
             /\ stored \subseteq table.ids
             /\ \A p \in Requests : ~ Done(p) =>
                  /\ pc[p][1] = "recount" => req[p].id \in table.ids
                  /\ pc[p][1] = "drop" => table.ids = {}
  <2>1. Reliable /\ "blind" \notin Happening
    BY <1>1, QuietBefore DEF Reliable
  <2> QED BY <2>1 DEF Safe, StoredIsKept, Reliable, Quiet
<1>2. ASSUME struck' \cap {"overlap", "blind"} = {}
      PROVE  stored' \subseteq table'.ids
  <2>1. stored \subseteq table'.ids
    BY <1>1, <1>2
  <2>2. ASSUME NEW p \in Requests, Answers(p, "stored")
        PROVE  req[p].id \in table'.ids
    <3>1. p = q
      BY <2>2 DEF Answers, Alone, Done
    <3> QED BY <1>1, <1>2, <2>2, <3>1 DEF Answers
  <2> QED BY <2>1, <2>2 DEF History, Told
<1>3. ASSUME Reliable', NEW p \in Requests, ~ Done(p)'
      PROVE  /\ pc'[p][1] = "recount" => req'[p].id \in table'.ids
             /\ pc'[p][1] = "drop" => table'.ids = {}
  <2>1. struck' \cap {"overlap", "blind"} = {}
    BY <1>3 DEF Reliable, Quiet
  <2>2. CASE p = q
    BY <1>1, <1>3, <2>1, <2>2
  <2>3. CASE p # q
    <3>1. pc'[p] = pc[p] /\ req'[p] = req[p] /\ ~ Done(p)
      BY <1>3, <2>3 DEF Alone, Done
    <3>2. ~ (pc[q][1] = "drop" /\ ~ Done(q))
      BY <3>1, <2>1, <2>3, <1>1, ResizesAlone DEF Reliable
    <3>3. pc[p][1] = "drop" => Done(q)
      BY <2>1, <2>3, <1>1, ResizesAlone DEF Reliable
    <3> QED BY <1>1, <2>1, <3>1, <3>2, <3>3
  <2> QED BY <2>2, <2>3
<1> QED BY <1>2, <1>3 DEF Safe, StoredIsKept

LEMMA BeginIsSafe ==
  ASSUME TypeInv, TypeInv', Safe, History, NEW q \in Requests, Alone(q), Done(q),
         pc'[q] \in Counting, UNCHANGED table
  PROVE  Safe'
<1>1. pc'[q][1] \notin {"recount", "drop"}
  BY DEF Counting
<1> QED BY <1>1, SafeStep

LEMMA CreateIsSafe ==
  ASSUME TypeInv, TypeInv', Safe, History, NEW q \in Requests, Alone(q), ~ Done(q),
         req'[q] = req[q], pc[q][2] = "creating", pc'[q] = <<pc[q][1], "created">>,
         table'.ids = table.ids
  PROVE  Safe'
<1>1. pc'[q][1] = pc[q][1] /\ pc[q][1] \in Calls \ {"drop"}
  BY UnderWay
<1>2. Reliable /\ "blind" \notin Happening =>
        /\ pc'[q][1] \in {"recount", "stored"} /\ ~ Done(q) => req[q].id \in table'.ids
        /\ pc'[q][1] = "recount" => ~ Done(q)
        /\ Reliable' /\ pc'[q][1] = "drop" => table'.ids = {}
  BY <1>1 DEF Safe, Calls
<1> QED BY <1>2, SafeStep

LEMMA TurnIsSafe ==
  ASSUME TypeInv, TypeInv', Safe, History, NEW q \in Requests, Turned(q)
  PROVE  Safe'
<1>1. PICK phase : Goes(q, phase) /\ Turns(q, phase)
  BY DEF Turned
<1>2. Alone(q) /\ ~ Done(q) /\ pc'[q] = phase /\ table' = table
      /\ (phase[2] # "done" => req'[q] = req[q])
  BY <1>1 DEF Goes, Turned
<1>3. phase[1] \in {"recount", "stored", "drop"} => phase[1] # "drop" /\ pc[q][1] = "recount"
  BY <1>1, <1>2, UnderWay DEF Turns, Settled, Inserting, Querying, Calls
<1>4. Reliable /\ "blind" \notin Happening =>
        /\ pc'[q][1] \in {"recount", "stored"} /\ ~ Done(q) => req[q].id \in table'.ids
        /\ pc'[q][1] = "recount" => ~ Done(q)
        /\ Reliable' /\ pc'[q][1] = "drop" => table'.ids = {}
  BY <1>2, <1>3 DEF Safe
<1>5. ~ Done(q)' /\ ~ Done(q) => req'[q] = req[q]
  BY <1>2 DEF Done
<1> QED BY <1>2, <1>4, <1>5, SafeStep

LEMMA ShrinkIsSafe ==
  ASSUME TypeInv, TypeInv', Safe, History, NEW q \in Requests, Shrinks(q)
  PROVE  Safe'
<1>1. Alone(q) /\ ~ Done(q) /\ pc'[q] = <<"drop", "run">> /\ table' = table
      /\ req'[q] = req[q]
  BY DEF Shrinks, Goes
<1>2. "blind" \notin Happening /\ Reliable' => table'.ids = {}
  <2> SUFFICES ASSUME Reliable', "blind" \notin Happening PROVE table.ids = {}
    BY <1>1
  <2>1. CASE pc[q] = <<"count", "creating">> /\ ~ up
    BY <2>1 DEF Happening, Uncounted, Upsets
  <2>2. CASE \E p \in Requests \ {q} : ~ Done(p)
    <3>1. PICK p \in Requests \ {q} : ~ Done(p)
      BY <2>2
    <3>2. ~ Done(p)'
      BY <3>1, <1>1 DEF Alone, Done
    <3>3. Overlap'
      BY <3>2, <1>1 DEF Overlap, Resizing
    <3> QED BY <3>3 DEF Reliable, Quiet
  <2> QED BY <2>1, <2>2 DEF Shrinks
<1> QED BY <1>1, <1>2, SafeStep

LEMMA DropIsSafe ==
  ASSUME TypeInv, TypeInv', Safe, History, NEW q \in Requests, Emptied(q)
  PROVE  Safe'
<1>1. PICK phase : /\ Goes(q, phase)
                   /\ \/ phase = <<"reset", "creating">>
                      \/ Fits(req[q]) /\ phase \in Inserting
                      \/ ~ Fits(req[q]) /\ phase = <<"mismatch", "done">>
  BY DEF Emptied
<1>2. /\ Alone(q) /\ ~ Done(q) /\ pc'[q] = phase /\ pc[q][1] = "drop"
      /\ (phase[2] # "done" => req'[q] = req[q])
  BY <1>1 DEF Goes, Emptied
<1>3. phase[1] \notin {"recount", "stored", "drop"}
  BY <1>1 DEF Inserting
<1>4. ~ Done(q)' /\ ~ Done(q) => req'[q] = req[q]
  BY <1>2 DEF Done
<1> QED BY <1>2, <1>3, <1>4, SafeStep

LEMMA StoreIsSafe ==
  ASSUME TypeInv, TypeInv', Safe, History, NEW q \in Requests, Stores(q)
  PROVE  Safe'
<1>1. PICK phase \in Recounting : Goes(q, phase)
  BY DEF Stores
<1>2. /\ Alone(q) /\ ~ Done(q) /\ pc'[q] = phase
      /\ (phase[2] # "done" => req'[q] = req[q])
      /\ table'.ids = table.ids \cup {req[q].id}
  BY <1>1 DEF Goes, Stores
<1>3. phase[1] # "drop"
  BY DEF Recounting
<1>4. ~ Done(q)' /\ ~ Done(q) => req'[q] = req[q]
  BY <1>2 DEF Done
<1> QED BY <1>2, <1>3, <1>4, SafeStep

(* Replicas and the database.                                              *)
LEMMA OthersAreSafe ==
  ASSUME TypeInv, Safe, History, table'.ids = table.ids,
         \A q \in Requests :
           /\ ~ Done(q)' => pc'[q] = pc[q] /\ req'[q] = req[q]
           /\ pc'[q] = pc[q] \/ pc'[q] = <<"failed", "done">>
  PROVE  Safe'
<1>1. Told = {}
  BY DEF Told, Answers, Done
<1>2. struck' \cap {"overlap", "blind"} = {} => Reliable
  BY QuietBefore DEF Reliable
<1>3. StoredIsKept'
  BY <1>1, <1>2 DEF Safe, StoredIsKept, History, Reliable, Quiet
<1>4. ASSUME Reliable', NEW p \in Requests, ~ Done(p)'
      PROVE  /\ pc'[p][1] = "recount" => req'[p].id \in table'.ids
             /\ pc'[p][1] = "drop" => table'.ids = {}
  <2>1. Reliable
    BY <1>2, <1>4 DEF Reliable, Quiet
  <2>2. pc'[p] = pc[p] /\ req'[p] = req[p] /\ ~ Done(p)
    BY <1>4 DEF Done
  <2> QED BY <2>1, <2>2 DEF Safe
<1> QED BY <1>3, <1>4 DEF Safe

-----------------------------------------------------------------------------
(* A vector on its way to the table has the length its replica expects,    *)
(* and a search goes on only in an index that holds something.             *)
Apt ==
  Quiet =>
    \A q \in Requests : ~ Done(q) =>
      /\ pc[q][1] \in {"insert", "drop", "reset"} => Fits(req[q])
      /\ pc[q][1] = "query" => table.ids # {}

LEMMA AptStep ==
  ASSUME TypeInv, TypeInv', Apt, History, NEW q \in Requests, Alone(q),
         dimension' = dimension \/ pc'[q] = <<"drop", "run">>,
         table.ids \subseteq table'.ids \/ (pc[q][1] = "drop" /\ ~ Done(q)),
         Quiet /\ Quiet' /\ ~ Done(q)' =>
           /\ pc'[q][1] \in {"insert", "drop", "reset"} => Fits(req[q])'
           /\ pc'[q][1] = "query" => table'.ids # {}
  PROVE  Apt'
<1> SUFFICES ASSUME Quiet', NEW p \in Requests, ~ Done(p)'
             PROVE  /\ pc'[p][1] \in {"insert", "drop", "reset"} => Fits(req[p])'
                    /\ pc'[p][1] = "query" => table'.ids # {}
  BY DEF Apt
<1>1. Quiet
  BY QuietBefore DEF Quiet
<1>2. CASE p = q
  BY <1>1, <1>2
<1>3. CASE p # q
  <2>1. pc'[p] = pc[p] /\ req'[p] = req[p] /\ ~ Done(p)
    BY <1>3 DEF Alone, Done
  <2>2. ~ (pc[q][1] = "drop" /\ ~ Done(q))
    BY <1>1, <1>3, <2>1, ResizesAlone
  <2>3. pc'[q] # <<"drop", "run">>
    BY <1>3 DEF Quiet, Overlap, Resizing
  <2>4. dimension' = dimension /\ table.ids \subseteq table'.ids
    BY <2>2, <2>3
  <2> QED BY <1>1, <2>1, <2>4 DEF Apt, Fits
<1> QED BY <1>2, <1>3

LEMMA BeginIsApt ==
  ASSUME TypeInv, TypeInv', Apt, History, NEW q \in Requests, Alone(q), Done(q),
         pc'[q] \in Counting, UNCHANGED <<table, dimension>>
  PROVE  Apt'
<1>1. Quiet /\ Quiet' /\ ~ Done(q)' =>
        /\ pc'[q][1] \in {"insert", "drop", "reset"} => Fits(req[q])'
        /\ pc'[q][1] = "query" => table'.ids # {}
  BY DEF Counting, Done
<1>2. dimension' = dimension /\ table'.ids = table.ids
  OBVIOUS
<1> QED BY <1>1, <1>2, AptStep

LEMMA CreateIsApt ==
  ASSUME TypeInv, TypeInv', Apt, History, NEW q \in Requests, Alone(q), ~ Done(q),
         req'[q] = req[q], pc'[q] = <<pc[q][1], "created">>,
         table'.ids = table.ids, UNCHANGED dimension
  PROVE  Apt'
<1>1. Quiet =>
        /\ pc'[q][1] \in {"insert", "drop", "reset"} => Fits(req[q])'
        /\ pc'[q][1] = "query" => table'.ids # {}
  BY DEF Apt, Fits
<1> QED BY <1>1, AptStep

LEMMA TurnIsApt ==
  ASSUME TypeInv, TypeInv', Apt, History, NEW q \in Requests, Turned(q)
  PROVE  Apt'
<1>1. PICK phase : Goes(q, phase) /\ Turns(q, phase)
  BY DEF Turned
<1>2. Alone(q) /\ ~ Done(q) /\ pc'[q] = phase /\ table' = table
      /\ dimension' = dimension /\ (phase[2] # "done" => req'[q] = req[q])
  BY <1>1 DEF Goes, Turned
<1>3. ASSUME Quiet, phase[2] # "done"
      PROVE  /\ phase[1] \in {"insert", "drop", "reset"} => Fits(req[q])
             /\ phase[1] = "query" => table.ids # {}
  <2>1. Apt /\ ~ Done(q)
    BY <1>2
  <2>2. CASE pc[q][2] = "created" /\ phase = <<pc[q][1], "run">>
    BY <1>3, <2>1, <2>2 DEF Apt
  <2>3. CASE pc[q] = <<"count", "run">> /\ Settled(q, Empty, phase)
    BY <1>3, <2>3 DEF Settled, Empty, Inserting, Querying
  <2>4. CASE pc[q] = <<"count", "creating">> /\ Settled(q, TRUE, phase)
    BY <1>3, <2>4 DEF Settled, Inserting
  <2>5. CASE /\ pc[q][1] \in {"reset", "insert"}
             /\ \/ Fits(req[q]) /\ phase \in Inserting
                \/ ~ Fits(req[q]) /\ phase = <<"mismatch", "done">>
    BY <1>3, <2>5 DEF Inserting
  <2>6. CASE pc[q][1] = "query" /\ phase \in Querying
    BY <1>3, <2>1, <2>6 DEF Apt, Querying
  <2>7. CASE phase = <<"mismatch", "done">> \/ phase = <<"stored", "done">>
               \/ phase = <<"failed", "done">>
    BY <1>3, <2>7
  <2> QED BY <1>1, <2>2, <2>3, <2>4, <2>5, <2>6, <2>7 DEF Turns
<1>4. Quiet /\ ~ Done(q)' =>
        /\ pc'[q][1] \in {"insert", "drop", "reset"} => Fits(req[q])'
        /\ pc'[q][1] = "query" => table'.ids # {}
  BY <1>2, <1>3 DEF Done, Fits
<1> QED BY <1>2, <1>4, AptStep

LEMMA ShrinkIsApt ==
  ASSUME TypeInv, TypeInv', Apt, History, NEW q \in Requests, Shrinks(q)
  PROVE  Apt'
<1>1. /\ Alone(q) /\ ~ Done(q) /\ pc'[q] = <<"drop", "run">> /\ table' = table
      /\ req'[q] = req[q]
      /\ dimension' = [dimension EXCEPT ![req[q].at] = req[q].dim]
  BY DEF Shrinks, Goes
<1>2. Fits(req[q])'
  BY <1>1, UnderWay, TypedState DEF Fits
<1> QED BY <1>1, <1>2, AptStep

LEMMA DropIsApt ==
  ASSUME TypeInv, TypeInv', Apt, History, NEW q \in Requests, Emptied(q)
  PROVE  Apt'
<1>1. PICK phase : /\ Goes(q, phase)
                   /\ \/ phase = <<"reset", "creating">>
                      \/ Fits(req[q]) /\ phase \in Inserting
                      \/ ~ Fits(req[q]) /\ phase = <<"mismatch", "done">>
  BY DEF Emptied
<1>2. /\ Alone(q) /\ ~ Done(q) /\ pc'[q] = phase /\ pc[q][1] = "drop"
      /\ dimension' = dimension /\ (phase[2] # "done" => req'[q] = req[q])
  BY <1>1 DEF Goes, Emptied
<1>3. phase[1] # "query"
  BY <1>1 DEF Inserting
<1>4. Quiet /\ ~ Done(q)' =>
        (pc'[q][1] \in {"insert", "drop", "reset"} => Fits(req[q])')
  BY <1>2 DEF Apt, Done, Fits
<1> QED BY <1>2, <1>3, <1>4, AptStep

LEMMA StoreIsApt ==
  ASSUME TypeInv, TypeInv', Apt, History, NEW q \in Requests, Stores(q)
  PROVE  Apt'
<1>1. PICK phase \in Recounting : Goes(q, phase)
  BY DEF Stores
<1>2. /\ Alone(q) /\ pc'[q] = phase /\ dimension' = dimension
      /\ table.ids \subseteq table'.ids
  BY <1>1 DEF Goes, Stores
<1>3. Quiet /\ Quiet' /\ ~ Done(q)' =>
        /\ pc'[q][1] \in {"insert", "drop", "reset"} => Fits(req[q])'
        /\ pc'[q][1] = "query" => table'.ids # {}
  BY <1>2 DEF Recounting, Done
<1> QED BY <1>2, <1>3, AptStep

LEMMA OthersAreApt ==
  ASSUME TypeInv, Apt, History, table'.ids = table.ids,
         \A q \in Requests :
           ~ Done(q)' => /\ pc'[q] = pc[q] /\ req'[q] = req[q]
                         /\ dimension'[req[q].at] = dimension[req[q].at]
  PROVE  Apt'
<1> SUFFICES ASSUME Quiet', NEW p \in Requests, ~ Done(p)'
             PROVE  /\ pc'[p][1] \in {"insert", "drop", "reset"} => Fits(req[p])'
                    /\ pc'[p][1] = "query" => table'.ids # {}
  BY DEF Apt
<1>1. Quiet
  BY QuietBefore DEF Quiet
<1>2. pc'[p] = pc[p] /\ req'[p] = req[p] /\ dimension'[req[p].at] = dimension[req[p].at]
  OBVIOUS
<1> QED BY <1>1, <1>2 DEF Apt, Fits, Done

-----------------------------------------------------------------------------
(* While nothing interrupts a resizing and the replicas agree, the table   *)
(* has their length, unless it is about to be dropped.                     *)
Undisturbed == Quiet /\ struck \cap {"interrupted", "foreign"} = {}

Agree == \A r, s \in serving : dimension[r] = dimension[s]

Dropping == \E q \in Requests : pc[q] = <<"drop", "run">>

OneWidth ==
  Undisturbed /\ Agree =>
    /\ serving = {} => table.dim = 0
    /\ \A r \in serving : table.dim \in {0, dimension[r]} \/ Dropping

LEMMA UndisturbedBefore ==
  ASSUME TypeInv, History, struck' \cap {"overlap", "interrupted", "foreign"} = {}
  PROVE  /\ Undisturbed /\ Agree /\ Stopped = {}
         /\ \A q \in Requests : pc[q][1] \in {"drop", "reset"} => up
<1>1. Quiet /\ struck \subseteq struck' /\ Happening \subseteq struck'
  BY QuietBefore
<1>2. "interrupted" \notin Happening /\ "foreign" \notin Happening
  BY <1>1
<1> QED BY <1>1, <1>2 DEF Undisturbed, Happening, Upsets, Agree, Resizing

LEMMA WidthStep ==
  ASSUME TypeInv, TypeInv', OneWidth, History, NEW q \in Requests, Alone(q),
         serving' = serving,
         Undisturbed /\ Undisturbed' /\ (pc[q][1] \in {"drop", "reset"} => up) =>
           \/ pc'[q] = <<"drop", "run">>
           \/ table'.dim = 0
           \/ /\ dimension' = dimension /\ pc[q] # <<"drop", "run">>
              /\ \/ table'.dim = table.dim
                 \/ \E r \in serving : table'.dim = dimension[r]
  PROVE  OneWidth'
<1> SUFFICES ASSUME Undisturbed', Agree'
             PROVE  /\ serving' = {} => table'.dim = 0
                    /\ \A r \in serving' : table'.dim \in {0, dimension'[r]} \/ Dropping'
  BY DEF OneWidth
<1>1. Undisturbed /\ Agree /\ (pc[q][1] \in {"drop", "reset"} => up)
  BY UndisturbedBefore DEF Undisturbed, Quiet
<1>2. CASE pc'[q] = <<"drop", "run">>
  <2>1. Dropping'
    BY <1>2 DEF Dropping
  <2>2. serving' # {}
    BY <1>2 DEF TypeInv, Sited
  <2> QED BY <2>1, <2>2
<1>3. CASE table'.dim = 0
  BY <1>3
<1>4. CASE dimension' = dimension /\ pc[q] # <<"drop", "run">> /\ table'.dim = table.dim
  <2>1. Dropping => Dropping'
    BY <1>4 DEF Dropping, Alone
  <2> QED BY <1>1, <1>4, <2>1 DEF OneWidth
<1>5. CASE dimension' = dimension /\ \E r \in serving : table'.dim = dimension[r]
  BY <1>1, <1>5 DEF Agree
<1> QED BY <1>1, <1>2, <1>3, <1>4, <1>5

LEMMA BeginKeepsWidth ==
  ASSUME TypeInv, TypeInv', OneWidth, History, NEW q \in Requests, Alone(q), Done(q),
         UNCHANGED <<serving, dimension, table>>
  PROVE  OneWidth'
<1>1. /\ serving' = serving /\ dimension' = dimension /\ table'.dim = table.dim
      /\ pc[q] # <<"drop", "run">>
  BY DEF Done
<1> QED BY <1>1, WidthStep

LEMMA CreateKeepsWidth ==
  ASSUME VectorAssumption, TypeInv, TypeInv', OneWidth, History, NEW q \in Requests,
         Alone(q), ~ Done(q), pc[q][2] = "creating", UNCHANGED <<serving, dimension>>,
         table' = WithTable(dimension[req[q].at])
  PROVE  OneWidth'
<1>1. req[q].at \in serving /\ dimension[req[q].at] \in Widths
  BY UnderWay, TypedState
<1>2. table'.dim = table.dim \/ table'.dim = dimension[req[q].at]
  BY <1>1, WithTableIs
<1>3. serving' = serving /\ dimension' = dimension /\ pc[q] # <<"drop", "run">>
  OBVIOUS
<1> QED BY <1>1, <1>2, <1>3, WidthStep

LEMMA TurnKeepsWidth ==
  ASSUME TypeInv, TypeInv', OneWidth, History, NEW q \in Requests, Turned(q)
  PROVE  OneWidth'
<1>1. PICK phase : Goes(q, phase) /\ Turns(q, phase)
  BY DEF Turned
<1>2. /\ Alone(q) /\ ~ Done(q) /\ serving' = serving /\ table' = table
      /\ dimension' = dimension
  BY <1>1 DEF Goes, Turned
<1>3. pc[q] = <<"drop", "run">> => ~ up
  BY <1>1 DEF Turns
<1> QED BY <1>2, <1>3, WidthStep

LEMMA ShrinkKeepsWidth ==
  ASSUME TypeInv, TypeInv', OneWidth, History, NEW q \in Requests, Shrinks(q)
  PROVE  OneWidth'
<1>1. Alone(q) /\ pc'[q] = <<"drop", "run">> /\ serving' = serving
  BY DEF Shrinks, Goes
<1> QED BY <1>1, WidthStep

LEMMA DropKeepsWidth ==
  ASSUME TypeInv, TypeInv', OneWidth, History, NEW q \in Requests, Emptied(q)
  PROVE  OneWidth'
<1>1. Alone(q) /\ table'.dim = 0 /\ serving' = serving
  BY DEF Emptied, Goes
<1> QED BY <1>1, WidthStep

LEMMA StoreKeepsWidth ==
  ASSUME TypeInv, TypeInv', OneWidth, History, NEW q \in Requests, Stores(q)
  PROVE  OneWidth'
<1>1. /\ Alone(q) /\ table'.dim = table.dim /\ serving' = serving
      /\ dimension' = dimension /\ pc[q] # <<"drop", "run">>
  BY DEF Stores, Goes
<1> QED BY <1>1, WidthStep

LEMMA BootKeepsWidth ==
  ASSUME VectorAssumption, TypeInv, TypeInv', OneWidth, History, NEW r \in Replicas,
         UNCHANGED <<pc, req, dimension>>, serving' = serving \cup {r},
         table' = table \/ table' = WithTable(dimension[r])
  PROVE  OneWidth'
<1> SUFFICES ASSUME Undisturbed', Agree', NEW s \in serving'
             PROVE  table'.dim \in {0, dimension'[s]} \/ Dropping'
  BY DEF OneWidth
<1>1. Undisturbed /\ Agree
  BY UndisturbedBefore DEF Undisturbed, Quiet
<1>2. dimension' = dimension /\ (Dropping => Dropping')
  BY DEF Dropping
<1>3. dimension[s] = dimension[r]
  BY <1>2 DEF Agree
<1>4. table'.dim = table.dim \/ table'.dim = dimension[r]
  BY TypedState, WithTableIs
<1>5. CASE table'.dim = dimension[r]
  BY <1>2, <1>3, <1>5
<1>6. CASE table'.dim = table.dim
  <2>1. CASE serving = {}
    BY <1>1, <1>6, <2>1 DEF OneWidth
  <2>2. CASE serving # {}
    <3>1. PICK t \in serving : TRUE
      BY <2>2
    <3>2. dimension[t] = dimension[r]
      BY <1>2, <3>1 DEF Agree
    <3>3. table.dim \in {0, dimension[t]} \/ Dropping
      BY <1>1, <3>1 DEF OneWidth
    <3> QED BY <1>2, <1>3, <1>6, <3>2, <3>3
  <2> QED BY <2>1, <2>2
<1> QED BY <1>4, <1>5, <1>6

LEMMA StillKeepsWidth ==
  ASSUME TypeInv, OneWidth, History, UNCHANGED <<pc, dimension, serving, table>>
  PROVE  OneWidth'
<1>1. Undisturbed' => Undisturbed /\ Agree
  BY UndisturbedBefore DEF Undisturbed, Quiet
<1> QED BY <1>1 DEF OneWidth, Dropping

LEMMA CrashKeepsWidth ==
  ASSUME TypeInv, OneWidth, History, NEW r \in serving \ serving'
  PROVE  OneWidth'
BY UndisturbedBefore DEF OneWidth, Stopped, Undisturbed, Quiet

-----------------------------------------------------------------------------
(* The answers.                                                            *)

WholeInv == TypeInv /\ Safe /\ Apt /\ OneWidth

Real(q) ==
  /\ struck' \cap {"overlap", "interrupted", "foreign"} = {}
       /\ Answers(q, "mismatch") /\ available[req[q].at] =>
         table.ids # {} /\ table.dim # req[q].dim
  /\ struck' \cap {"overlap", "blind"} = {} /\ Answers(q, "empty") =>
       ~ req[q].hoped

LEMMA OthersAreReal ==
  ASSUME NEW q \in Requests,
         pc'[q] = pc[q] \/ Done(q) \/ pc'[q][1] \notin {"mismatch", "empty"}
  PROVE  Real(q)
BY DEF Real, Answers, Done

LEMMA AloneIsReal ==
  ASSUME NEW q \in Requests, Alone(q),
         Done(q) \/ pc'[q][1] \notin {"mismatch", "empty"}
  PROVE  \A p \in Requests : Real(p)
BY OthersAreReal DEF Alone

(* An index that holds something, at a replica of another length than the  *)
(* vector's, is of another length than the vector's.                       *)
LEMMA MismatchIsReal ==
  ASSUME WholeInv, History, NEW q \in Requests, ~ Done(q),
         struck' \cap {"overlap", "interrupted", "foreign"} = {},
         ~ Fits(req[q]), table.ids # {}, pc[q][1] \notin {"drop", "reset"}
  PROVE  table.dim # req[q].dim
<1>1. TypeInv /\ Undisturbed /\ Agree /\ OneWidth
  BY UndisturbedBefore DEF WholeInv, Undisturbed, Quiet
<1>2. req[q].at \in serving /\ table.dim # 0
  BY <1>1, UnderWay DEF TypeInv
<1>3. ~ Dropping
  BY <1>1, ResizesAlone DEF Dropping, Undisturbed
<1>4. table.dim = dimension[req[q].at]
  BY <1>1, <1>2, <1>3 DEF OneWidth
<1> QED BY <1>4 DEF Fits

LEMMA TurnIsReal ==
  ASSUME WholeInv, History, NEW q \in Requests, Turned(q), NEW p \in Requests
  PROVE  Real(p)
<1>1. PICK phase : Goes(q, phase) /\ Turns(q, phase)
  BY DEF Turned
<1>2. Alone(q) /\ ~ Done(q) /\ pc'[q] = phase
  BY <1>1 DEF Goes
<1>3. CASE p # q
  BY <1>2, <1>3, OthersAreReal DEF Alone
<1>4. ASSUME struck' \cap {"overlap", "interrupted", "foreign"} = {},
             phase = <<"mismatch", "done">>, available[req[q].at]
      PROVE  table.ids # {} /\ table.dim # req[q].dim
  <2>1. TypeInv /\ Apt /\ Undisturbed
    BY <1>4, UndisturbedBefore DEF WholeInv
  <2>2. ~ Fits(req[q])
    BY <1>1, <1>4 DEF Turns, Settled, Inserting, Querying
  <2>3. pc[q][1] \notin {"insert", "drop", "reset"}
    BY <1>2, <2>1, <2>2 DEF Apt, Undisturbed
  <2>4. \/ pc[q] = <<"count", "run">> /\ Settled(q, Empty, phase)
        \/ pc[q] = <<"count", "creating">> /\ Settled(q, TRUE, phase)
        \/ pc[q][1] = "query"
    BY <1>1, <1>4, <2>3 DEF Turns
  <2>5. table.ids # {}
    <3>1. CASE Settled(q, Empty, phase)
      BY <1>4, <3>1 DEF Settled, Empty, Inserting, Querying
    <3>2. CASE Settled(q, TRUE, phase)
      BY <1>4, <3>2 DEF Settled, Inserting
    <3>3. CASE pc[q][1] = "query"
      BY <1>2, <2>1, <3>3 DEF Apt, Undisturbed
    <3> QED BY <2>4, <3>1, <3>2, <3>3
  <2> QED BY <1>2, <1>4, <2>2, <2>3, <2>5, MismatchIsReal
<1>5. ASSUME struck' \cap {"overlap", "blind"} = {}, phase = <<"empty", "done">>
      PROVE  ~ req[q].hoped
  <2>1. TypeInv /\ Safe
    BY DEF WholeInv
  <2>2. Reliable
    BY <1>5, <2>1, QuietBefore DEF Reliable
  <2>3. req[q].hoped => stored # {} /\ pc[q] # <<"count", "creating">>
    BY <1>2, <2>1 DEF TypeInv, Sited, Starts, Done
  <2>4. \/ pc[q] = <<"count", "run">> /\ Settled(q, Empty, phase)
        \/ pc[q] = <<"count", "creating">>
    BY <1>1, <1>5 DEF Turns, Inserting, Querying
  <2>5. CASE Settled(q, Empty, phase)
    <3>1. table.ids = {}
      BY <1>5, <2>5 DEF Settled, Empty, Inserting, Querying
    <3> QED BY <3>1, <2>1, <2>2, <2>3 DEF Safe, StoredIsKept, Reliable, Quiet
  <2> QED BY <2>3, <2>4, <2>5
<1>6. CASE p = q
  BY <1>2, <1>4, <1>5, <1>6 DEF Real, Answers
<1> QED BY <1>3, <1>6

LEMMA DropIsReal ==
  ASSUME WholeInv, History, NEW q \in Requests, Emptied(q), NEW p \in Requests
  PROVE  Real(p)
<1>1. PICK phase : /\ Goes(q, phase)
                   /\ \/ phase = <<"reset", "creating">>
                      \/ Fits(req[q]) /\ phase \in Inserting
                      \/ ~ Fits(req[q]) /\ phase = <<"mismatch", "done">>
  BY DEF Emptied
<1>2. Alone(q) /\ ~ Done(q) /\ pc'[q] = phase /\ pc[q][1] = "drop"
  BY <1>1 DEF Emptied, Goes
<1>3. phase[1] # "empty" /\ (Fits(req[q]) => phase[1] # "mismatch")
  BY <1>1 DEF Inserting
<1>4. "overlap" \notin struck' => Fits(req[q])
  BY <1>2, QuietBefore DEF Apt, WholeInv
<1>5. CASE Fits(req[q])
  BY <1>2, <1>3, <1>5, AloneIsReal
<1>6. CASE ~ Fits(req[q])
  <2>1. Real(q)
    BY <1>2, <1>3, <1>4, <1>6 DEF Real, Answers
  <2> QED BY <1>2, <2>1, OthersAreReal DEF Alone
<1> QED BY <1>5, <1>6

LEMMA NextIsWhole ==
  ASSUME VectorAssumption, WholeInv, Next
  PROVE  WholeInv' /\ \A q \in Requests : Real(q)
<1>0. TypeInv /\ TypeInv' /\ History /\ Safe /\ Apt /\ OneWidth
  BY NextGoes DEF WholeInv
<1>1. ASSUME NEW q \in Requests, Begun(q)
      PROVE  WholeInv' /\ \A p \in Requests : Real(p)
  BY <1>0, <1>1, BeginIsSafe, BeginIsApt, BeginKeepsWidth, AloneIsReal DEF Begun, WholeInv
<1>2. ASSUME NEW q \in Requests, Made(q)
      PROVE  WholeInv' /\ \A p \in Requests : Real(p)
  <2>1. Safe' /\ Apt' /\ OneWidth'
    BY <1>0, <1>2, CreateIsSafe, CreateIsApt, CreateKeepsWidth DEF Made
  <2>2. pc[q][1] \in Calls
    BY <1>0, <1>2, UnderWay DEF Made
  <2>3. \A p \in Requests : Real(p)
    BY <1>2, <2>2, AloneIsReal DEF Made, Calls
  <2> QED BY <1>0, <2>1, <2>3 DEF WholeInv
<1>3. ASSUME NEW q \in Requests, Turned(q)
      PROVE  WholeInv' /\ \A p \in Requests : Real(p)
  BY <1>0, <1>3, TurnIsSafe, TurnIsApt, TurnKeepsWidth, TurnIsReal DEF WholeInv
<1>4. ASSUME NEW q \in Requests, Shrinks(q)
      PROVE  WholeInv' /\ \A p \in Requests : Real(p)
  <2>1. \A p \in Requests : Real(p)
    BY <1>4, AloneIsReal DEF Shrinks, Goes
  <2> QED BY <1>0, <1>4, <2>1, ShrinkIsSafe, ShrinkIsApt, ShrinkKeepsWidth DEF WholeInv
<1>5. ASSUME NEW q \in Requests, Emptied(q)
      PROVE  WholeInv' /\ \A p \in Requests : Real(p)
  BY <1>0, <1>5, DropIsSafe, DropIsApt, DropKeepsWidth, DropIsReal DEF WholeInv
<1>6. ASSUME NEW q \in Requests, Stores(q)
      PROVE  WholeInv' /\ \A p \in Requests : Real(p)
  <2>1. \A p \in Requests : Real(p)
    BY <1>6, AloneIsReal DEF Stores, Goes, Recounting
  <2> QED BY <1>0, <1>6, <2>1, StoreIsSafe, StoreIsApt, StoreKeepsWidth DEF WholeInv
<1>7. ASSUME NEW r \in Replicas, Booted(r)
      PROVE  WholeInv' /\ \A p \in Requests : Real(p)
  <2>1. Safe' /\ Apt' /\ OneWidth'
    BY <1>0, <1>7, OthersAreSafe, OthersAreApt, BootKeepsWidth DEF Booted
  <2> QED BY <1>0, <1>7, <2>1, OthersAreReal DEF Booted, WholeInv
<1>8. ASSUME NEW r \in Replicas, Crashed(r)
      PROVE  WholeInv' /\ \A p \in Requests : Real(p)
  <2>1. Safe' /\ Apt' /\ OneWidth'
    BY <1>0, <1>8, OthersAreSafe, OthersAreApt, CrashKeepsWidth DEF Crashed
  <2>2. \A q \in Requests : Real(q)
    BY <1>8, OthersAreReal DEF Crashed
  <2> QED BY <1>0, <2>1, <2>2 DEF WholeInv
<1>9. ASSUME Still PROVE WholeInv' /\ \A p \in Requests : Real(p)
  <2>1. Safe' /\ Apt' /\ OneWidth'
    BY <1>0, <1>9, OthersAreSafe, OthersAreApt, StillKeepsWidth DEF Still
  <2> QED BY <1>0, <1>9, <2>1, OthersAreReal DEF Still, WholeInv
<1>10. TypeInv
  BY <1>0
<1> QED
  BY <1>1, <1>2, <1>3, <1>4, <1>5, <1>6, <1>7, <1>8, <1>9, <1>10, NextGoes

(* The invariant from which the properties follow.                         *)
THEOREM WholeInvHolds == Spec => []WholeInv
<1>1. Init => WholeInv
  <2> SUFFICES ASSUME Init PROVE WholeInv
    OBVIOUS
  <2>1. TypeInv
    BY VectorAssumption DEF VectorAssumption, Init, TypeInv, TypeOK, Sited, Widths, Places
  <2>2. \A q \in Requests : Done(q) /\ pc[q] # <<"drop", "run">>
    BY DEF Init, Done
  <2> QED BY <2>1, <2>2 DEF Init, WholeInv, Safe, StoredIsKept, Apt, OneWidth
<1>2. WholeInv /\ [Next]_vars => WholeInv'
  <2>1. CASE Next
    BY <2>1, VectorAssumption, NextIsWhole
  <2>2. CASE UNCHANGED vars
    BY <2>2 DEF vars, replica, world, WholeInv, TypeInv, TypeOK, Sited, Safe,
       StoredIsKept, Reliable, Quiet, Overlap, Resizing, Apt, Fits, OneWidth,
       Undisturbed, Agree, Dropping, Done
  <2> QED BY <2>1, <2>2
<1> QED BY <1>1, <1>2, PTL DEF Spec

(* Every variable keeps its type.                                          *)
THEOREM TypeCorrect == Spec => []TypeOK
<1>1. WholeInv => TypeOK
  BY DEF WholeInv, TypeInv
<1> QED BY <1>1, WholeInvHolds, PTL

(* An image whose indexing was acknowledged stays in the table, for any    *)
(* number of replicas, requests, outages and restarts and for vectors of   *)
(* any length, until a request overlaps one that resizes the index, or one *)
(* takes a database that does not answer for an empty index.               *)
THEOREM AcknowledgedIsKept == Spec => []StoredIsKept
<1>1. WholeInv => StoredIsKept
  BY DEF WholeInv, Safe
<1> QED BY <1>1, WholeInvHolds, PTL

(* A vector is refused for its length only by an index that holds vectors  *)
(* of another length, and an index is called empty only to one who began   *)
(* before anything was stored.                                             *)
THEOREM AnswersStayReal == Spec => AnswersAreReal
<1>1. WholeInv /\ [Next]_vars =>
        [\A q \in Requests :
           /\ struck' \cap {"overlap", "interrupted", "foreign"} = {}
                /\ Answers(q, "mismatch") /\ available[req[q].at] =>
                  table.ids # {} /\ table.dim # req[q].dim
           /\ struck' \cap {"overlap", "blind"} = {} /\ Answers(q, "empty") =>
                ~ req[q].hoped]_vars
  BY VectorAssumption, NextIsWhole DEF Real
<1> QED BY <1>1, WholeInvHolds, PTL DEF Spec, AnswersAreReal

-----------------------------------------------------------------------------
(* Vectors of one length: nothing is ever resized.                         *)

OneLength == Dims = {Configured}

SteadyInv ==
  /\ TypeInv
  /\ \A r \in Replicas : dimension[r] = Configured
  /\ \A q \in Requests : ~ Done(q) =>
       /\ pc[q][1] \notin {"drop", "reset"}
       /\ pc[q][1] = "recount" => req[q].id \in table.ids
  /\ stored \subseteq table.ids

(* A vector always has the length its replica expects.                     *)
LEMMA AlwaysFits ==
  ASSUME OneLength, SteadyInv, NEW q \in Requests, ~ Done(q)
  PROVE  Fits(req[q])
BY UnderWay DEF OneLength, SteadyInv, Fits

(* One request moves, and no id leaves the table.                          *)
LEMMA SteadyStep ==
  ASSUME SteadyInv, TypeInv', History, NEW q \in Requests, Alone(q),
         dimension' = dimension, table.ids \subseteq table'.ids,
         pc'[q][1] \notin {"drop", "reset"},
         pc'[q][1] = "recount" => req'[q].id \in table'.ids,
         Answers(q, "stored") => req[q].id \in table'.ids
  PROVE  SteadyInv'
<1>1. stored' \subseteq table'.ids
  <2>1. ASSUME NEW p \in Requests, Answers(p, "stored")
        PROVE  req[p].id \in table'.ids
    <3>1. p = q
      BY <2>1 DEF Answers, Alone, Done
    <3> QED BY <2>1, <3>1
  <2> QED BY <2>1 DEF History, Told, SteadyInv
<1>2. ASSUME NEW p \in Requests, ~ Done(p)'
      PROVE  /\ pc'[p][1] \notin {"drop", "reset"}
             /\ pc'[p][1] = "recount" => req'[p].id \in table'.ids
  BY <1>2 DEF Alone, SteadyInv, Done
<1> QED BY <1>1, <1>2 DEF SteadyInv

LEMMA NextIsSteady ==
  ASSUME VectorAssumption, OneLength, SteadyInv, Next
  PROVE  SteadyInv'
<1>0. TypeInv /\ TypeInv' /\ History
  BY NextGoes DEF SteadyInv
<1>1. ASSUME NEW q \in Requests, Begun(q) PROVE SteadyInv'
  <2>1. /\ dimension' = dimension /\ table' = table /\ Alone(q) /\ Done(q)
        /\ pc'[q][1] \notin {"drop", "reset", "recount"}
    BY <1>1 DEF Begun, Counting
  <2> QED BY <1>0, <2>1, SteadyStep DEF Answers
<1>2. ASSUME NEW q \in Requests, Made(q) PROVE SteadyInv'
  <2>1. /\ dimension' = dimension /\ table'.ids = table.ids /\ Alone(q) /\ ~ Done(q)
        /\ req'[q] = req[q] /\ pc'[q] = <<pc[q][1], "created">>
    BY <1>2 DEF Made
  <2>2. ~ Answers(q, "stored")
    BY <2>1 DEF Answers
  <2> QED BY <1>0, <2>1, <2>2, SteadyStep DEF SteadyInv
<1>3. ASSUME NEW q \in Requests, Turned(q) PROVE SteadyInv'
  <2>1. PICK phase : Goes(q, phase) /\ Turns(q, phase)
    BY <1>3 DEF Turned
  <2>2. /\ dimension' = dimension /\ table' = table /\ Alone(q) /\ ~ Done(q)
        /\ pc'[q] = phase /\ (phase[2] # "done" => req'[q] = req[q])
    BY <1>3, <2>1 DEF Turned, Goes
  <2>3. /\ pc[q][1] \in Calls \ {"drop", "reset"}
        /\ pc[q][1] = "recount" => req[q].id \in table.ids
    BY <1>0, <2>2, UnderWay DEF SteadyInv
  <2>4. phase[1] \notin {"drop", "reset"}
    BY <2>1, <2>3 DEF Turns, Settled, Inserting, Querying
  <2>5. phase[1] \in {"recount", "stored"} => pc[q][1] = "recount"
    BY <2>1, <2>3 DEF Turns, Settled, Inserting, Querying, Calls
  <2>6. phase[1] = "recount" => phase[2] # "done"
    BY <2>1 DEF Goes, Onward, Places, Outcomes
  <2> QED BY <1>0, <2>2, <2>3, <2>4, <2>5, <2>6, SteadyStep DEF Answers
<1>4. ASSUME NEW q \in Requests, Shrinks(q) \/ Emptied(q) PROVE SteadyInv'
  <2>1. ~ Done(q) /\ (~ Fits(req[q]) \/ pc[q][1] = "drop")
    BY <1>4 DEF Shrinks, Emptied, Goes
  <2> QED BY <2>1, AlwaysFits DEF SteadyInv
<1>5. ASSUME NEW q \in Requests, Stores(q) PROVE SteadyInv'
  <2>1. PICK phase \in Recounting : Goes(q, phase)
    BY <1>5 DEF Stores
  <2>2. /\ dimension' = dimension /\ table'.ids = table.ids \cup {req[q].id}
        /\ Alone(q) /\ pc'[q] = phase /\ (phase[2] # "done" => req'[q] = req[q])
    BY <1>5, <2>1 DEF Stores, Goes
  <2>3. phase[1] \notin {"drop", "reset"} /\ (phase[1] = "recount" => phase[2] # "done")
    BY DEF Recounting
  <2> QED BY <1>0, <2>2, <2>3, SteadyStep
<1>6. ASSUME NEW r \in Replicas, Booted(r) \/ Crashed(r) PROVE SteadyInv'
  <2>1. /\ table'.ids = table.ids
        /\ \A s \in Replicas : dimension'[s] = Configured
        /\ \A q \in Requests : /\ ~ Done(q)' => pc'[q] = pc[q] /\ req'[q] = req[q]
                               /\ pc'[q] = pc[q] \/ pc'[q] = <<"failed", "done">>
    BY <1>0, <1>6, TypedState DEF Booted, Crashed, SteadyInv
  <2>2. Told = {}
    BY <2>1 DEF Told, Answers, Done
  <2> QED BY <1>0, <2>1, <2>2 DEF SteadyInv, History, Done
<1>7. ASSUME Still PROVE SteadyInv'
  <2>1. Told = {}
    BY <1>7 DEF Still, Told, Answers, Done
  <2> QED BY <1>0, <1>7, <2>1 DEF SteadyInv, Still, History, Done
<1> QED BY <1>0, <1>1, <1>2, <1>3, <1>4, <1>5, <1>6, <1>7, NextGoes

(* While every embedding model gives vectors of the configured length, an  *)
(* image whose indexing was acknowledged stays in the table, whatever      *)
(* overlaps and whatever database does not answer.                         *)
THEOREM NothingIsLost ==
  ASSUME OneLength
  PROVE  Spec => [](stored \subseteq table.ids /\ StoredIsKept)
<1>1. Init => SteadyInv
  <2> SUFFICES ASSUME Init PROVE SteadyInv
    OBVIOUS
  <2>1. TypeInv
    BY VectorAssumption DEF VectorAssumption, Init, TypeInv, TypeOK, Sited, Widths, Places
  <2> QED BY <2>1 DEF Init, SteadyInv, Done
<1>2. SteadyInv /\ [Next]_vars => SteadyInv'
  <2>1. CASE Next
    BY <2>1, VectorAssumption, NextIsSteady
  <2>2. CASE UNCHANGED vars
    BY <2>2 DEF vars, replica, world, SteadyInv, TypeInv, TypeOK, Sited, Done
  <2> QED BY <2>1, <2>2
<1>3. SteadyInv => stored \subseteq table.ids /\ StoredIsKept
  BY DEF SteadyInv, StoredIsKept
<1> QED BY <1>1, <1>2, <1>3, PTL DEF Spec

-----------------------------------------------------------------------------
(* The index an API process keeps in memory (MemoryIndex).                 *)

Lengths == Dims \cup {Configured}
Indices == [dimension : Lengths, width : Lengths, vectors : Seq(Images), items : Seq(Images)]

Inside == {"install", "check", "ready"}
Passed == Inside \cup {"load", "return"}

(* Who is past the making of an index has one; whoever loads has files.    *)
MemoryTypeInv ==
  /\ disk \in Memory!Disks
  /\ built \in Seq(Indices) /\ current \in 0 .. Len(built)
  /\ place \in [Requests -> Memory!Places]
  /\ ask \in [Requests -> Memory!Asks \cup {Memory!NoAsk}]
  /\ use \in [Requests -> 0 .. Len(built)]
  /\ told \in SUBSET Images /\ asked \in 0 .. MaxAsked /\ raced \in BOOLEAN
  /\ \A q \in Requests :
       /\ place[q] \in Passed => current # 0
       /\ place[q] \in Inside => use[q] # 0
       /\ place[q] \in {"install", "check"} => disk # Memory!NoFile
       /\ place[q] # "idle" => ask[q] \in Memory!Asks

LEMMA EmptyIsIndex ==
  ASSUME Memory!MemoryAssumption, NEW dim \in Lengths
  PROVE  /\ Memory!Cleared(dim) \in Indices
         /\ Memory!Cleared(dim).vectors = <<>> /\ Memory!Cleared(dim).items = <<>>
         /\ Memory!Cleared(dim).dimension = dim
  BY DEF Memory!Cleared, Indices

LEMMA SavesAreLists ==
  ASSUME NEW save \in Memory!Saves
  PROVE  save.ids \in Seq(Images) /\ save.dimension \in Lengths
<1>1. save.dimension \in Lengths /\ save.ids \in Memory!Lists
  BY DEF Memory!Saves, Lengths
<1>2. PICK n \in 0 .. 2 : save.ids \in [1 .. n -> Images]
  BY <1>1 DEF Memory!Lists
<1> QED
  BY <1>1, <1>2

LEMMA LoadedIsIndex ==
  ASSUME disk \in Memory!Disks, disk # Memory!NoFile
  PROVE  /\ Memory!Loaded \in Indices
         /\ Memory!Loaded.vectors = disk.vectors.ids /\ Memory!Loaded.items = disk.meta.ids
<1>1. disk.vectors \in Memory!Saves /\ disk.meta \in Memory!Saves
  BY DEF Memory!Disks
<1> QED
  BY <1>1, SavesAreLists DEF Memory!Loaded, Indices

LEMMA SizedIsIndex ==
  ASSUME Memory!MemoryAssumption, NEW index \in Indices, NEW dim \in Dims
  PROVE  /\ Memory!Sized(index, dim) \in Indices
         /\ \/ Memory!Sized(index, dim) = index
            \/ /\ index.items = <<>> /\ Memory!Sized(index, dim).items = <<>>
               /\ Memory!Sized(index, dim).vectors = <<>>
<1>1. dim \in Lengths
  BY DEF Lengths
<1> QED
  BY <1>1, EmptyIsIndex DEF Memory!Sized

LEMMA AddedIsIndex ==
  ASSUME NEW index \in Indices, NEW id \in Images
  PROVE  /\ Memory!Added(index, id) \in Indices
         /\ Memory!Added(index, id).vectors = Append(index.vectors, id)
         /\ Memory!Added(index, id).items = Append(index.items, id)
<1> DEFINE v == Append(index.vectors, id)
           i == Append(index.items, id)
<1>1. Memory!Added(index, id) = [index EXCEPT !.vectors = v, !.items = i]
  BY DEF Memory!Added
<1>2. v \in Seq(Images) /\ i \in Seq(Images)
  BY DEF Indices
<1> HIDE DEF v, i
<1>3. /\ [index EXCEPT !.vectors = v, !.items = i] \in Indices
      /\ [index EXCEPT !.vectors = v, !.items = i].vectors = v
      /\ [index EXCEPT !.vectors = v, !.items = i].items = i
  BY <1>2 DEF Indices
<1> QED
  BY <1>1, <1>3 DEF v, i

(* What a request does to the index it has its hands on, if anything.      *)
Indexing(q) ==
  \E index \in Indices :
    /\ built' = [built EXCEPT ![use[q]] = index]
    /\ LET sized == Memory!Sized(built[use[q]], ask[q].dim) IN
       \/ index = sized /\ UNCHANGED told
       \/ index = Memory!Added(sized, ask[q].id) /\ told' = told \cup {ask[q].id}

LEMMA IndexAsked ==
  ASSUME Memory!MemoryAssumption, MemoryTypeInv, NEW q \in Requests, Memory!IndexImage(q)
  PROVE  /\ Indexing(q) /\ use[q] \in 1 .. Len(built) /\ built[use[q]] \in Indices
         /\ ask[q].id \in Images /\ ask[q].dim \in Dims
<1>1. place[q] = "ready" /\ ask[q].kind = "index"
  BY DEF Memory!IndexImage, Memory!At
<1>2. ask[q] \in Memory!Asks /\ use[q] \in 1 .. Len(built)
  BY <1>1 DEF MemoryTypeInv, Inside
<1>3. ask[q].id \in Images /\ ask[q].dim \in Dims
  BY <1>1, <1>2 DEF Memory!Asks
<1>4. built[use[q]] \in Indices
  BY <1>2 DEF MemoryTypeInv
<1> DEFINE sized == Memory!Sized(built[use[q]], ask[q].dim)
<1>5. sized \in Indices
  BY <1>3, <1>4, SizedIsIndex
<1>6. Memory!Added(sized, ask[q].id) \in Indices
  BY <1>3, <1>5, AddedIsIndex
<1>7. Indexing(q)
  BY <1>5, <1>6 DEF Memory!IndexImage, Indexing
<1> QED
  BY <1>2, <1>3, <1>4, <1>7

(* The items of an index with their own vectors, and all that callers were *)
(* told of.                                                                *)
Paired(index) ==
  /\ index.vectors = index.items
  /\ \A id \in told : \E k \in DOMAIN index.items : index.items[k] = id

Loading == {"load", "install", "check"}

(* As long as no requests meet, the index is made by one of them alone,    *)
(* before anybody has his hands on it.                                     *)
MadeAlone ==
  /\ \A q, r \in Memory!Building : q = r
  /\ current = 0 =>
       /\ built = <<>> /\ told = {}
       /\ \A q \in Requests : place[q] \in {"idle", "resolve", "build"}
  /\ current # 0 => current = 1 /\ Len(built) = 1
  /\ \A q \in Requests :
       /\ place[q] = "build" => current = 0
       /\ place[q] \in Loading =>
            /\ told = {}
            /\ \A r \in Requests : place[r] \notin {"return", "ready"}
       /\ place[q] \in {"load", "install"} =>
            built[1].items = <<>> /\ built[1].vectors = <<>>
       /\ place[q] = "check" => built[1] = Memory!Loaded
  /\ current # 0 /\ Memory!Building = {} /\ ~ Memory!Mixed => Paired(built[1])

MemoryInv == MemoryTypeInv /\ (~ raced => MadeAlone)

LEMMA MemoryInitOK ==
  ASSUME Memory!MemoryAssumption, Memory!Init
  PROVE  MemoryInv
<1>1. /\ disk \in Memory!Disks /\ built = <<>> /\ current = 0 /\ told = {} /\ asked = 0
      /\ raced = FALSE
      /\ place = [q \in Requests |-> "idle"] /\ use = [q \in Requests |-> 0]
      /\ ask = [q \in Requests |-> Memory!NoAsk]
  BY DEF Memory!Init
<1>2. MaxAsked \in Nat
  BY DEF Memory!MemoryAssumption
<1>3. built \in Seq(Indices) /\ Len(built) = 0
  BY <1>1
<1>4. /\ current \in 0 .. Len(built) /\ use \in [Requests -> 0 .. Len(built)]
      /\ asked \in 0 .. MaxAsked /\ told \in SUBSET Images /\ raced \in BOOLEAN
  <2>1. 0 \in 0 .. Len(built) /\ 0 \in 0 .. MaxAsked
    BY <1>2, <1>3
  <2> QED
    BY <1>1, <2>1
<1>5. /\ place \in [Requests -> Memory!Places]
      /\ ask \in [Requests -> Memory!Asks \cup {Memory!NoAsk}]
      /\ \A q \in Requests : place[q] = "idle"
  BY <1>1 DEF Memory!Places
<1>6. MemoryTypeInv
  BY <1>1, <1>3, <1>4, <1>5 DEF MemoryTypeInv, Passed, Inside
<1>7. MadeAlone
  BY DEF Memory!Init, MadeAlone, Memory!Building, Loading
<1> QED
  BY <1>6, <1>7 DEF MemoryInv

(* What the next state has to be, over the sets, which do not change.      *)
LEMMA TypedNext ==
  ASSUME disk' \in Memory!Disks, built' \in Seq(Indices), current' \in 0 .. Len(built'),
         place' \in [Requests -> Memory!Places],
         ask' \in [Requests -> Memory!Asks \cup {Memory!NoAsk}],
         use' \in [Requests -> 0 .. Len(built')],
         told' \in SUBSET Images, asked' \in 0 .. MaxAsked, raced' \in BOOLEAN,
         \A q \in Requests :
           /\ place'[q] \in Passed => current' # 0
           /\ place'[q] \in Inside => use'[q] # 0
           /\ place'[q] \in {"install", "check"} => disk' # Memory!NoFile
           /\ place'[q] # "idle" => ask'[q] \in Memory!Asks
  PROVE  MemoryTypeInv'
  BY DEF MemoryTypeInv, Memory!Disks, Memory!Saves, Memory!Lists, Memory!NoFile,
     Memory!NoAsk, Memory!Asks, Memory!Places, Indices, Lengths, Passed, Inside

(* A request goes on to another place.                                     *)
LEMMA PlaceMoves ==
  ASSUME MemoryTypeInv, NEW q \in Requests, NEW p \in Memory!Places, Memory!Goto(q, p)
  PROVE  /\ place' \in [Requests -> Memory!Places] /\ place'[q] = p
         /\ \A r \in Requests : r # q => place'[r] = place[r]
  BY DEF MemoryTypeInv, Memory!Goto

LEMMA BeginKeepsMemory ==
  ASSUME Memory!MemoryAssumption, MemoryInv, NEW q \in Requests, NEW a \in Memory!Asks,
         Memory!Begin(q, a)
  PROVE  MemoryInv'
<1>1. /\ place[q] = "idle" /\ asked < MaxAsked /\ Memory!Goto(q, "resolve")
      /\ ask' = [ask EXCEPT ![q] = a] /\ asked' = asked + 1
      /\ UNCHANGED <<disk, built, current, use, told, raced>>
  BY DEF Memory!Begin, Memory!At
<1>2. /\ place' \in [Requests -> Memory!Places] /\ place'[q] = "resolve"
      /\ \A r \in Requests : r # q => place'[r] = place[r]
  BY <1>1, PlaceMoves DEF MemoryInv, Memory!Places
<1>3. ask' \in [Requests -> Memory!Asks \cup {Memory!NoAsk}] /\ ask'[q] \in Memory!Asks
      /\ \A r \in Requests : r # q => ask'[r] = ask[r]
  BY <1>1 DEF MemoryInv, MemoryTypeInv
<1>4. asked' \in 0 .. MaxAsked
  BY <1>1 DEF MemoryInv, MemoryTypeInv, Memory!MemoryAssumption
<1>5. MemoryTypeInv'
  BY <1>1, <1>2, <1>3, <1>4, TypedNext DEF MemoryInv, MemoryTypeInv, Passed, Inside
<1>6. Memory!Building' = Memory!Building
  BY <1>1, <1>2 DEF Memory!Building
<1>7. MadeAlone => MadeAlone'
  BY <1>1, <1>2, <1>6 DEF MadeAlone, Loading, Paired, Memory!Loaded, Memory!Mixed, Memory!NoFile
<1> QED
  BY <1>1, <1>5, <1>7 DEF MemoryInv

LEMMA ResolveKeepsMemory ==
  ASSUME Memory!MemoryAssumption, MemoryInv, NEW q \in Requests, Memory!Resolve(q)
  PROVE  MemoryInv'
<1> DEFINE p == IF current = 0 THEN "build" ELSE "return"
<1>1. /\ place[q] = "resolve" /\ Memory!Goto(q, p)
      /\ raced' = (raced \/ Memory!Building # {})
      /\ UNCHANGED <<disk, built, current, ask, use, told, asked>>
  BY DEF Memory!Resolve, Memory!At
<1>2. /\ place' \in [Requests -> Memory!Places] /\ place'[q] = p
      /\ \A r \in Requests : r # q => place'[r] = place[r]
  BY <1>1, PlaceMoves DEF MemoryInv, Memory!Places
<1>3. MemoryTypeInv'
  BY <1>1, <1>2, TypedNext DEF MemoryInv, MemoryTypeInv, Passed, Inside
<1>4. ASSUME ~raced, Memory!Building = {}, MadeAlone PROVE MadeAlone'
  <2>1. CASE current = 0
    <3>1. p = "build"
      BY <2>1
    <3>2. Memory!Building' = {q}
      BY <1>2, <1>4, <3>1 DEF Memory!Building
    <3> QED
      BY <1>1, <1>2, <1>4, <2>1, <3>1, <3>2 DEF MadeAlone, Loading, Memory!Building
  <2>2. CASE current # 0
    <3>1. p = "return"
      BY <2>2
    <3>2. Memory!Building' = {}
      BY <1>2, <1>4, <3>1 DEF Memory!Building
    <3>3. \A r \in Requests : place[r] \notin Loading /\ place'[r] \notin Loading \cup {"build"}
      BY <1>2, <1>4, <3>1, <3>2 DEF Memory!Building, Loading
    <3> QED
      BY <1>1, <1>2, <1>4, <2>2, <3>1, <3>2, <3>3 DEF MadeAlone, Loading, Paired, Memory!Loaded,
         Memory!Mixed, Memory!NoFile
  <2> QED
    BY <2>1, <2>2
<1> QED
  BY <1>1, <1>3, <1>4 DEF MemoryInv

LEMMA BuildKeepsMemory ==
  ASSUME Memory!MemoryAssumption, MemoryInv, NEW q \in Requests, Memory!Build(q)
  PROVE  MemoryInv'
<1> DEFINE index == Memory!Cleared(Configured)
<1>1. /\ place[q] = "build" /\ Memory!Goto(q, "load")
      /\ built' = Append(built, index) /\ current' = Len(built) + 1
      /\ UNCHANGED <<disk, ask, use, told, asked, raced>>
  BY DEF Memory!Build, Memory!At
<1>2. /\ place' \in [Requests -> Memory!Places] /\ place'[q] = "load"
      /\ \A r \in Requests : r # q => place'[r] = place[r]
  BY <1>1, PlaceMoves DEF MemoryInv, Memory!Places
<1>3. index \in Indices /\ index.vectors = <<>> /\ index.items = <<>>
  BY EmptyIsIndex DEF Lengths
<1> HIDE DEF index
<1>4. /\ built \in Seq(Indices) /\ current \in 0 .. Len(built)
      /\ use \in [Requests -> 0 .. Len(built)]
  BY DEF MemoryInv, MemoryTypeInv
<1>5. /\ built' \in Seq(Indices) /\ Len(built') = Len(built) + 1
      /\ current' \in 0 .. Len(built') /\ current' # 0
      /\ use' \in [Requests -> 0 .. Len(built')]
  BY <1>1, <1>3, <1>4
<1>6. MemoryTypeInv'
  BY <1>1, <1>2, <1>5, TypedNext DEF MemoryInv, MemoryTypeInv, Passed, Inside
<1>7. ASSUME MadeAlone PROVE MadeAlone'
  <2>1. current = 0 /\ built = <<>> /\ told = {}
    BY <1>1, <1>7 DEF MadeAlone
  <2>2. Memory!Building' = Memory!Building /\ q \in Memory!Building
    BY <1>1, <1>2 DEF Memory!Building
  <2>3. \A r \in Requests : r # q => place'[r] \in {"idle", "resolve"}
    <3>1. \A r \in Requests : r # q => r \notin Memory!Building
      BY <1>7, <2>2 DEF MadeAlone
    <3> QED
      BY <1>2, <1>7, <2>1, <3>1 DEF MadeAlone, Memory!Building
  <2>4. current' = 1 /\ Len(built') = 1 /\ built'[1] = index
    BY <1>1, <1>3, <2>1
  <2> QED
    BY <1>1, <1>2, <1>3, <1>7, <2>1, <2>2, <2>3, <2>4 DEF MadeAlone, Loading
<1> QED
  BY <1>1, <1>6, <1>7 DEF MemoryInv

LEMMA LoadKeepsMemory ==
  ASSUME Memory!MemoryAssumption, MemoryInv, NEW q \in Requests, Memory!Load(q)
  PROVE  MemoryInv'
<1> DEFINE p == IF disk = Memory!NoFile THEN "return" ELSE "install"
<1>1. /\ place[q] = "load" /\ Memory!Goto(q, p)
      /\ use' = [use EXCEPT ![q] = current]
      /\ UNCHANGED <<disk, built, current, ask, told, asked, raced>>
  BY DEF Memory!Load, Memory!At
<1>2. /\ place' \in [Requests -> Memory!Places] /\ place'[q] = p
      /\ \A r \in Requests : r # q => place'[r] = place[r]
  BY <1>1, PlaceMoves DEF MemoryInv, Memory!Places
<1>3. /\ current \in 0 .. Len(built) /\ current # 0
      /\ use \in [Requests -> 0 .. Len(built)]
  BY <1>1 DEF MemoryInv, MemoryTypeInv, Passed
<1>4. /\ use' \in [Requests -> 0 .. Len(built)] /\ use'[q] = current
      /\ \A r \in Requests : r # q => use'[r] = use[r]
  BY <1>1, <1>3
<1>5. MemoryTypeInv'
  BY <1>1, <1>2, <1>3, <1>4, TypedNext DEF MemoryInv, MemoryTypeInv, Passed, Inside
<1>6. ASSUME MadeAlone PROVE MadeAlone'
  <2>1. q \in Memory!Building /\ \A r \in Requests : r # q => r \notin Memory!Building
    BY <1>1, <1>6 DEF MadeAlone, Memory!Building
  <2>2. \A r \in Requests : r # q => place'[r] \in {"idle", "resolve"}
    BY <1>1, <1>2, <1>6, <2>1 DEF MadeAlone, Memory!Building, Loading, Memory!Places, MemoryInv,
       MemoryTypeInv
  <2>3. told = {} /\ built[1].items = <<>> /\ built[1].vectors = <<>>
        /\ current = 1 /\ Len(built) = 1
    BY <1>1, <1>3, <1>6 DEF MadeAlone, Loading
  <2>4. CASE disk = Memory!NoFile
    <3>1. Memory!Building' = {}
      BY <1>2, <2>2, <2>4 DEF Memory!Building
    <3>2. Paired(built[1])'
      BY <1>1, <2>3 DEF Paired
    <3> QED
      BY <1>1, <1>2, <2>2, <2>3, <2>4, <3>1, <3>2 DEF MadeAlone, Loading
  <2>5. CASE disk # Memory!NoFile
    <3>1. Memory!Building' = {q}
      BY <1>2, <2>2, <2>5 DEF Memory!Building
    <3> QED
      BY <1>1, <1>2, <2>2, <2>3, <2>5, <3>1 DEF MadeAlone, Loading
  <2> QED
    BY <2>4, <2>5
<1> QED
  BY <1>1, <1>5, <1>6 DEF MemoryInv

(* The object a request has its hands on is changed.                       *)
LEMMA ObjectChanges ==
  ASSUME MemoryTypeInv, NEW q \in Requests, use[q] # 0, NEW index \in Indices,
         built' = [built EXCEPT ![use[q]] = index]
  PROVE  /\ built' \in Seq(Indices) /\ Len(built') = Len(built) /\ built'[use[q]] = index
<1>1. use[q] \in 1 .. Len(built) /\ built \in Seq(Indices)
  BY DEF MemoryTypeInv
<1> QED
  BY <1>1

LEMMA InstallKeepsMemory ==
  ASSUME Memory!MemoryAssumption, MemoryInv, NEW q \in Requests, Memory!Install(q)
  PROVE  MemoryInv'
<1>1. /\ place[q] = "install" /\ Memory!Goto(q, "check")
      /\ built' = [built EXCEPT ![use[q]] = Memory!Loaded]
      /\ UNCHANGED <<disk, current, ask, use, told, asked, raced>>
  BY DEF Memory!Install, Memory!At
<1>2. /\ place' \in [Requests -> Memory!Places] /\ place'[q] = "check"
      /\ \A r \in Requests : r # q => place'[r] = place[r]
  BY <1>1, PlaceMoves DEF MemoryInv, Memory!Places
<1>3. /\ current \in 0 .. Len(built) /\ current # 0 /\ use[q] # 0
      /\ use \in [Requests -> 0 .. Len(built)] /\ disk # Memory!NoFile
      /\ disk \in Memory!Disks
  BY <1>1 DEF MemoryInv, MemoryTypeInv, Passed, Inside
<1>4. Memory!Loaded \in Indices
  BY <1>3, LoadedIsIndex
<1>5. built' \in Seq(Indices) /\ Len(built') = Len(built) /\ built'[use[q]] = Memory!Loaded
  BY <1>1, <1>3, <1>4, ObjectChanges DEF MemoryInv
<1>6. MemoryTypeInv'
  BY <1>1, <1>2, <1>3, <1>5, TypedNext DEF MemoryInv, MemoryTypeInv, Passed, Inside
<1>7. ASSUME MadeAlone PROVE MadeAlone'
  <2>1. q \in Memory!Building /\ \A r \in Requests : r # q => r \notin Memory!Building
    BY <1>1, <1>7 DEF MadeAlone, Memory!Building
  <2>2. \A r \in Requests : r # q => place'[r] \in {"idle", "resolve"}
    BY <1>1, <1>2, <1>7, <2>1 DEF MadeAlone, Memory!Building, Loading, Memory!Places, MemoryInv,
       MemoryTypeInv
  <2>3. told = {} /\ current = 1 /\ Len(built) = 1
    BY <1>1, <1>3, <1>7 DEF MadeAlone, Loading
  <2>4. use[q] = 1
    BY <1>3, <2>3
  <2>5. Memory!Building' = {q}
    BY <1>2, <2>2 DEF Memory!Building
  <2>6. Memory!Loaded' = Memory!Loaded
    BY <1>1 DEF Memory!Loaded
  <2> QED
    BY <1>1, <1>2, <1>5, <2>2, <2>3, <2>4, <2>5, <2>6 DEF MadeAlone, Loading
<1> QED
  BY <1>1, <1>6, <1>7 DEF MemoryInv

(* Files of two saves are told apart by their lengths, if these differ.    *)
LEMMA CheckKeepsMemory ==
  ASSUME Memory!MemoryAssumption, MemoryInv, NEW q \in Requests, Memory!Check(q)
  PROVE  MemoryInv'
<1> DEFINE index == built[use[q]]
           next == IF Memory!Inconsistent(index) THEN Memory!Cleared(index.dimension)
                   ELSE index
<1>1. /\ place[q] = "check" /\ Memory!Goto(q, "return")
      /\ built' = IF Memory!Inconsistent(index)
                  THEN [built EXCEPT ![use[q]] = Memory!Cleared(index.dimension)] ELSE built
      /\ UNCHANGED <<disk, current, ask, use, told, asked, raced>>
  BY DEF Memory!Check, Memory!At
<1>2. /\ place' \in [Requests -> Memory!Places] /\ place'[q] = "return"
      /\ \A r \in Requests : r # q => place'[r] = place[r]
  BY <1>1, PlaceMoves DEF MemoryInv, Memory!Places
<1>3. /\ current \in 0 .. Len(built) /\ current # 0 /\ use[q] # 0
      /\ use \in [Requests -> 0 .. Len(built)] /\ built \in Seq(Indices)
  BY <1>1 DEF MemoryInv, MemoryTypeInv, Passed, Inside
<1>4. index \in Indices /\ index.dimension \in Lengths
  <2>1. use[q] \in 1 .. Len(built)
    BY <1>3
  <2>2. index \in Indices
    BY <1>3, <2>1
  <2> HIDE DEF index
  <2> QED
    BY <2>2 DEF Indices
<1>5. /\ next \in Indices
      /\ Memory!Inconsistent(index) => next.vectors = <<>> /\ next.items = <<>>
  BY <1>4, EmptyIsIndex
<1>6. built' \in Seq(Indices) /\ Len(built') = Len(built) /\ built'[use[q]] = next
  <2>1. CASE Memory!Inconsistent(index)
    <3>1. built' = [built EXCEPT ![use[q]] = next]
      BY <1>1, <2>1
    <3> HIDE DEF next, index
    <3> QED
      BY <1>3, <1>5, <3>1, ObjectChanges DEF MemoryInv
  <2>2. CASE ~Memory!Inconsistent(index)
    BY <1>1, <1>3, <2>2
  <2> QED
    BY <2>1, <2>2
<1>7. MemoryTypeInv'
  <2> HIDE DEF next, index
  <2> QED
    BY <1>1, <1>2, <1>3, <1>6, TypedNext DEF MemoryInv, MemoryTypeInv, Passed, Inside
<1>8. ASSUME MadeAlone PROVE MadeAlone'
  <2>1. q \in Memory!Building /\ \A r \in Requests : r # q => r \notin Memory!Building
    BY <1>1, <1>8 DEF MadeAlone, Memory!Building
  <2>2. \A r \in Requests : r # q => place'[r] \in {"idle", "resolve"}
    BY <1>1, <1>2, <1>8, <2>1 DEF MadeAlone, Memory!Building, Loading, Memory!Places, MemoryInv,
       MemoryTypeInv
  <2>3. told = {} /\ current = 1 /\ Len(built) = 1 /\ built[1] = Memory!Loaded
    BY <1>1, <1>3, <1>8 DEF MadeAlone, Loading
  <2>4. use[q] = 1 /\ index = Memory!Loaded
    BY <1>3, <2>3
  <2>5. Memory!Building' = {}
    BY <1>2, <2>2 DEF Memory!Building
  <2>6. ~Memory!Mixed => next.vectors = next.items
    <3>1. disk \in Memory!Disks
      BY DEF MemoryInv, MemoryTypeInv
    <3>2. CASE Memory!Inconsistent(index)
      BY <1>5, <3>2
    <3>3. CASE ~Memory!Inconsistent(index)
      <4>1. /\ disk # Memory!NoFile
            /\ index.vectors = disk.vectors.ids /\ index.items = disk.meta.ids
        BY <1>1, <2>4, <3>1, LoadedIsIndex DEF MemoryInv, MemoryTypeInv
      <4>2. Len(index.vectors) = Len(index.items)
        BY <3>3 DEF Memory!Inconsistent
      <4>3. ~Memory!Mixed => disk.vectors.ids = disk.meta.ids
        BY <4>1, <4>2 DEF Memory!Mixed
      <4> QED
        BY <3>3, <4>1, <4>3
    <3> QED
      BY <3>2, <3>3
  <2>7. ~Memory!Mixed => Paired(built[1])'
    BY <1>1, <1>6, <2>3, <2>4, <2>6 DEF Paired
  <2>8. Memory!Mixed' = Memory!Mixed
    BY <1>1 DEF Memory!Mixed, Memory!NoFile
  <2> QED
    BY <1>1, <1>2, <1>6, <2>2, <2>3, <2>5, <2>7, <2>8 DEF MadeAlone, Loading
<1> QED
  BY <1>1, <1>7, <1>8 DEF MemoryInv

LEMMA ReturnKeepsMemory ==
  ASSUME Memory!MemoryAssumption, MemoryInv, NEW q \in Requests, Memory!Return(q)
  PROVE  MemoryInv'
<1>1. /\ place[q] = "return" /\ Memory!Goto(q, "ready")
      /\ use' = [use EXCEPT ![q] = current]
      /\ UNCHANGED <<disk, built, current, ask, told, asked, raced>>
  BY DEF Memory!Return, Memory!At
<1>2. /\ place' \in [Requests -> Memory!Places] /\ place'[q] = "ready"
      /\ \A r \in Requests : r # q => place'[r] = place[r]
  BY <1>1, PlaceMoves DEF MemoryInv, Memory!Places
<1>3. /\ current \in 0 .. Len(built) /\ current # 0
      /\ use \in [Requests -> 0 .. Len(built)]
  BY <1>1 DEF MemoryInv, MemoryTypeInv, Passed
<1>4. /\ use' \in [Requests -> 0 .. Len(built)] /\ use'[q] = current
      /\ \A r \in Requests : r # q => use'[r] = use[r]
  BY <1>1, <1>3
<1>5. MemoryTypeInv'
  BY <1>1, <1>2, <1>3, <1>4, TypedNext DEF MemoryInv, MemoryTypeInv, Passed, Inside
<1>6. Memory!Building' = Memory!Building
  BY <1>1, <1>2 DEF Memory!Building
<1>7. MadeAlone => MadeAlone'
  BY <1>1, <1>2, <1>3, <1>6 DEF MadeAlone, Loading, Paired, Memory!Loaded, Memory!Mixed,
     Memory!NoFile
<1> QED
  BY <1>1, <1>5, <1>7 DEF MemoryInv

(* A request that is ready is answered, and nothing is being made.         *)
LEMMA AnswerKeepsPlaces ==
  ASSUME MemoryTypeInv, NEW q \in Requests, Memory!Answered(q), place[q] = "ready"
  PROVE  /\ place' \in [Requests -> Memory!Places] /\ place'[q] = "idle"
         /\ ask' \in [Requests -> Memory!Asks \cup {Memory!NoAsk}]
         /\ use' \in [Requests -> 0 .. Len(built)]
         /\ \A r \in Requests : r # q =>
              place'[r] = place[r] /\ ask'[r] = ask[r] /\ use'[r] = use[r]
         /\ Memory!Building' = Memory!Building
         /\ MadeAlone => current = 1 /\ Len(built) = 1 /\ Memory!Building = {}
<1>1. /\ place' \in [Requests -> Memory!Places] /\ place'[q] = "idle"
      /\ \A r \in Requests : r # q => place'[r] = place[r]
  BY PlaceMoves DEF Memory!Answered, Memory!Places
<1>2. /\ ask' \in [Requests -> Memory!Asks \cup {Memory!NoAsk}]
      /\ \A r \in Requests : r # q => ask'[r] = ask[r]
  BY DEF MemoryTypeInv, Memory!Answered
<1>3. /\ use' \in [Requests -> 0 .. Len(built)]
      /\ \A r \in Requests : r # q => use'[r] = use[r]
  BY DEF MemoryTypeInv, Memory!Answered
<1>4. Memory!Building' = Memory!Building
  BY <1>1 DEF Memory!Building
<1>5. MadeAlone => current = 1 /\ Len(built) = 1 /\ Memory!Building = {}
  BY DEF MadeAlone, Memory!Building, Loading, MemoryTypeInv, Passed, Inside
<1> QED
  BY <1>1, <1>2, <1>3, <1>4, <1>5

LEMMA SearchKeepsMemory ==
  ASSUME Memory!MemoryAssumption, MemoryInv, NEW q \in Requests, Memory!Search(q)
  PROVE  MemoryInv'
<1>1. /\ place[q] = "ready" /\ Memory!Answered(q)
      /\ UNCHANGED <<disk, built, current, told, asked, raced>>
  BY DEF Memory!Search, Memory!At
<1>2. /\ place' \in [Requests -> Memory!Places] /\ place'[q] = "idle"
      /\ ask' \in [Requests -> Memory!Asks \cup {Memory!NoAsk}]
      /\ use' \in [Requests -> 0 .. Len(built)]
      /\ \A r \in Requests : r # q =>
           place'[r] = place[r] /\ ask'[r] = ask[r] /\ use'[r] = use[r]
      /\ Memory!Building' = Memory!Building
      /\ MadeAlone => current = 1 /\ Len(built) = 1 /\ Memory!Building = {}
  BY <1>1, AnswerKeepsPlaces DEF MemoryInv
<1>3. MemoryTypeInv'
  BY <1>1, <1>2, TypedNext DEF MemoryInv, MemoryTypeInv, Passed, Inside
<1>4. MadeAlone => MadeAlone'
  BY <1>1, <1>2 DEF MadeAlone, Loading, Paired, Memory!Loaded, Memory!Mixed, Memory!NoFile
<1> QED
  BY <1>1, <1>3, <1>4 DEF MemoryInv

(* An image is added to the vectors and to the items, or to neither.       *)
LEMMA PairsStayPaired ==
  ASSUME Memory!MemoryAssumption, NEW index \in Indices, Paired(index),
         NEW dim \in Dims, NEW id \in Images, NEW next, NEW heard,
         LET sized == Memory!Sized(index, dim) IN
         \/ next = sized /\ heard = told
         \/ next = Memory!Added(sized, id) /\ heard = told \cup {id}
  PROVE  /\ next.vectors = next.items
         /\ \A i \in heard : \E k \in DOMAIN next.items : next.items[k] = i
<1> DEFINE sized == Memory!Sized(index, dim)
<1>1. /\ sized \in Indices
      /\ \/ sized = index
         \/ index.items = <<>> /\ sized.items = <<>> /\ sized.vectors = <<>>
  BY SizedIsIndex
<1>2. \/ next = sized /\ heard = told
      \/ next = Memory!Added(sized, id) /\ heard = told \cup {id}
  OBVIOUS
<1> HIDE DEF sized
<1>3. /\ sized.vectors = sized.items
      /\ \A i \in told : \E k \in DOMAIN sized.items : sized.items[k] = i
  <2>1. index.items = <<>> => told = {}
    BY DEF Paired
  <2> QED
    BY <1>1, <2>1 DEF Paired
<1>4. CASE next = sized /\ heard = told
  BY <1>3, <1>4
<1>5. CASE next = Memory!Added(sized, id) /\ heard = told \cup {id}
  <2> DEFINE s == sized.items
             t == Append(s, id)
  <2>1. next.vectors = t /\ next.items = t
    BY <1>1, <1>3, <1>5, AddedIsIndex
  <2>2. s \in Seq(Images)
    BY <1>1 DEF Indices
  <2>3. /\ DOMAIN s = 1 .. Len(s) /\ DOMAIN t = 1 .. Len(s) + 1 /\ t[Len(s) + 1] = id
        /\ Len(s) \in Nat /\ \A k \in 1 .. Len(s) : t[k] = s[k]
    BY <2>2
  <2>4. \A i \in told : \E k \in DOMAIN s : s[k] = i
    BY <1>3
  <2> HIDE DEF s, t
  <2>5. \A i \in told : \E k \in DOMAIN t : t[k] = i
    BY <2>3, <2>4
  <2>6. \E k \in DOMAIN t : t[k] = id
    BY <2>3
  <2> QED
    BY <1>5, <2>1, <2>5, <2>6
<1> QED
  BY <1>2, <1>4, <1>5

LEMMA IndexKeepsMemory ==
  ASSUME Memory!MemoryAssumption, MemoryInv, NEW q \in Requests, Memory!IndexImage(q)
  PROVE  MemoryInv'
<1>1. /\ place[q] = "ready" /\ Memory!Answered(q)
      /\ UNCHANGED <<disk, current, asked, raced>>
  BY DEF Memory!IndexImage, Memory!At
<1>2. /\ place' \in [Requests -> Memory!Places] /\ place'[q] = "idle"
      /\ ask' \in [Requests -> Memory!Asks \cup {Memory!NoAsk}]
      /\ use' \in [Requests -> 0 .. Len(built)]
      /\ \A r \in Requests : r # q =>
           place'[r] = place[r] /\ ask'[r] = ask[r] /\ use'[r] = use[r]
      /\ Memory!Building' = Memory!Building
      /\ MadeAlone => current = 1 /\ Len(built) = 1 /\ Memory!Building = {}
  BY <1>1, AnswerKeepsPlaces DEF MemoryInv
<1>3. /\ Indexing(q) /\ use[q] \in 1 .. Len(built) /\ built[use[q]] \in Indices
      /\ ask[q].id \in Images /\ ask[q].dim \in Dims
  BY IndexAsked DEF MemoryInv
<1>4. PICK index \in Indices :
        /\ built' = [built EXCEPT ![use[q]] = index]
        /\ LET sized == Memory!Sized(built[use[q]], ask[q].dim) IN
           \/ index = sized /\ UNCHANGED told
           \/ index = Memory!Added(sized, ask[q].id) /\ told' = told \cup {ask[q].id}
  BY <1>3 DEF Indexing
<1>5. /\ built' \in Seq(Indices) /\ Len(built') = Len(built) /\ built'[use[q]] = index
  <2>1. use[q] # 0 /\ built' = [built EXCEPT ![use[q]] = index]
    BY <1>3, <1>4
  <2> QED
    BY <2>1, ObjectChanges DEF MemoryInv
<1>6. told' \in SUBSET Images
  BY <1>3, <1>4 DEF MemoryInv, MemoryTypeInv
<1>7. MemoryTypeInv'
  BY <1>1, <1>2, <1>5, <1>6, TypedNext DEF MemoryInv, MemoryTypeInv, Passed, Inside
<1>8. ASSUME MadeAlone PROVE MadeAlone'
  <2>1. use[q] = 1 /\ built'[1] = index
    BY <1>2, <1>3, <1>5, <1>8
  <2>2. Memory!Mixed' = Memory!Mixed
    BY <1>1 DEF Memory!Mixed, Memory!NoFile
  <2>3. ASSUME ~Memory!Mixed PROVE Paired(built[1])'
    <3>1. Paired(built[use[q]])
      BY <1>2, <1>8, <2>1, <2>3 DEF MadeAlone
    <3>2. /\ index.vectors = index.items
          /\ \A i \in told' : \E k \in DOMAIN index.items : index.items[k] = i
      <4> DEFINE old == built[use[q]]
                 dim == ask[q].dim
                 id == ask[q].id
      <4>1. /\ old \in Indices /\ dim \in Dims /\ id \in Images /\ Paired(old)
            /\ LET sized == Memory!Sized(old, dim) IN
               \/ index = sized /\ told' = told
               \/ index = Memory!Added(sized, id) /\ told' = told \cup {id}
        BY <1>3, <1>4, <3>1
      <4> HIDE DEF old, dim, id
      <4> QED
        BY <4>1, PairsStayPaired
    <3> QED
      BY <2>1, <3>2 DEF Paired
  <2>4. \A r \in Requests : place'[r] \notin Loading \cup {"build"}
    BY <1>2, <1>8 DEF Memory!Building, Loading
  <2> QED
    BY <1>1, <1>2, <1>5, <1>8, <2>2, <2>3, <2>4 DEF MadeAlone, Loading
<1> QED
  BY <1>1, <1>7, <1>8 DEF MemoryInv

LEMMA MemoryInvHolds ==
  ASSUME Memory!MemoryAssumption
  PROVE  Memory!Spec => []MemoryInv
<1>1. Memory!Init => MemoryInv
  BY MemoryInitOK
<1>2. ASSUME MemoryInv, [Memory!Next]_(Memory!vars) PROVE MemoryInv'
  <2>1. CASE UNCHANGED Memory!vars
    <3>1. UNCHANGED <<disk, built, current, place, ask, use, told, asked, raced>>
      BY <2>1 DEF Memory!vars
    <3>2. MemoryTypeInv'
      BY <1>2, <3>1, TypedNext DEF MemoryInv, MemoryTypeInv
    <3>3. MadeAlone => MadeAlone'
      BY <3>1 DEF MadeAlone, Paired, Loading, Memory!Building, Memory!Loaded, Memory!Mixed,
         Memory!NoFile
    <3> QED
      BY <1>2, <3>1, <3>2, <3>3 DEF MemoryInv
  <2>2. CASE Memory!Next
    BY <1>2, <2>2, BeginKeepsMemory, ResolveKeepsMemory, BuildKeepsMemory, LoadKeepsMemory,
       InstallKeepsMemory, CheckKeepsMemory, ReturnKeepsMemory, SearchKeepsMemory,
       IndexKeepsMemory DEF Memory!Next
  <2> QED
    BY <1>2, <2>1, <2>2
<1> QED
  BY <1>1, <1>2, PTL DEF Memory!Spec

(* The objects, the requests and what they ask stay what they are, however *)
(* the requests meet in get_similarity_index(): who is past the making of  *)
(* an index has one (similarity_index.py).                                 *)
THEOREM MemoryIsTyped ==
  ASSUME Memory!MemoryAssumption
  PROVE  Memory!Spec => []Memory!TypeOK
<1>1. MemoryInv => Memory!TypeOK
  <2> SUFFICES ASSUME MemoryTypeInv PROVE Memory!TypeOK
    BY DEF MemoryInv
  <2>1. ASSUME NEW k \in DOMAIN built
        PROVE  /\ built[k].dimension \in Dims \cup {Configured}
               /\ built[k].width \in Dims \cup {Configured}
               /\ built[k].vectors \in Seq(Images) /\ built[k].items \in Seq(Images)
    <3>1. built[k] \in Indices
      BY <2>1 DEF MemoryTypeInv
    <3> QED
      BY <3>1 DEF Indices, Lengths
  <2> QED
    BY <2>1 DEF MemoryTypeInv, Memory!TypeOK
<1> QED
  BY <1>1, MemoryInvHolds, PTL

(* Unless requests met while the index was made or its files are two saves *)
(* of the same size, a request gets back every image that was acknowledged *)
(* and each by its own vector (similarity_index.py, similarity.py).        *)
THEOREM HitsStayTheirOwn ==
  ASSUME Memory!MemoryAssumption
  PROVE  Memory!Spec => []HitsAreTheirOwn
<1>1. MemoryInv => HitsAreTheirOwn
  <2> SUFFICES ASSUME MemoryInv, ~raced, ~Memory!Mixed,
                      NEW q \in Requests, place[q] = "ready"
               PROVE  /\ \A hit \in Memory!Hits(built[use[q]]) : hit[1] = hit[2]
                      /\ \A id \in told : <<id, id>> \in Memory!Hits(built[use[q]])
    BY DEF HitsAreTheirOwn, Memory!HitsAreTheirOwn, Memory!At
  <2>1. MadeAlone /\ current # 0 /\ use[q] \in 0 .. Len(built) /\ use[q] # 0
    BY DEF MemoryInv, MemoryTypeInv, Passed, Inside
  <2>2. Memory!Building = {} /\ use[q] = 1
    <3>1. Len(built) = 1
      BY <2>1 DEF MadeAlone
    <3>2. ASSUME NEW r \in Requests PROVE place[r] \notin Loading \cup {"build"}
      BY <2>1 DEF MadeAlone
    <3> QED
      BY <2>1, <3>1, <3>2 DEF Memory!Building, Loading
  <2>3. Paired(built[use[q]])
    BY <2>1, <2>2 DEF MadeAlone
  <2> QED
    BY <2>3 DEF Paired, Memory!Hits
<1> QED
  BY <1>1, MemoryInvHolds, PTL
=============================================================================
