-------------------------- MODULE Training_proofs --------------------------
(* Proofs about Training: what a checkpoint, the shipped weights, the       *)
(* history and the mirror are worth after any kills and restarts.           *)
EXTENDS Training, FiniteSetTheorems, FunctionTheorems, NaturalsInduction,
        WellFoundedInduction, TLAPS

-----------------------------------------------------------------------------
(* The best score of a list of epochs, and the epoch that reached it.      *)

LEMMA LeastOf ==
  ASSUME NEW T \in SUBSET Nat, T # {}
  PROVE  \E least \in T : \A n \in T : least <= n
<1>1. PICK least \in T : \A n \in T : <<n, least>> \notin OpToRel(<, Nat)
  BY NatLessThanWellFounded, WFMin
<1>2. \A n \in T : ~(n < least)
  BY <1>1 DEF OpToRel
<1> QED
  BY <1>2

LEMMA ResultsAre ==
  \A r : r \in Results <=> r \in Seq(Scores) /\ Len(r) <= Epochs
<1>1. Epochs \in Nat
  BY TrainingAssumption
<1>2. ASSUME NEW r \in Results PROVE r \in Seq(Scores) /\ Len(r) <= Epochs
  <2>1. PICK n \in 0..Epochs : r \in [1..n -> Scores]
    BY DEF Results
  <2> QED
    BY <1>1, <2>1
<1>3. ASSUME NEW r \in Seq(Scores), Len(r) <= Epochs PROVE r \in Results
  <2>1. r \in [1..Len(r) -> Scores] /\ Len(r) \in 0..Epochs
    BY <1>1, <1>3
  <2> QED
    BY <2>1 DEF Results
<1> QED
  BY <1>2, <1>3

(* b is the best of the scores in r.                                       *)
IsBestOf(b, r) ==
  /\ b = 0 \/ \E i \in DOMAIN r : r[i] = b
  /\ \A i \in DOMAIN r : r[i] <= b

(* e is the epoch that first reached b.                                    *)
IsEpochOf(e, b, r) ==
  /\ \A i \in 1..e - 1 : r[i] < b
  /\ IF b = 0 THEN e = 0 ELSE e > 0 /\ r[e] = b

LEMMA BestIs ==
  ASSUME NEW r \in Seq(Scores), NEW b \in Scores, IsBestOf(b, r)
  PROVE  Best(r) = b
<1>1. Best(r) = CHOOSE c \in Scores : IsBestOf(c, r)
  BY DEF Best, IsBestOf
<1>2. ASSUME NEW c \in Scores, IsBestOf(c, r) PROVE c = b
  BY <1>2 DEF IsBestOf, Scores
<1> QED
  BY <1>1, <1>2

LEMMA BestExists ==
  ASSUME NEW r \in Seq(Scores)
  PROVE  Best(r) \in Scores /\ IsBestOf(Best(r), r)
<1> DEFINE Bounds == {b \in Nat : \A i \in DOMAIN r : r[i] <= b}
<1>1. MaxScore \in Nat /\ \A i \in DOMAIN r : r[i] \in Nat /\ r[i] <= MaxScore
  BY TrainingAssumption DEF Scores
<1>2. MaxScore \in Bounds
  BY <1>1
<1>3. PICK b \in Bounds : \A c \in Bounds : b <= c
  BY <1>2, LeastOf
<1>4. b = 0 \/ \E i \in DOMAIN r : r[i] = b
  <2>1. SUFFICES ASSUME b # 0, \A i \in DOMAIN r : r[i] # b PROVE FALSE
    OBVIOUS
  <2>2. b - 1 \in Bounds
    BY <1>1, <2>1
  <2> QED
    BY <1>3, <2>2
<1>5. b \in Scores /\ IsBestOf(b, r)
  BY <1>1, <1>2, <1>3, <1>4 DEF IsBestOf, Scores
<1> QED
  BY <1>5, BestIs

LEMMA EpochIs ==
  ASSUME NEW r \in Seq(Scores), NEW e \in 0..Len(r), IsEpochOf(e, Best(r), r)
  PROVE  BestEpoch(r) = e
<1>1. BestEpoch(r) = CHOOSE f \in 0..Len(r) : IsEpochOf(f, Best(r), r)
  BY DEF BestEpoch, IsEpochOf
<1>2. Best(r) \in Nat /\ Len(r) \in Nat
  BY BestExists DEF Scores
<1>3. ASSUME NEW f \in 0..Len(r), IsEpochOf(f, Best(r), r) PROVE f = e
  BY <1>2, <1>3 DEF IsEpochOf
<1> QED
  BY <1>1, <1>3

LEMMA EpochExists ==
  ASSUME NEW r \in Seq(Scores)
  PROVE  BestEpoch(r) \in 0..Len(r) /\ IsEpochOf(BestEpoch(r), Best(r), r)
<1>1. Best(r) \in Scores /\ IsBestOf(Best(r), r) /\ Len(r) \in Nat /\ DOMAIN r = 1..Len(r)
  BY BestExists
<1>2. \A i \in DOMAIN r : r[i] \in Nat
  BY TrainingAssumption DEF Scores
<1>3. CASE Best(r) = 0
  <2>1. IsEpochOf(0, Best(r), r) /\ 0 \in 0..Len(r)
    BY <1>1, <1>3 DEF IsEpochOf
  <2> QED
    BY <2>1, EpochIs
<1>4. CASE Best(r) # 0
  <2> DEFINE At == {i \in DOMAIN r : r[i] = Best(r)}
  <2>1. At # {} /\ At \in SUBSET Nat
    BY <1>1, <1>4 DEF IsBestOf
  <2>2. PICK e \in At : \A i \in At : e <= i
    BY <2>1, LeastOf
  <2>3. \A i \in 1..e - 1 : r[i] < Best(r)
    BY <1>1, <1>2, <2>2 DEF IsBestOf, Scores
  <2>4. IsEpochOf(e, Best(r), r) /\ e \in 0..Len(r)
    BY <1>1, <1>4, <2>2, <2>3 DEF IsEpochOf
  <2> QED
    BY <2>4, EpochIs
<1> QED
  BY <1>3, <1>4

LEMMA NothingIsBest ==
  Best(<<>>) = 0 /\ BestEpoch(<<>>) = 0
<1>1. <<>> \in Seq(Scores) /\ 0 \in Scores
  BY TrainingAssumption DEF Scores
<1>2. IsBestOf(0, <<>>)
  BY DEF IsBestOf
<1>3. Best(<<>>) = 0
  BY <1>1, <1>2, BestIs
<1>4. IsEpochOf(0, Best(<<>>), <<>>) /\ 0 \in 0..Len(<<>>)
  BY <1>3 DEF IsEpochOf
<1> QED
  BY <1>1, <1>3, <1>4, EpochIs

(* An epoch is the new best when it is better than all before it.          *)
LEMMA AnotherEpoch ==
  ASSUME NEW r \in Seq(Scores), NEW x \in Scores
  PROVE  /\ Best(Append(r, x)) = IF x > Best(r) THEN x ELSE Best(r)
         /\ BestEpoch(Append(r, x)) = IF x > Best(r) THEN Len(r) + 1 ELSE BestEpoch(r)
<1> DEFINE s == Append(r, x)
           b == IF x > Best(r) THEN x ELSE Best(r)
           e == IF x > Best(r) THEN Len(r) + 1 ELSE BestEpoch(r)
<1>1. /\ s \in Seq(Scores) /\ Len(s) = Len(r) + 1 /\ Len(r) \in Nat
      /\ DOMAIN s = 1..Len(r) + 1 /\ DOMAIN r = 1..Len(r)
      /\ s[Len(r) + 1] = x /\ \A i \in 1..Len(r) : s[i] = r[i]
  OBVIOUS
<1>2. /\ Best(r) \in Scores /\ IsBestOf(Best(r), r)
      /\ BestEpoch(r) \in 0..Len(r) /\ IsEpochOf(BestEpoch(r), Best(r), r)
  BY BestExists, EpochExists
<1>3. x \in Nat /\ Best(r) \in Nat /\ \A i \in 1..Len(r) : r[i] \in Nat
  BY <1>1, <1>2, TrainingAssumption DEF Scores
<1> HIDE DEF s
<1>4. b \in Scores /\ IsBestOf(b, s)
  <2>1. CASE x > Best(r)
    <3>1. s[Len(r) + 1] = x /\ Len(r) + 1 \in DOMAIN s
      BY <1>1
    <3>2. \A i \in 1..Len(r) : s[i] \in Nat /\ s[i] <= Best(r)
      BY <1>1, <1>2, <1>3 DEF IsBestOf
    <3>3. \A i \in 1..Len(r) + 1 : s[i] <= x
      BY <1>1, <1>3, <2>1, <3>2
    <3> QED
      BY <1>1, <2>1, <3>1, <3>3 DEF IsBestOf
  <2>2. CASE ~(x > Best(r))
    <3>1. \A i \in 1..Len(r) + 1 : s[i] <= Best(r)
      BY <1>1, <1>2, <1>3, <2>2 DEF IsBestOf
    <3>2. Best(r) = 0 \/ \E i \in DOMAIN s : s[i] = Best(r)
      BY <1>1, <1>2 DEF IsBestOf
    <3> QED
      BY <1>1, <1>2, <2>2, <3>1, <3>2 DEF IsBestOf
  <2> QED
    BY <2>1, <2>2
<1>5. Best(s) = b
  BY <1>1, <1>4, BestIs
<1>6. e \in 0..Len(s) /\ IsEpochOf(e, b, s)
  <2>1. CASE x > Best(r)
    BY <1>1, <1>2, <1>3, <2>1 DEF IsBestOf, IsEpochOf
  <2>2. CASE ~(x > Best(r))
    BY <1>1, <1>2, <1>3, <2>2 DEF IsEpochOf
  <2> QED
    BY <2>1, <2>2
<1>7. BestEpoch(s) = e
  BY <1>1, <1>5, <1>6, EpochIs
<1> QED
  BY <1>5, <1>7 DEF s

-----------------------------------------------------------------------------
(* Division.                                                               *)

LEMMA Division ==
  \A b \in Nat, a \in Nat \ {0} : b = (b \div a) * a + (b % a)
  OBVIOUS

LEMMA Remainder ==
  ASSUME NEW b \in Nat, NEW a \in Nat \ {0}
  PROVE  b \div a \in Nat /\ b % a \in 0..a - 1
  OBVIOUS

LEMMA RemainderIs ==
  ASSUME NEW a \in Nat \ {0}, NEW q \in Nat, NEW r \in 0..a - 1, NEW b \in Nat, b = a * q + r
  PROVE  b % a = r
  OBVIOUS

LEMMA Multiples ==
  ASSUME NEW k \in Nat, NEW a \in Nat \ {0}
  PROVE  /\ k * a \in Nat /\ (k * a) % a = 0
         /\ \A l \in Nat : k <= l => k * a <= l * a
         /\ \A l \in Nat : k * a = l * a => k = l
  OBVIOUS

LEMMA QuotientGrows ==
  ASSUME NEW b \in Nat, NEW c \in Nat, NEW a \in Nat \ {0}, b <= c
  PROVE  b \div a <= c \div a
  OBVIOUS

LEMMA OneMore ==
  ASSUME NEW n \in Nat, NEW k \in Nat
  PROVE  (n + 1) * k = n * k + k
  OBVIOUS

LEMMA NextRemainder ==
  ASSUME NEW n \in Nat, NEW m \in Nat \ {0}
  PROVE  (n + 1) % m = 0 \/ (n + 1) % m = (n % m) + 1
<1> DEFINE q == n \div m
           r == n % m
<1>1. n = q * m + r
  BY Division, Zenon
<1>2. q \in Nat /\ r \in 0..m - 1
  BY Remainder
<1> HIDE DEF q, r
<1>3. CASE r + 1 = m
  <2>1. n + 1 = (q + 1) * m
    BY <1>1, <1>2, <1>3, OneMore
  <2>2. (n + 1) % m = 0
    <3>1. q + 1 \in Nat
      BY <1>2
    <3> QED
      BY <2>1, <3>1, Multiples
  <2> QED
    BY <2>2
<1>4. CASE r + 1 # m
  <2> DEFINE b == n + 1
             s == r + 1
  <2>1. s \in 0..m - 1 /\ b \in Nat /\ b = m * q + s
    BY <1>1, <1>2, <1>4
  <2> HIDE DEF b, s
  <2>2. b % m = s
    BY <2>1, <1>2, RemainderIs
  <2> QED
    BY <2>2 DEF b, r, s
<1> QED
  BY <1>3, <1>4

(* The optimizer steps that train() takes in an epoch are those that       *)
(* build_scheduler() lays the schedule out for.                            *)
LEMMA StepsAsPlanned ==
  OptimizerSteps = Batches \div Accumulation
<1> DEFINE q == Batches \div Accumulation
           Full == {batch \in 1..Batches : batch % Accumulation = 0}
           f == [k \in 1..q |-> k * Accumulation]
<1>1. Batches \in Nat \ {0} /\ Accumulation \in Nat \ {0}
  BY TrainingAssumption
<1>2. q \in Nat /\ q * Accumulation <= Batches
  <2>1. q \in Nat /\ Batches % Accumulation \in 0..Accumulation - 1
    BY <1>1, Remainder
  <2>2. Batches = q * Accumulation + (Batches % Accumulation)
    BY <1>1, Division, Zenon
  <2>3. q * Accumulation \in Nat
    BY <1>1, <2>1, Multiples
  <2> QED
    BY <1>1, <2>1, <2>2, <2>3
<1> HIDE DEF q
<1>3. \A k \in 1..q : f[k] \in Full
  <2>1. SUFFICES ASSUME NEW k \in 1..q PROVE k * Accumulation \in Full
    OBVIOUS
  <2>2. k \in Nat /\ 1 \in Nat /\ 1 <= k /\ k <= q
    BY <1>2
  <2>3. k * Accumulation \in Nat /\ (k * Accumulation) % Accumulation = 0
        /\ k * Accumulation <= q * Accumulation /\ 1 * Accumulation <= k * Accumulation
        /\ q * Accumulation \in Nat
    BY <1>1, <1>2, <2>2, Multiples
  <2> QED
    BY <1>1, <1>2, <2>3
<1>4. \A k, l \in 1..q : f[k] = f[l] => k = l
  BY <1>1, <1>2, Multiples
<1>5. ASSUME NEW batch \in Full PROVE \E k \in 1..q : f[k] = batch
  <2> DEFINE k == batch \div Accumulation
  <2>1. batch \in Nat /\ batch <= Batches /\ batch > 0 /\ batch % Accumulation = 0
    BY <1>1
  <2>2. batch = k * Accumulation + (batch % Accumulation)
    BY <1>1, <2>1, Division, Zenon
  <2>3. k \in Nat /\ k <= q
    BY <1>1, <2>1, QuotientGrows, Remainder DEF q
  <2> HIDE DEF k
  <2>4. k * Accumulation \in Nat /\ batch = k * Accumulation
    BY <1>1, <2>1, <2>2, <2>3, Multiples
  <2>5. k # 0
    BY <1>1, <2>1, <2>4
  <2>6. k \in 1..q /\ f[k] = batch
    BY <1>2, <2>3, <2>4, <2>5
  <2> QED
    BY <2>6
<1>6. f \in Bijection(1..q, Full)
  BY <1>3, <1>4, <1>5 DEF Bijection, Injection, Surjection, IsInjective
<1>7. IsFiniteSet(1..q) /\ Cardinality(1..q) = q
  BY <1>2, FS_Interval
<1>8. Cardinality(Full) = q
  BY <1>6, <1>7, FS_Bijection DEF ExistsBijection
<1> QED
  BY <1>8 DEF OptimizerSteps, q

-----------------------------------------------------------------------------
(* Types.                                                                  *)

Files == Last \cup BestFile \cup History \cup {Absent, Torn}

(* One directory of artifacts.                                             *)
PlaceOK(place) ==
  /\ place \in [Names -> Files]
  /\ place["last"] \in Last \cup {Absent, Torn}
  /\ place["best"] \in BestFile \cup {Absent, Torn}
  /\ place["history"] \in History \cup {Absent, Torn}

TypeInv ==
  /\ TypeOK
  /\ proc.pc \in {"begin", "epoch"} => Len(proc.results) < Epochs
  /\ proc.pc = "best" => Len(proc.results) > 0

LEMMA PlacesOK ==
  TypeOK <=>
    /\ PlaceOK(disk) /\ PlaceOK(old) /\ PlaceOK(mirror)
    /\ proc \in RunStates \cup [pc : {"off", "done"}]
    /\ starts \in 0..MaxStarts /\ losses \in 0..MaxLosses
    /\ struck \subseteq Mishaps
  BY DEF TypeOK, PlaceOK, Files

(* A step of the run that writes at most to its own directory.             *)
LEMMA TypesAgain ==
  ASSUME TypeInv, UNCHANGED <<old, mirror, starts, losses, struck>>,
         PlaceOK(disk'), proc' \in RunStates
  PROVE  TypeOK'
<1>1. /\ PlaceOK(old) /\ PlaceOK(mirror)
      /\ starts \in 0..MaxStarts /\ losses \in 0..MaxLosses /\ struck \subseteq Mishaps
  BY PlacesOK DEF TypeInv
<1>2. PlaceOK(old') /\ PlaceOK(mirror')
  BY <1>1
<1> QED
  BY <1>1, <1>2 DEF TypeOK, PlaceOK, Files

(* A directory made of other directories' files and torn ones.             *)
LEMMA PlaceMade ==
  ASSUME NEW place, place = [name \in Names |-> place[name]],
         \A name \in Names : \/ place[name] = Torn
                             \/ \E from : PlaceOK(from) /\ place[name] = from[name]
  PROVE  PlaceOK(place)
<1>1. Names = {"last", "best", "history"}
  BY DEF Names
<1>2. /\ place["last"] \in Last \cup {Absent, Torn}
      /\ place["best"] \in BestFile \cup {Absent, Torn}
      /\ place["history"] \in History \cup {Absent, Torn}
  BY <1>1 DEF PlaceOK
<1>3. \A name \in Names : place[name] \in Files
  BY <1>1, <1>2 DEF Files
<1>4. place \in [Names -> Files]
  BY <1>3
<1> QED
  BY <1>2, <1>4 DEF PlaceOK

LEMMA EmptyOK == PlaceOK(Empty)
  BY DEF PlaceOK, Empty, Files, Names

(* The kinds of files tell them apart.                                     *)
LEMMA KindsDiffer ==
  ASSUME NEW place, PlaceOK(place)
  PROVE  /\ place["last"] \notin {Absent, Torn} <=> place["last"] \in Last
         /\ place["best"] \notin {Absent, Torn} <=> place["best"] \in BestFile
         /\ place["history"] \notin {Absent, Torn} <=> place["history"] \in History
         /\ Absent # Torn
<1>1. Absent.kind = "absent" /\ Torn.kind = "torn"
  BY DEF Absent, Torn
<1>2. /\ \A file \in Last : file.kind = "last"
      /\ \A file \in BestFile : file.kind = "best"
      /\ \A file \in History : file.kind = "history"
  BY DEF Last, BestFile, History
<1> QED
  BY <1>1, <1>2 DEF PlaceOK

(* What a process is, by its place in the program.                         *)
LEMMA ProcIs ==
  ASSUME TypeOK
  PROVE  /\ ~Stopped <=> proc \in RunStates
         /\ ~Stopped <=> proc.pc \in Steps
         /\ ~Stopped => /\ proc.results \in Seq(Scores) /\ Len(proc.results) <= Epochs
                        /\ proc.weights \in Nat /\ proc.schedule \in Nat
                        /\ proc.best_top1 \in Scores /\ proc.best_epoch \in 0..Epochs
                        /\ proc.epochs_without_improvement \in Nat
                        /\ proc.scheduler \in Schedulers
  BY ResultsAre DEF TypeOK, Stopped, RunStates, Steps

LEMMA LastIs ==
  ASSUME NEW last \in Last
  PROVE  /\ last.results \in Seq(Scores) /\ Len(last.results) <= Epochs
         /\ last.weights \in Nat /\ last.schedule \in Nat
         /\ last.best_top1 \in Scores /\ last.epochs_without_improvement \in Nat
         /\ last.scheduler \in Schedulers
  BY ResultsAre DEF Last

(* proc with another pc.                                                   *)
LEMMA GotoIs ==
  ASSUME TypeOK, ~Stopped, NEW step \in Steps, Goto(step)
  PROVE  /\ proc' \in RunStates /\ proc'.pc = step
         /\ proc'.results = proc.results /\ proc'.weights = proc.weights
         /\ proc'.schedule = proc.schedule /\ proc'.best_top1 = proc.best_top1
         /\ proc'.best_epoch = proc.best_epoch
         /\ proc'.epochs_without_improvement = proc.epochs_without_improvement
         /\ proc'.scheduler = proc.scheduler
<1>1. proc \in RunStates
  BY ProcIs
<1> QED
  BY <1>1 DEF Goto, RunStates

LEMMA ResultsGrow ==
  ASSUME NEW r \in Seq(Scores), NEW x \in Scores, Len(r) < Epochs
  PROVE  Append(r, x) \in Results
<1> DEFINE longer == Append(r, x)
<1>1. longer \in Seq(Scores) /\ Len(longer) = Len(r) + 1
  OBVIOUS
<1>2. Len(longer) <= Epochs
  BY <1>1, TrainingAssumption
<1> HIDE DEF longer
<1> QED
  BY <1>1, <1>2, ResultsAre DEF longer

LEMMA AfterEpochIs ==
  ASSUME TypeInv, proc.pc = "epoch", NEW top1 \in Scores, proc' = AfterEpoch(top1)
  PROVE  /\ proc' \in RunStates
         /\ proc'.pc = IF top1 > proc.best_top1 THEN "best" ELSE "checkpoint"
         /\ proc'.results = Append(proc.results, top1)
         /\ proc'.weights = proc.weights + 1
         /\ proc'.schedule = proc.schedule + ScheduleSteps(proc.scheduler)
         /\ proc'.best_top1 = IF top1 > proc.best_top1 THEN top1 ELSE proc.best_top1
         /\ proc'.best_epoch =
              IF top1 > proc.best_top1 THEN Len(proc.results) + 1 ELSE proc.best_epoch
         /\ proc'.epochs_without_improvement =
              IF top1 > proc.best_top1 THEN 0 ELSE proc.epochs_without_improvement + 1
         /\ proc'.scheduler = proc.scheduler
<1>1. proc \in RunStates /\ proc.results \in Seq(Scores) /\ Len(proc.results) < Epochs
      /\ Epochs \in Nat
  BY ProcIs, TrainingAssumption DEF TypeInv, Stopped
<1>2. ScheduleSteps(proc.scheduler) \in Nat
  BY StepsAsPlanned, Remainder, TrainingAssumption DEF ScheduleSteps
<1>3. Append(proc.results, top1) \in Results
  BY <1>1, ResultsGrow
<1>4. Len(proc.results) + 1 \in 0..Epochs
  BY <1>1
<1> DEFINE better == top1 > proc.best_top1
           step == IF better THEN "best" ELSE "checkpoint"
           results == Append(proc.results, top1)
           weights == proc.weights + 1
           schedule == proc.schedule + ScheduleSteps(proc.scheduler)
           best == IF better THEN top1 ELSE proc.best_top1
           epoch == IF better THEN Len(proc.results) + 1 ELSE proc.best_epoch
           waited == IF better THEN 0 ELSE proc.epochs_without_improvement + 1
<1>5. /\ step \in Steps /\ results \in Results /\ weights \in Nat /\ schedule \in Nat
      /\ best \in Scores /\ epoch \in 0..Epochs /\ waited \in Nat
  BY <1>1, <1>2, <1>3, <1>4 DEF RunStates, Steps
<1>6. proc' = [proc EXCEPT !.pc = step, !.results = results, !.weights = weights,
                           !.schedule = schedule, !.best_top1 = best, !.best_epoch = epoch,
                           !.epochs_without_improvement = waited]
  BY DEF AfterEpoch
<1> HIDE DEF step, results, weights, schedule, best, epoch, waited
<1>7. /\ proc' \in RunStates
      /\ proc'.pc = step /\ proc'.results = results /\ proc'.weights = weights
      /\ proc'.schedule = schedule /\ proc'.best_top1 = best /\ proc'.best_epoch = epoch
      /\ proc'.epochs_without_improvement = waited /\ proc'.scheduler = proc.scheduler
  <2>1. proc \in RunStates
    BY <1>1
  <2>2. proc' \in RunStates
    BY <2>1, <1>5, <1>6 DEF RunStates
  <2>3. /\ proc'.pc = step /\ proc'.results = results /\ proc'.weights = weights
        /\ proc'.schedule = schedule
    BY <2>1, <1>6 DEF RunStates
  <2>4. /\ proc'.best_top1 = best /\ proc'.best_epoch = epoch
        /\ proc'.epochs_without_improvement = waited /\ proc'.scheduler = proc.scheduler
    BY <2>1, <1>6 DEF RunStates
  <2> QED
    BY <2>2, <2>3, <2>4
<1> QED
  BY <1>7 DEF step, results, weights, schedule, best, epoch, waited

(* How train() goes on: anew, with the weights of a checkpoint it failed   *)
(* to load, or from a checkpoint.                                          *)
Anew(run, scheduler) ==
  /\ run.results = <<>> /\ run.schedule = 0 /\ run.best_top1 = 0
  /\ run.epochs_without_improvement = 0
  /\ \/ run.weights = 0
     \/ /\ disk["last"] \in Last /\ run.weights = disk["last"].weights
        /\ scheduler # disk["last"].scheduler

Continued(run) ==
  LET last == disk["last"] IN
  /\ last \in Last
  /\ run.results = last.results /\ run.weights = last.weights /\ run.schedule = last.schedule
  /\ run.best_top1 = last.best_top1
  /\ run.epochs_without_improvement = last.epochs_without_improvement

LEMMA ResumedIs ==
  ASSUME PlaceOK(disk), NEW scheduler \in Schedulers, NEW resume \in BOOLEAN
  PROVE  Anew(Resumed(scheduler, resume), scheduler) \/ Continued(Resumed(scheduler, resume))
<1> DEFINE last == disk["last"]
<1>1. CASE ~resume \/ last \in {Absent, Torn}
  <2>1. Resumed(scheduler, resume) = Untrained
    BY <1>1 DEF Resumed
  <2> QED
    BY <2>1 DEF Anew, Untrained
<1>2. CASE ~(~resume \/ last \in {Absent, Torn}) /\ LoadFails(last, scheduler)
  <2>1. Resumed(scheduler, resume) = [Untrained EXCEPT !.weights = last.weights]
    BY <1>2 DEF Resumed
  <2>2. last \in Last /\ scheduler # last.scheduler
    BY <1>2, KindsDiffer DEF LoadFails
  <2> QED
    BY <2>1, <2>2 DEF Anew, Untrained
<1>3. CASE ~(~resume \/ last \in {Absent, Torn}) /\ ~LoadFails(last, scheduler)
  <2>1. Resumed(scheduler, resume) = Restored(last)
    BY <1>3 DEF Resumed
  <2>2. last \in Last
    BY <1>3, KindsDiffer
  <2> QED
    BY <2>1, <2>2 DEF Continued, Restored
<1> QED
  BY <1>1, <1>2, <1>3

(* The run that a start begins.                                            *)
Begins(run, scheduler) ==
  /\ proc'.pc = "begin" /\ proc'.results = run.results /\ proc'.weights = run.weights
  /\ proc'.schedule = run.schedule /\ proc'.best_top1 = run.best_top1
  /\ proc'.best_epoch = 0
  /\ proc'.epochs_without_improvement = run.epochs_without_improvement
  /\ proc'.scheduler = scheduler

LEMMA StartIs ==
  ASSUME TypeInv, NEW scheduler \in Schedulers, NEW resume \in BOOLEAN,
         Start(scheduler, resume)
  PROVE  /\ TypeInv' /\ Stopped
         /\ disk' = disk /\ old' = old /\ mirror' = mirror
         /\ \E run :
              /\ Anew(run, scheduler) \/ Continued(run)
              /\ struck' = struck \cup StartMishaps(run, scheduler)
              /\ \/ /\ Len(run.results) >= Epochs /\ Continued(run)
                    /\ proc'.pc = "done" /\ Stopped'
                 \/ /\ Len(run.results) < Epochs
                    /\ Begins(run, scheduler) /\ ~Stopped'
<1> DEFINE run == Resumed(scheduler, resume)
<1>1. /\ PlaceOK(disk) /\ PlaceOK(old) /\ PlaceOK(mirror)
      /\ losses \in 0..MaxLosses /\ starts \in 0..MaxStarts
      /\ struck \subseteq Mishaps
  BY PlacesOK DEF TypeInv
<1>2. /\ Stopped /\ starts < MaxStarts /\ starts' = starts + 1
      /\ disk' = disk /\ old' = old /\ mirror' = mirror /\ losses' = losses
      /\ struck' = struck \cup StartMishaps(run, scheduler)
      /\ proc' = IF Len(run.results) >= Epochs THEN [pc |-> "done"]
                 ELSE [pc |-> "begin", results |-> run.results, weights |-> run.weights,
                       schedule |-> run.schedule, best_top1 |-> run.best_top1,
                       best_epoch |-> 0, scheduler |-> scheduler,
                       epochs_without_improvement |-> run.epochs_without_improvement]
  BY DEF Start
<1>3. Anew(run, scheduler) \/ Continued(run)
  BY <1>1, ResumedIs
<1> HIDE DEF run
<1>4. /\ run.results \in Seq(Scores) /\ Len(run.results) \in Nat
      /\ run.weights \in Nat /\ run.schedule \in Nat /\ run.best_top1 \in Scores
      /\ run.epochs_without_improvement \in Nat
  <2>1. CASE Anew(run, scheduler)
    <3>1. 0 \in Scores
      BY TrainingAssumption DEF Scores
    <3>2. disk["last"] \in Last => disk["last"].weights \in Nat
      BY LastIs
    <3> QED
      BY <2>1, <3>1, <3>2 DEF Anew
  <2>2. CASE Continued(run)
    BY <2>2, LastIs DEF Continued
  <2> QED
    BY <1>3, <2>1, <2>2
<1>5. /\ starts' \in 0..MaxStarts /\ losses' \in 0..MaxLosses
      /\ struck' \subseteq Mishaps
  BY <1>1, <1>2, TrainingAssumption DEF StartMishaps, Mishaps
<1>6. Epochs \in Nat \ {0}
  BY TrainingAssumption
<1>7. CASE Len(run.results) >= Epochs
  <2>1. Continued(run)
    BY <1>3, <1>6, <1>7 DEF Anew
  <2>2. proc' = [pc |-> "done"]
    BY <1>2, <1>7
  <2>3. TypeOK'
    BY <1>1, <1>2, <1>5, <2>2, PlacesOK DEF TypeOK, PlaceOK, Files
  <2>4. TypeInv' /\ proc'.pc = "done" /\ Stopped'
    BY <2>2, <2>3 DEF TypeInv, Stopped
  <2> QED
    BY <1>2, <1>7, <2>1, <2>4
<1>8. CASE ~(Len(run.results) >= Epochs)
  <2>1. proc' = [pc |-> "begin", results |-> run.results, weights |-> run.weights,
                 schedule |-> run.schedule, best_top1 |-> run.best_top1,
                 best_epoch |-> 0, scheduler |-> scheduler,
                 epochs_without_improvement |-> run.epochs_without_improvement]
    BY <1>2, <1>8
  <2>2. Len(run.results) < Epochs /\ run.results \in Results
    BY <1>4, <1>6, <1>8, ResultsAre
  <2>3. proc' \in RunStates
    BY <1>4, <1>6, <2>1, <2>2 DEF RunStates, Steps
  <2>4. TypeOK'
    BY <1>1, <1>2, <1>5, <2>3, PlacesOK DEF TypeOK, PlaceOK, Files
  <2>5. Begins(run, scheduler) /\ TypeInv' /\ ~Stopped'
    BY <2>1, <2>2, <2>4 DEF TypeInv, Stopped, Begins
  <2> QED
    BY <1>2, <1>3, <2>2, <2>5
<1> QED
  BY <1>7, <1>8

-----------------------------------------------------------------------------
(* What each step does, and that it keeps the types.                       *)

HistoryOf(run) ==
  [kind |-> "history", results |-> run.results, best_top1 |-> run.best_top1,
   best_epoch |-> run.best_epoch]

LastOf(run) ==
  [kind |-> "last", results |-> run.results, weights |-> run.weights,
   schedule |-> run.schedule, best_top1 |-> run.best_top1, scheduler |-> run.scheduler,
   epochs_without_improvement |-> run.epochs_without_improvement]

(* A run that goes on to another step and is the same otherwise.           *)
SameRun ==
  /\ proc'.results = proc.results /\ proc'.weights = proc.weights
  /\ proc'.schedule = proc.schedule /\ proc'.best_top1 = proc.best_top1
  /\ proc'.best_epoch = proc.best_epoch
  /\ proc'.epochs_without_improvement = proc.epochs_without_improvement
  /\ proc'.scheduler = proc.scheduler

LEMMA HistoryWritten ==
  ASSUME TypeInv, ~Stopped
  PROVE  HistoryNow \in History /\ HistoryNow = HistoryOf(proc)
<1>1. proc \in RunStates
  BY ProcIs DEF TypeInv
<1> QED
  BY <1>1 DEF HistoryNow, HistoryOf, History, RunStates

LEMMA BeginIs ==
  ASSUME TypeInv, Begin
  PROVE  /\ TypeInv' /\ ~Stopped /\ ~Stopped'
         /\ proc.pc = "begin" /\ proc'.pc = "epoch" /\ SameRun
         /\ disk'["history"] = HistoryOf(proc)
         /\ disk'["last"] = disk["last"] /\ disk'["best"] = disk["best"]
         /\ old' = old /\ mirror' = mirror /\ struck' = struck
<1>1. PlaceOK(disk) /\ PlaceOK(old) /\ PlaceOK(mirror) /\ proc.pc = "begin" /\ ~Stopped
  BY PlacesOK DEF TypeInv, Begin, Stopped
<1>2. HistoryNow \in History /\ HistoryNow = HistoryOf(proc)
  BY <1>1, HistoryWritten
<1>3. proc' \in RunStates /\ proc'.pc = "epoch" /\ SameRun
  BY <1>1, GotoIs DEF TypeInv, Begin, SameRun, Steps
<1>4. PlaceOK(disk') /\ disk'["history"] = HistoryNow
      /\ disk'["last"] = disk["last"] /\ disk'["best"] = disk["best"]
  <2>1. disk' = [disk EXCEPT !["history"] = HistoryNow]
    BY DEF Begin
  <2> QED
    BY <1>1, <1>2, <2>1 DEF PlaceOK, Files, Names
<1>5. TypeOK'
  BY <1>1, <1>3, <1>4, TypesAgain DEF Begin
<1>6. TypeInv'
  BY <1>1, <1>3, <1>5 DEF TypeInv, SameRun
<1> QED
  BY <1>1, <1>2, <1>3, <1>4, <1>6 DEF Begin, Stopped

LEMMA EpochIsTyped ==
  ASSUME TypeInv, Epoch
  PROVE  /\ TypeInv' /\ ~Stopped /\ ~Stopped' /\ proc.pc = "epoch"
         /\ disk' = disk /\ old' = old /\ mirror' = mirror /\ struck' = struck
         /\ \E top1 \in Scores :
              /\ proc'.pc = IF top1 > proc.best_top1 THEN "best" ELSE "checkpoint"
              /\ proc'.results = Append(proc.results, top1)
              /\ proc'.weights = proc.weights + 1
              /\ proc'.schedule = proc.schedule + ScheduleSteps(proc.scheduler)
              /\ proc'.best_top1 = IF top1 > proc.best_top1 THEN top1 ELSE proc.best_top1
              /\ proc'.best_epoch =
                   IF top1 > proc.best_top1 THEN Len(proc.results) + 1 ELSE proc.best_epoch
              /\ proc'.epochs_without_improvement =
                   IF top1 > proc.best_top1 THEN 0 ELSE proc.epochs_without_improvement + 1
              /\ proc'.scheduler = proc.scheduler
<1>1. PlaceOK(disk) /\ PlaceOK(old) /\ PlaceOK(mirror) /\ proc.pc = "epoch" /\ ~Stopped
  BY PlacesOK DEF TypeInv, Epoch, Stopped
<1>2. PICK raw \in Scores, ema \in Scores : proc' = AfterEpoch(Better(raw, ema))
  BY DEF Epoch
<1> DEFINE top1 == Better(raw, ema)
<1>3. top1 \in Scores
  BY DEF Better
<1> HIDE DEF top1
<1>4. /\ proc' \in RunStates
      /\ proc'.pc = IF top1 > proc.best_top1 THEN "best" ELSE "checkpoint"
      /\ proc'.results = Append(proc.results, top1)
      /\ proc'.weights = proc.weights + 1
      /\ proc'.schedule = proc.schedule + ScheduleSteps(proc.scheduler)
      /\ proc'.best_top1 = IF top1 > proc.best_top1 THEN top1 ELSE proc.best_top1
      /\ proc'.best_epoch =
           IF top1 > proc.best_top1 THEN Len(proc.results) + 1 ELSE proc.best_epoch
      /\ proc'.epochs_without_improvement =
           IF top1 > proc.best_top1 THEN 0 ELSE proc.epochs_without_improvement + 1
      /\ proc'.scheduler = proc.scheduler
  BY <1>1, <1>2, <1>3, AfterEpochIs DEF top1
<1>5. TypeOK'
  BY <1>1, <1>4, TypesAgain DEF Epoch
<1>6. Len(proc'.results) > 0
  BY <1>1, <1>3, <1>4, ProcIs DEF TypeInv
<1>7. TypeInv' /\ ~Stopped'
  BY <1>4, <1>5, <1>6 DEF TypeInv, Stopped
<1> QED
  BY <1>1, <1>3, <1>4, <1>7 DEF Epoch

LEMMA SaveBestIs ==
  ASSUME TypeInv, SaveBest
  PROVE  /\ TypeInv' /\ ~Stopped /\ ~Stopped'
         /\ proc.pc = "best" /\ proc'.pc = "checkpoint" /\ SameRun
         /\ disk'["best"] = [kind |-> "best", epoch |-> Len(proc.results), top1 |-> proc.best_top1]
         /\ disk'["last"] = disk["last"] /\ disk'["history"] = disk["history"]
         /\ old' = old /\ mirror' = mirror /\ struck' = struck
<1>1. PlaceOK(disk) /\ PlaceOK(old) /\ PlaceOK(mirror) /\ proc.pc = "best" /\ ~Stopped
  BY PlacesOK DEF TypeInv, SaveBest, Stopped
<1> DEFINE file == [kind |-> "best", epoch |-> Len(proc.results), top1 |-> proc.best_top1]
<1>2. file \in BestFile
  BY <1>1, ProcIs DEF TypeInv, BestFile
<1>3. proc' \in RunStates /\ proc'.pc = "checkpoint" /\ SameRun
  BY <1>1, GotoIs DEF TypeInv, SaveBest, SameRun, Steps
<1>4. disk' = [disk EXCEPT !["best"] = file]
  BY DEF SaveBest
<1> HIDE DEF file
<1>5. PlaceOK(disk') /\ disk'["best"] = file
      /\ disk'["last"] = disk["last"] /\ disk'["history"] = disk["history"]
  BY <1>1, <1>2, <1>4 DEF PlaceOK, Files, Names
<1>6. TypeOK'
  BY <1>1, <1>3, <1>5, TypesAgain DEF SaveBest
<1>7. TypeInv'
  BY <1>1, <1>3, <1>6 DEF TypeInv, SameRun
<1> QED
  BY <1>1, <1>3, <1>5, <1>7 DEF SaveBest, Stopped, file

LEMMA SaveCheckpointIs ==
  ASSUME TypeInv, SaveCheckpoint
  PROVE  /\ TypeInv' /\ ~Stopped /\ ~Stopped'
         /\ proc.pc = "checkpoint" /\ proc'.pc = "mirror" /\ SameRun
         /\ disk'["last"] = LastOf(proc) /\ LastOf(proc) \in Last
         /\ disk'["best"] = disk["best"] /\ disk'["history"] = disk["history"]
         /\ old' = old /\ mirror' = mirror /\ struck' = struck
<1>1. PlaceOK(disk) /\ PlaceOK(old) /\ PlaceOK(mirror) /\ proc.pc = "checkpoint" /\ ~Stopped
  BY PlacesOK DEF TypeInv, SaveCheckpoint, Stopped
<1>2. proc \in RunStates
  BY <1>1, ProcIs DEF TypeInv
<1>3. LastOf(proc) \in Last
  BY <1>2 DEF LastOf, Last, RunStates
<1>4. proc' \in RunStates /\ proc'.pc = "mirror" /\ SameRun
  BY <1>1, GotoIs DEF TypeInv, SaveCheckpoint, SameRun, Steps
<1>5. disk' = [disk EXCEPT !["last"] = LastOf(proc)]
  BY DEF SaveCheckpoint, LastOf
<1>6. PlaceOK(disk') /\ disk'["last"] = LastOf(proc)
      /\ disk'["best"] = disk["best"] /\ disk'["history"] = disk["history"]
  BY <1>1, <1>3, <1>5 DEF PlaceOK, Files, Names
<1>7. TypeOK'
  BY <1>1, <1>4, <1>6, TypesAgain DEF SaveCheckpoint
<1>8. TypeInv'
  BY <1>1, <1>4, <1>7 DEF TypeInv, SameRun
<1> QED
  BY <1>1, <1>3, <1>4, <1>6, <1>8 DEF SaveCheckpoint, Stopped

LEMMA FinishIs ==
  ASSUME TypeInv, Finish
  PROVE  /\ TypeInv' /\ ~Stopped /\ ~Stopped'
         /\ proc.pc = "finish" /\ proc'.pc = "deliver" /\ SameRun
         /\ disk'["history"] = HistoryOf(proc) /\ HistoryOf(proc) \in History
         /\ disk'["last"] = disk["last"] /\ disk'["best"] = disk["best"]
         /\ old' = old /\ mirror' = mirror /\ struck' = struck
<1>1. PlaceOK(disk) /\ PlaceOK(old) /\ PlaceOK(mirror) /\ proc.pc = "finish" /\ ~Stopped
  BY PlacesOK DEF TypeInv, Finish, Stopped
<1>2. HistoryNow \in History /\ HistoryNow = HistoryOf(proc)
  BY <1>1, HistoryWritten
<1>3. proc' \in RunStates /\ proc'.pc = "deliver" /\ SameRun
  BY <1>1, GotoIs DEF TypeInv, Finish, SameRun, Steps
<1>4. PlaceOK(disk') /\ disk'["history"] = HistoryNow
      /\ disk'["last"] = disk["last"] /\ disk'["best"] = disk["best"]
  <2>1. disk' = [disk EXCEPT !["history"] = HistoryNow]
    BY DEF Finish
  <2> QED
    BY <1>1, <1>2, <2>1 DEF PlaceOK, Files, Names
<1>5. TypeOK'
  BY <1>1, <1>3, <1>4, TypesAgain DEF Finish
<1>6. TypeInv'
  BY <1>1, <1>3, <1>5 DEF TypeInv, SameRun
<1> QED
  BY <1>1, <1>2, <1>3, <1>4, <1>6 DEF Finish, Stopped

(* A copy of the files that are due: all of them, or the mishap is noted.   *)
LEMMA MirrorIs ==
  ASSUME TypeInv, NEW due \in SUBSET Names, Mirror(due)
  PROVE  /\ PlaceOK(mirror') /\ losses' \in 0..MaxLosses /\ struck' \subseteq Mishaps
         /\ \A name \in Names :
              \/ mirror'[name] = mirror[name]
              \/ disk[name] # Absent /\ mirror'[name] = disk[name]
         /\ \/ /\ struck' = struck
               /\ \A name \in Names :
                    mirror'[name] = IF name \in due /\ disk[name] # Absent
                                    THEN disk[name] ELSE mirror[name]
            \/ struck' = struck \cup {"unmirrored"}
<1>1. /\ PlaceOK(disk) /\ PlaceOK(mirror)
      /\ losses \in 0..MaxLosses /\ struck \subseteq Mishaps
  BY PlacesOK DEF TypeInv
<1>2. PICK copied \in SUBSET due :
        /\ mirror' = [name \in Names |-> IF name \in copied /\ disk[name] # Absent
                                        THEN disk[name] ELSE mirror[name]]
        /\ IF copied = due THEN UNCHANGED <<losses, struck>>
           ELSE Lose /\ struck' = struck \cup {"unmirrored"}
  BY DEF Mirror
<1>3. \A name \in Names : mirror'[name] = IF name \in copied /\ disk[name] # Absent
                                         THEN disk[name] ELSE mirror[name]
  BY <1>2
<1>4. PlaceOK(mirror')
  <2>1. mirror' = [name \in Names |-> mirror'[name]]
    BY <1>2
  <2>2. \A name \in Names : \E from : PlaceOK(from) /\ mirror'[name] = from[name]
    BY <1>1, <1>3
  <2> DEFINE place == mirror'
  <2>3. place = [name \in Names |-> place[name]]
    BY <2>1
  <2>4. \A name \in Names :
          place[name] = Torn \/ \E from : PlaceOK(from) /\ place[name] = from[name]
    BY <2>2
  <2> HIDE DEF place
  <2>5. PlaceOK(place)
    BY <2>3, <2>4, PlaceMade
  <2> QED
    BY <2>5 DEF place
<1>5. CASE copied = due
  <2>1. losses' = losses /\ struck' = struck
    BY <1>2, <1>5
  <2>2. losses' \in 0..MaxLosses /\ struck' \subseteq Mishaps
    BY <1>1, <2>1
  <2>3. \A name \in Names : mirror'[name] = IF name \in due /\ disk[name] # Absent
                                           THEN disk[name] ELSE mirror[name]
    BY <1>3, <1>5
  <2> QED
    BY <1>3, <1>4, <2>1, <2>2, <2>3
<1>6. CASE copied # due
  <2>1. losses < MaxLosses /\ losses' = losses + 1 /\ struck' = struck \cup {"unmirrored"}
    BY <1>2, <1>6 DEF Lose
  <2>2. losses' \in 0..MaxLosses /\ struck' \subseteq Mishaps
    BY <1>1, <2>1, TrainingAssumption DEF Mishaps
  <2>3. \A name \in Names :
          \/ mirror'[name] = mirror[name]
          \/ disk[name] # Absent /\ mirror'[name] = disk[name]
    BY <1>3
  <2> QED
    BY <1>4, <2>1, <2>2, <2>3
<1> QED
  BY <1>5, <1>6

LEMMA MirrorEpochIs ==
  ASSUME TypeInv, MirrorEpoch
  PROVE  /\ TypeInv' /\ ~Stopped /\ ~Stopped'
         /\ proc.pc = "mirror" /\ SameRun
         /\ \/ proc'.pc = "finish"
            \/ proc'.pc = "epoch" /\ Len(proc.results) < Epochs
         /\ disk' = disk /\ old' = old
         /\ \A name \in Names :
              \/ mirror'[name] = mirror[name]
              \/ disk[name] # Absent /\ mirror'[name] = disk[name]
         /\ \/ /\ struck' = struck
               /\ \A name \in Names :
                    mirror'[name] = IF name \in Due /\ disk[name] # Absent
                                    THEN disk[name] ELSE mirror[name]
            \/ struck' = struck \cup {"unmirrored"}
<1>1. PlaceOK(disk) /\ PlaceOK(old) /\ proc.pc = "mirror" /\ ~Stopped /\ starts \in 0..MaxStarts
  BY PlacesOK DEF TypeInv, MirrorEpoch, Stopped
<1> DEFINE step == IF OutOfPatience \/ Len(proc.results) >= Epochs THEN "finish" ELSE "epoch"
<1>2. step \in Steps /\ Goto(step)
  BY DEF MirrorEpoch, Steps
<1>3. step = "finish" \/ (step = "epoch" /\ Len(proc.results) < Epochs)
  BY <1>1, ProcIs, TrainingAssumption DEF TypeInv
<1> HIDE DEF step
<1>4. proc' \in RunStates /\ proc'.pc = step /\ SameRun
  BY <1>1, <1>2, GotoIs DEF TypeInv, SameRun
<1>5. Due \in SUBSET Names /\ Mirror(Due) /\ disk' = disk /\ old' = old /\ starts' = starts
  BY DEF MirrorEpoch, Due, Names
<1>6. /\ PlaceOK(mirror') /\ losses' \in 0..MaxLosses /\ struck' \subseteq Mishaps
      /\ \A name \in Names :
           \/ mirror'[name] = mirror[name]
           \/ disk[name] # Absent /\ mirror'[name] = disk[name]
      /\ \/ /\ struck' = struck
            /\ \A name \in Names :
                 mirror'[name] = IF name \in Due /\ disk[name] # Absent
                                 THEN disk[name] ELSE mirror[name]
         \/ struck' = struck \cup {"unmirrored"}
  BY <1>5, MirrorIs
<1>7. TypeOK'
  <2>1. PlaceOK(disk') /\ PlaceOK(old') /\ starts' \in 0..MaxStarts
    BY <1>1, <1>5
  <2> QED
    BY <2>1, <1>4, <1>6 DEF TypeOK, PlaceOK, Files
<1>8. TypeInv' /\ ~Stopped'
  BY <1>3, <1>4, <1>7 DEF TypeInv, Stopped, SameRun
<1> QED
  BY <1>1, <1>3, <1>4, <1>5, <1>6, <1>8

LEMMA DeliverIs ==
  ASSUME TypeInv, Deliver
  PROVE  /\ TypeInv' /\ ~Stopped /\ Stopped' /\ proc.pc = "deliver" /\ proc'.pc = "done"
         /\ disk' = disk /\ old' = old
         /\ \A name \in Names :
              \/ mirror'[name] = mirror[name]
              \/ disk[name] # Absent /\ mirror'[name] = disk[name]
         /\ \/ /\ struck' = struck
               /\ \A name \in Names :
                    mirror'[name] = IF name \in Names /\ disk[name] # Absent
                                    THEN disk[name] ELSE mirror[name]
            \/ struck' = struck \cup {"unmirrored"}
<1>1. PlaceOK(disk) /\ PlaceOK(old) /\ proc.pc = "deliver" /\ ~Stopped /\ starts \in 0..MaxStarts
  BY PlacesOK DEF TypeInv, Deliver, Stopped
<1>2. Mirror(Names) /\ disk' = disk /\ old' = old /\ starts' = starts /\ proc' = [pc |-> "done"]
  BY DEF Deliver
<1>3. /\ PlaceOK(mirror') /\ losses' \in 0..MaxLosses /\ struck' \subseteq Mishaps
      /\ \A name \in Names :
           \/ mirror'[name] = mirror[name]
           \/ disk[name] # Absent /\ mirror'[name] = disk[name]
      /\ \/ /\ struck' = struck
            /\ \A name \in Names :
                 mirror'[name] = IF name \in Names /\ disk[name] # Absent
                                 THEN disk[name] ELSE mirror[name]
         \/ struck' = struck \cup {"unmirrored"}
  BY <1>2, MirrorIs
<1>4. TypeOK'
  <2>1. PlaceOK(disk') /\ PlaceOK(old') /\ starts' \in 0..MaxStarts
    BY <1>1, <1>2
  <2> QED
    BY <1>2, <1>3, <2>1 DEF TypeOK, PlaceOK, Files
<1>5. TypeInv' /\ Stopped' /\ proc'.pc = "done"
  BY <1>2, <1>4 DEF TypeInv, Stopped
<1> QED
  BY <1>1, <1>2, <1>3, <1>5

(* A step that leaves no run behind.                                       *)
LEMMA StoppedTypes ==
  ASSUME PlaceOK(disk'), PlaceOK(old'), PlaceOK(mirror'), proc' \in [pc : {"off", "done"}],
         starts' \in 0..MaxStarts, losses' \in 0..MaxLosses, struck' \subseteq Mishaps
  PROVE  TypeInv' /\ Stopped'
<1>1. TypeOK'
  BY DEF TypeOK, PlaceOK, Files
<1>2. proc'.pc \in {"off", "done"}
  OBVIOUS
<1> QED
  BY <1>1, <1>2 DEF TypeInv, Stopped

LEMMA KillIs ==
  ASSUME TypeInv, Kill
  PROVE  /\ TypeInv' /\ ~Stopped /\ Stopped' /\ proc' = Idle
         /\ disk'["last"] = disk["last"]
         /\ proc.pc # "best" => disk'["best"] = disk["best"]
         /\ proc.pc \notin {"begin", "finish"} => disk'["history"] = disk["history"]
         /\ old' = old /\ mirror' = mirror /\ struck' = struck \cup KillMishaps
<1>1. /\ PlaceOK(disk) /\ PlaceOK(old) /\ PlaceOK(mirror) /\ ~Stopped
      /\ starts \in 0..MaxStarts /\ losses \in 0..MaxLosses /\ struck \subseteq Mishaps
  BY PlacesOK DEF TypeInv, Kill
<1>2. /\ old' = old /\ mirror' = mirror /\ starts' = starts /\ proc' = Idle
      /\ struck' = struck \cup KillMishaps /\ losses' \in 0..MaxLosses
  BY <1>1, TrainingAssumption DEF Kill, Lose
<1>3. PICK torn \in SUBSET Writing :
        disk' = [name \in Names |-> IF name \in torn THEN Torn ELSE disk[name]]
  BY DEF Kill
<1>4. /\ "last" \notin torn
      /\ proc.pc # "best" => "best" \notin torn
      /\ proc.pc \notin {"begin", "finish"} => "history" \notin torn
  BY DEF Writing
<1>5. \A name \in Names : disk'[name] = IF name \in torn THEN Torn ELSE disk[name]
  BY <1>3
<1>6. PlaceOK(disk')
  <2> DEFINE place == disk'
  <2>1. place = [name \in Names |-> place[name]]
    BY <1>3
  <2>2. \A name \in Names :
          place[name] = Torn \/ \E from : PlaceOK(from) /\ place[name] = from[name]
    BY <1>1, <1>5
  <2> HIDE DEF place
  <2>3. PlaceOK(place)
    BY <2>1, <2>2, PlaceMade
  <2> QED
    BY <2>3 DEF place
<1>7. proc' \in [pc : {"off", "done"}] /\ struck' \subseteq Mishaps
      /\ PlaceOK(old') /\ PlaceOK(mirror') /\ starts' \in 0..MaxStarts
  BY <1>1, <1>2 DEF Idle, KillMishaps, Mishaps
<1>8. TypeInv' /\ Stopped'
  BY <1>2, <1>6, <1>7, StoppedTypes
<1>9. Names = {"last", "best", "history"}
  BY DEF Names
<1> QED
  BY <1>1, <1>2, <1>4, <1>5, <1>8, <1>9

LEMMA MachineLostIs ==
  ASSUME TypeInv, MachineLost
  PROVE  /\ TypeInv' /\ Stopped' /\ proc' = Idle
         /\ disk' = Empty /\ old' \in {old, Empty} /\ mirror' = mirror
         /\ struck' = IF old'["last"] # Absent /\ disk["last"] # Absent
                      THEN struck \cup {"outdated"} ELSE struck
<1>1. /\ PlaceOK(mirror) /\ PlaceOK(old) /\ PlaceOK(Empty)
      /\ starts \in 0..MaxStarts /\ losses \in 0..MaxLosses /\ struck \subseteq Mishaps
  BY PlacesOK, EmptyOK DEF TypeInv
<1>2. /\ disk' = Empty /\ old' \in {old, Empty} /\ mirror' = mirror
      /\ struck' = IF old'["last"] # Absent /\ disk["last"] # Absent
                   THEN struck \cup {"outdated"} ELSE struck
      /\ struck' \subseteq Mishaps
      /\ proc' = Idle /\ starts' = starts /\ losses' \in 0..MaxLosses
  BY <1>1, TrainingAssumption DEF MachineLost, Lose, Mishaps
<1>3. /\ PlaceOK(disk') /\ PlaceOK(old') /\ PlaceOK(mirror')
      /\ proc' \in [pc : {"off", "done"}] /\ starts' \in 0..MaxStarts /\ struck' \subseteq Mishaps
  BY <1>1, <1>2 DEF Idle
<1> QED
  BY <1>2, <1>3, StoppedTypes

LEMMA RecloneIs ==
  ASSUME TypeInv, Reclone
  PROVE  /\ TypeInv' /\ Stopped /\ Stopped' /\ proc' = Idle
         /\ disk' = Empty /\ mirror' = mirror /\ struck' = struck
         /\ old' = IF disk["last"] # Absent THEN disk ELSE old
<1>1. /\ PlaceOK(disk) /\ PlaceOK(old) /\ PlaceOK(mirror) /\ PlaceOK(Empty)
      /\ starts \in 0..MaxStarts /\ losses \in 0..MaxLosses /\ struck \subseteq Mishaps
  BY PlacesOK, EmptyOK DEF TypeInv
<1>2. /\ disk' = Empty /\ mirror' = mirror /\ struck' = struck /\ Stopped
      /\ old' = IF disk["last"] # Absent THEN disk ELSE old
      /\ proc' = Idle /\ starts' = starts /\ losses' \in 0..MaxLosses
  BY <1>1, TrainingAssumption DEF Reclone, Lose
<1>3. /\ PlaceOK(disk') /\ PlaceOK(old') /\ PlaceOK(mirror')
      /\ proc' \in [pc : {"off", "done"}] /\ starts' \in 0..MaxStarts /\ struck' \subseteq Mishaps
  BY <1>1, <1>2 DEF Idle
<1> QED
  BY <1>2, <1>3, StoppedTypes

LEMMA AdoptIs ==
  ASSUME TypeInv, Adopt
  PROVE  /\ TypeInv' /\ Stopped /\ Stopped' /\ proc' = proc
         /\ old' = old /\ mirror' = mirror
         /\ disk["last"] = Absent /\ old["last"] # Absent
         /\ \/ /\ struck' = struck
               /\ \A name \in Names :
                    disk'[name] = IF old[name] # Absent THEN old[name] ELSE disk[name]
            \/ /\ struck' = struck \cup {"copied"}
               /\ disk'["last"] \in {old["last"], Torn}
<1>1. /\ PlaceOK(disk) /\ PlaceOK(old) /\ PlaceOK(mirror)
      /\ starts \in 0..MaxStarts /\ losses \in 0..MaxLosses /\ struck \subseteq Mishaps
  BY PlacesOK DEF TypeInv
<1>2. /\ old' = old /\ mirror' = mirror /\ proc' = proc /\ starts' = starts /\ Stopped
      /\ disk["last"] = Absent /\ old["last"] # Absent
  BY DEF Adopt
<1>3. PICK n \in 0..Len(InOrder) :
       /\ disk' = [name \in Names |->
                     IF old[name] # Absent /\ \E i \in 1..n : InOrder[i] = name THEN old[name]
                     ELSE IF old[name] # Absent /\ n < Len(InOrder) /\ InOrder[n + 1] = name
                     THEN Torn
                     ELSE disk[name]]
       /\ IF n = Len(InOrder) THEN UNCHANGED <<losses, struck>>
          ELSE Lose /\ struck' = struck \cup {"copied"}
  BY DEF Adopt
<1>4. /\ Names = {"last", "best", "history"} /\ Len(InOrder) = 3
      /\ InOrder[1] = "last" /\ InOrder[2] = "best" /\ InOrder[3] = "history"
  BY DEF Names, InOrder
<1>5. \/ n = 3 /\ losses' = losses /\ struck' = struck
      \/ n \in 0..2 /\ losses < MaxLosses /\ losses' = losses + 1 /\ struck' = struck \cup {"copied"}
  BY <1>3, <1>4 DEF Lose
<1>6. \A name \in Names :
        disk'[name] = IF old[name] # Absent /\ \E i \in 1..n : InOrder[i] = name THEN old[name]
                      ELSE IF old[name] # Absent /\ n < Len(InOrder) /\ InOrder[n + 1] = name
                      THEN Torn
                      ELSE disk[name]
  BY <1>3
<1>7. \A name \in Names : disk'[name] \in {old[name], Torn, disk[name]}
  BY <1>6
<1>8. PlaceOK(disk')
  <2> DEFINE place == disk'
  <2>1. place = [name \in Names |-> place[name]]
    BY <1>3
  <2>2. \A name \in Names :
          place[name] = Torn \/ \E from : PlaceOK(from) /\ place[name] = from[name]
    BY <1>1, <1>7
  <2> HIDE DEF place
  <2>3. PlaceOK(place)
    BY <2>1, <2>2, PlaceMade
  <2> QED
    BY <2>3 DEF place
<1>9. losses' \in 0..MaxLosses /\ struck' \subseteq Mishaps
  <2>1. losses' \in 0..MaxLosses
    BY <1>1, <1>5, TrainingAssumption
  <2>2. struck' \subseteq Mishaps
    BY <1>1, <1>5 DEF Mishaps
  <2> QED
    BY <2>1, <2>2
<1>10. \/ /\ struck' = struck
          /\ \A name \in Names :
               disk'[name] = IF old[name] # Absent THEN old[name] ELSE disk[name]
       \/ /\ struck' = struck \cup {"copied"}
          /\ disk'["last"] \in {old["last"], Torn}
  <2>1. CASE n = 3
    <3>1. \A name \in Names : \E i \in 1..n : InOrder[i] = name
      BY <1>4, <2>1
    <3>2. \A name \in Names : disk'[name] = IF old[name] # Absent THEN old[name] ELSE disk[name]
      BY <1>4, <1>6, <2>1, <3>1
    <3> QED
      BY <1>5, <2>1, <3>2
  <2>2. CASE n \in 0..2
    <3>1. n = 0 \/ 1 \in 1..n
      BY <2>2
    <3>2. disk'["last"] \in {old["last"], Torn}
      BY <1>2, <1>4, <1>6, <2>2, <3>1
    <3> QED
      BY <1>5, <2>2, <3>2
  <2> QED
    BY <1>5, <2>1, <2>2
<1>11. TypeInv' /\ Stopped'
  <2>1. /\ PlaceOK(old') /\ PlaceOK(mirror') /\ starts' \in 0..MaxStarts
        /\ proc' \in [pc : {"off", "done"}]
    BY <1>1, <1>2, PlacesOK, ProcIs DEF TypeInv
  <2> QED
    BY <1>8, <1>9, <2>1, StoppedTypes
<1> QED
  BY <1>2, <1>10, <1>11

LEMMA CopyBackIs ==
  ASSUME TypeInv, CopyBack
  PROVE  /\ TypeInv' /\ Stopped /\ Stopped' /\ proc' = proc
         /\ disk' = mirror /\ old' = old /\ mirror' = mirror
         /\ disk["last"] = Absent /\ mirror["last"] # Absent
         /\ struck' = struck \cup {"copied"}
<1>1. /\ PlaceOK(old) /\ PlaceOK(mirror)
      /\ starts \in 0..MaxStarts /\ losses \in 0..MaxLosses /\ struck \subseteq Mishaps
  BY PlacesOK DEF TypeInv
<1>2. /\ Stopped /\ proc' = proc /\ starts' = starts /\ losses' = losses
      /\ disk' = mirror /\ old' = old /\ mirror' = mirror
      /\ disk["last"] = Absent /\ mirror["last"] # Absent
      /\ struck' = struck \cup {"copied"}
  BY DEF CopyBack
<1>3. /\ PlaceOK(disk') /\ PlaceOK(old') /\ PlaceOK(mirror')
      /\ proc' \in [pc : {"off", "done"}] /\ starts' \in 0..MaxStarts
      /\ losses' \in 0..MaxLosses /\ struck' \subseteq Mishaps
  BY <1>1, <1>2, PlacesOK, ProcIs DEF TypeInv, Mishaps
<1> QED
  BY <1>2, <1>3, StoppedTypes

LEMMA TypesKept ==
  ASSUME TypeInv, [Next]_vars
  PROVE  TypeInv'
<1>1. CASE UNCHANGED vars
  BY <1>1 DEF vars, TypeInv, TypeOK
<1>2. CASE \E scheduler \in Schedulers, resume \in BOOLEAN : Start(scheduler, resume)
  BY <1>2, StartIs
<1>3. CASE Begin \/ Epoch \/ SaveBest \/ SaveCheckpoint \/ MirrorEpoch \/ Finish \/ Deliver
  BY <1>3, BeginIs, EpochIsTyped, SaveBestIs, SaveCheckpointIs, MirrorEpochIs, FinishIs,
     DeliverIs, Zenon
<1>4. CASE Kill \/ MachineLost \/ Reclone \/ Adopt \/ CopyBack
  BY <1>4, KillIs, MachineLostIs, RecloneIs, AdoptIs, CopyBackIs, Zenon
<1> QED
  BY <1>1, <1>2, <1>3, <1>4 DEF Next

LEMMA TypesHold == Spec => []TypeInv
<1>1. Init => TypeInv
  <2>1. SUFFICES ASSUME Init PROVE TypeInv
    OBVIOUS
  <2>2. /\ PlaceOK(disk) /\ PlaceOK(old) /\ PlaceOK(mirror) /\ proc \in [pc : {"off", "done"}]
        /\ starts \in 0..MaxStarts /\ losses \in 0..MaxLosses /\ struck \subseteq Mishaps
        /\ proc.pc = "off"
    BY <2>1, EmptyOK, TrainingAssumption DEF Init, Idle
  <2> QED
    BY <2>2, PlacesOK DEF TypeInv
<1>2. TypeInv /\ [Next]_vars => TypeInv'
  BY TypesKept
<1> QED
  BY <1>1, <1>2, PTL DEF Spec

(* Files, checkpoints and the process are what the code writes and reads.   *)
THEOREM TypeCorrect == Spec => []TypeOK
<1>1. TypeInv => TypeOK
  BY DEF TypeInv
<1> QED
  BY <1>1, TypesHold, PTL

-----------------------------------------------------------------------------
(* Checkpoints are exact.  Inductive once it is also said of the process,  *)
(* which carries the same fields from one checkpoint to the next.          *)

Exact(run) ==
  /\ run.best_top1 = Best(run.results)
  /\ run.epochs_without_improvement = Len(run.results) - BestEpoch(run.results)

Trained(run) ==
  /\ run.weights = Len(run.results)
  /\ Accumulation <= Batches => run.schedule = Len(run.results) * PlannedSteps(run.scheduler)

ExactFile(file, mixed) == file \in Last => Exact(file) /\ (mixed \/ Trained(file))

ExactInv ==
  /\ ExactFile(disk["last"], "mixed" \in struck)
  /\ ExactFile(old["last"], "mixed" \in struck)
  /\ ExactFile(mirror["last"], "mixed" \in struck)
  /\ ~Stopped => Exact(proc) /\ ("mixed" \in struck \/ Trained(proc))

LEMMA StepsOfEpoch ==
  ASSUME NEW scheduler
  PROVE  /\ PlannedSteps(scheduler) \in Nat
         /\ Accumulation <= Batches => ScheduleSteps(scheduler) = PlannedSteps(scheduler)
<1>1. Batches \div Accumulation \in Nat
  BY Remainder, TrainingAssumption
<1> QED
  BY <1>1, StepsAsPlanned DEF PlannedSteps, ScheduleSteps

LEMMA NoCheckpoint ==
  ASSUME NEW mixed
  PROVE  ExactFile(Absent, mixed) /\ ExactFile(Torn, mixed)
<1>1. \A file \in Last : file.kind = "last"
  BY DEF Last
<1> QED
  BY <1>1 DEF ExactFile, Absent, Torn

(* Files that are only moved about.                                        *)
LEMMA ExactMoved ==
  ASSUME ExactInv, struck \subseteq struck',
         disk'["last"] \in {disk["last"], old["last"], mirror["last"], Absent, Torn},
         old'["last"] \in {disk["last"], old["last"], mirror["last"], Absent, Torn},
         mirror'["last"] \in {disk["last"], old["last"], mirror["last"], Absent, Torn},
         ~Stopped' => ~Stopped /\ SameRun
  PROVE  ExactInv'
<1> DEFINE mixed == "mixed" \in struck
           after == "mixed" \in struck'
<1>1. \A file : ExactFile(file, mixed) => ExactFile(file, after)
  BY DEF ExactFile
<1>2. /\ ExactFile(disk["last"], mixed) /\ ExactFile(old["last"], mixed)
      /\ ExactFile(mirror["last"], mixed)
  BY DEF ExactInv
<1>3. ExactFile(Absent, mixed) /\ ExactFile(Torn, mixed)
  BY NoCheckpoint
<1> HIDE DEF mixed, after
<1>4. /\ ExactFile(disk'["last"], after) /\ ExactFile(old'["last"], after)
      /\ ExactFile(mirror'["last"], after)
  BY <1>1, <1>2, <1>3
<1>5. ~Stopped' => Exact(proc') /\ ("mixed" \in struck' \/ Trained(proc'))
  BY DEF ExactInv, SameRun, Exact, Trained
<1> QED
  BY <1>4, <1>5 DEF ExactInv, after

LEMMA ExactStart ==
  ASSUME TypeInv, ExactInv, NEW scheduler \in Schedulers, NEW resume \in BOOLEAN,
         Start(scheduler, resume)
  PROVE  ExactInv'
<1>1. PICK run :
        /\ Anew(run, scheduler) \/ Continued(run)
        /\ struck' = struck \cup StartMishaps(run, scheduler)
        /\ \/ Stopped'
           \/ Begins(run, scheduler)
  BY StartIs
<1>2. disk' = disk /\ old' = old /\ mirror' = mirror
  BY StartIs
<1>3. CASE Stopped'
  BY <1>1, <1>2, <1>3, ExactMoved
<1>4. CASE Begins(run, scheduler)
  <2>1. Exact(run)
    <3>1. CASE Anew(run, scheduler)
      BY <3>1, NothingIsBest DEF Anew, Exact
    <3>2. CASE Continued(run)
      BY <3>2 DEF Continued, Exact, ExactInv, ExactFile
    <3> QED
      BY <1>1, <3>1, <3>2
  <2>2. "mixed" \in struck' \/ run.weights = 0 \/ disk["last"].scheduler = scheduler
    <3>1. run.weights \in Nat
      <4>1. CASE Anew(run, scheduler)
        BY <4>1, LastIs DEF Anew
      <4>2. CASE Continued(run)
        BY <4>2, LastIs DEF Continued
      <4> QED
        BY <1>1, <4>1, <4>2
    <3> QED
      BY <1>1, <3>1 DEF StartMishaps
  <2>3. /\ "mixed" \in struck' \/ run.weights = Len(run.results)
        /\ \/ "mixed" \in struck'
           \/ Accumulation <= Batches => run.schedule = Len(run.results) * PlannedSteps(scheduler)
    <3>1. PlannedSteps(scheduler) \in Nat
      BY StepsOfEpoch
    <3>2. CASE Anew(run, scheduler)
      BY <2>2, <3>1, <3>2 DEF Anew
    <3>3. CASE Continued(run)
      <4>1. "mixed" \in struck => "mixed" \in struck'
        BY <1>1
      <4>2. /\ disk["last"] \in Last
            /\ run.results = disk["last"].results /\ run.weights = disk["last"].weights
            /\ run.schedule = disk["last"].schedule
        BY <3>3 DEF Continued
      <4>3. CASE Trained(disk["last"])
        <5>1. PlannedSteps(disk["last"].scheduler) \in Nat
          BY StepsOfEpoch
        <5>2. CASE disk["last"].scheduler = scheduler
          BY <4>2, <4>3, <5>2 DEF Trained
        <5>3. CASE run.weights = 0
          BY <3>1, <4>2, <4>3, <5>1, <5>3 DEF Trained
        <5> QED
          BY <2>2, <5>2, <5>3
      <4> QED
        BY <4>1, <4>2, <4>3 DEF ExactInv, ExactFile
    <3> QED
      BY <1>1, <3>2, <3>3
  <2>4. Exact(proc') /\ ("mixed" \in struck' \/ Trained(proc'))
    BY <1>4, <2>1, <2>3 DEF Begins, Exact, Trained
  <2>5. struck \subseteq struck'
    BY <1>1
  <2> QED
    BY <1>2, <2>4, <2>5 DEF ExactInv, ExactFile
<1> QED
  BY <1>1, <1>3, <1>4

LEMMA ExactEpoch ==
  ASSUME TypeInv, ExactInv, Epoch
  PROVE  ExactInv'
<1>1. PICK top1 \in Scores :
        /\ proc'.results = Append(proc.results, top1)
        /\ proc'.weights = proc.weights + 1
        /\ proc'.schedule = proc.schedule + ScheduleSteps(proc.scheduler)
        /\ proc'.best_top1 = IF top1 > proc.best_top1 THEN top1 ELSE proc.best_top1
        /\ proc'.epochs_without_improvement =
             IF top1 > proc.best_top1 THEN 0 ELSE proc.epochs_without_improvement + 1
        /\ proc'.scheduler = proc.scheduler
  BY EpochIsTyped
<1>2. disk' = disk /\ old' = old /\ mirror' = mirror /\ struck' = struck /\ ~Stopped
  BY EpochIsTyped
<1>3. proc.results \in Seq(Scores) /\ Len(proc.results) \in Nat
  BY <1>2, ProcIs DEF TypeInv
<1>4. Exact(proc) /\ ("mixed" \in struck \/ Trained(proc))
  BY <1>2 DEF ExactInv
<1>5. Exact(proc')
  <2>1. /\ Best(proc'.results) = IF top1 > Best(proc.results) THEN top1 ELSE Best(proc.results)
        /\ BestEpoch(proc'.results) =
             IF top1 > Best(proc.results) THEN Len(proc.results) + 1 ELSE BestEpoch(proc.results)
    BY <1>1, <1>3, AnotherEpoch
  <2>2. Len(proc'.results) = Len(proc.results) + 1
    BY <1>1, <1>3
  <2>3. BestEpoch(proc.results) \in 0..Len(proc.results)
    BY <1>3, EpochExists
  <2>4. /\ proc.best_top1 = Best(proc.results)
        /\ proc.epochs_without_improvement = Len(proc.results) - BestEpoch(proc.results)
    BY <1>4 DEF Exact
  <2>5. proc'.best_top1 = Best(proc'.results)
    BY <1>1, <2>1, <2>4
  <2>6. proc'.epochs_without_improvement = Len(proc'.results) - BestEpoch(proc'.results)
    BY <1>1, <1>3, <2>1, <2>2, <2>3, <2>4
  <2> QED
    BY <2>5, <2>6 DEF Exact
<1>6. ASSUME Trained(proc) PROVE Trained(proc')
  <2>0. proc'.weights = Len(proc'.results)
    BY <1>1, <1>3, <1>6 DEF Trained
  <2> SUFFICES ASSUME Accumulation <= Batches
               PROVE  proc'.schedule = Len(proc'.results) * PlannedSteps(proc'.scheduler)
    BY <2>0 DEF Trained
  <2> DEFINE n == Len(proc.results)
             k == PlannedSteps(proc.scheduler)
  <2>1. /\ k \in Nat /\ n \in Nat /\ Len(proc'.results) = n + 1
        /\ ScheduleSteps(proc.scheduler) = k /\ PlannedSteps(proc'.scheduler) = k
    BY <1>1, <1>3, StepsOfEpoch
  <2>2. (n + 1) * k = n * k + k
    BY <2>1, OneMore
  <2> HIDE DEF n, k
  <2> QED
    BY <1>1, <1>6, <2>1, <2>2 DEF Trained, n, k
<1> QED
  BY <1>2, <1>4, <1>5, <1>6 DEF ExactInv, ExactFile

LEMMA ExactSaved ==
  ASSUME TypeInv, ExactInv, SaveCheckpoint
  PROVE  ExactInv'
<1>1. /\ ~Stopped /\ SameRun /\ disk'["last"] = LastOf(proc)
      /\ old' = old /\ mirror' = mirror /\ struck' = struck
  BY SaveCheckpointIs
<1>2. Exact(proc) /\ ("mixed" \in struck \/ Trained(proc))
  BY <1>1 DEF ExactInv
<1>3. Exact(LastOf(proc)) /\ (Trained(proc) => Trained(LastOf(proc)))
  BY <1>2 DEF Exact, Trained, LastOf
<1>4. Exact(proc') /\ (Trained(proc) => Trained(proc'))
  BY <1>1, <1>2 DEF Exact, Trained, SameRun
<1> QED
  BY <1>1, <1>2, <1>3, <1>4 DEF ExactInv, ExactFile

LEMMA ExactKept ==
  ASSUME TypeInv, ExactInv, [Next]_vars
  PROVE  ExactInv'
<1>0. "last" \in Names
  BY DEF Names
<1>1. CASE UNCHANGED vars
  BY <1>1 DEF vars, ExactInv, Stopped
<1>2. CASE \E scheduler \in Schedulers, resume \in BOOLEAN : Start(scheduler, resume)
  BY <1>2, ExactStart
<1>3. CASE Epoch
  BY <1>3, ExactEpoch
<1>4. CASE SaveCheckpoint
  BY <1>4, ExactSaved
<1>5. CASE Begin
  BY <1>5, BeginIs, ExactMoved
<1>6. CASE SaveBest
  BY <1>6, SaveBestIs, ExactMoved
<1>7. CASE Finish
  BY <1>7, FinishIs, ExactMoved
<1>8. CASE MirrorEpoch
  <2>1. /\ mirror'["last"] \in {mirror["last"], disk["last"]}
        /\ disk' = disk /\ old' = old /\ struck \subseteq struck' /\ ~Stopped /\ SameRun
    BY <1>0, <1>8, MirrorEpochIs
  <2> QED
    BY <2>1, ExactMoved
<1>9. CASE Deliver
  <2>1. /\ mirror'["last"] \in {mirror["last"], disk["last"]}
        /\ disk' = disk /\ old' = old /\ struck \subseteq struck' /\ Stopped'
    BY <1>0, <1>9, DeliverIs
  <2> QED
    BY <2>1, ExactMoved
<1>10. CASE Kill
  BY <1>10, KillIs, ExactMoved
<1>11. CASE MachineLost
  BY <1>0, <1>11, MachineLostIs, ExactMoved DEF Empty
<1>12. CASE Reclone
  <2>1. /\ Stopped' /\ mirror' = mirror /\ struck' = struck /\ disk'["last"] = Absent
        /\ old'["last"] \in {disk["last"], old["last"]}
    BY <1>0, <1>12, RecloneIs DEF Empty
  <2> QED
    BY <2>1, ExactMoved
<1>13. CASE Adopt
  <2>1. /\ Stopped' /\ mirror' = mirror /\ old' = old /\ struck \subseteq struck'
        /\ disk'["last"] \in {disk["last"], old["last"], Torn}
    BY <1>0, <1>13, AdoptIs
  <2> QED
    BY <2>1, ExactMoved
<1>14. CASE CopyBack
  BY <1>14, CopyBackIs, ExactMoved
<1> QED
  BY <1>1, <1>2, <1>3, <1>4, <1>5, <1>6, <1>7, <1>8, <1>9, <1>10, <1>11, <1>12, <1>13, <1>14
     DEF Next

LEMMA ExactHolds == Spec => [](TypeInv /\ ExactInv)
<1>1. Init => ExactInv
  <2>1. SUFFICES ASSUME Init PROVE ExactInv
    OBVIOUS
  <2>2. disk["last"] = Absent /\ old["last"] = Absent /\ mirror["last"] = Absent /\ Stopped
    BY <2>1 DEF Init, Empty, Names, Idle, Stopped
  <2> QED
    BY <2>2, NoCheckpoint DEF ExactInv
<1>2. TypeInv /\ ExactInv /\ [Next]_vars => ExactInv'
  BY ExactKept
<1> QED
  BY <1>1, <1>2, TypesHold, PTL DEF Spec

(* Whatever happens to a run, a checkpoint says of its epochs what they     *)
(* say themselves: best score, patience, training and place in the          *)
(* schedule (save_checkpoint, load_checkpoint, build_scheduler).            *)
THEOREM CheckpointsAreExact == Spec => []CheckpointIsExact
<1>1. TypeInv /\ ExactInv => CheckpointIsExact
  <2>1. SUFFICES ASSUME TypeInv, ExactInv, NEW place \in {disk, old, mirror},
                        place["last"] \notin {Absent, Torn}
                 PROVE  LET last == place["last"] IN
                        /\ Exact(last) /\ ("mixed" \in struck \/ Trained(last))
    BY DEF CheckpointIsExact, Exact, Trained
  <2>2. PlaceOK(place)
    BY <2>1, PlacesOK DEF TypeInv
  <2>3. place["last"] \in Last
    BY <2>1, <2>2, KindsDiffer
  <2> QED
    BY <2>1, <2>3 DEF ExactInv, ExactFile
<1> QED
  BY <1>1, ExactHolds, PTL

-----------------------------------------------------------------------------
(* The best weights.  Inductive once it is said of the run that is going   *)
(* on, too, and of the older clone, which can be adopted.                  *)

BestOf(run) == [kind |-> "best", epoch |-> BestEpoch(run.results), top1 |-> run.best_top1]

(* A directory holds the weights of the best epoch its checkpoint knows.    *)
Ships(place) ==
  place["last"] \in Last /\ place["last"].best_top1 > 0 => place["best"] = BestOf(place["last"])

(* After an epoch that is a new best, until both files say so.             *)
BetweenWrites == proc.pc \in {"best", "checkpoint"} /\ IsBest

Intact == struck \cap {"torn", "copied"} = {}

ShipInv ==
  /\ proc.pc = "best" => IsBest
  /\ Intact =>
       /\ Ships(old)
       /\ BetweenWrites \/ Ships(disk)
       /\ ~Stopped /\ proc.pc # "best" /\ proc.best_top1 > 0 => disk["best"] = BestOf(proc)

LEMMA ShipsAgain ==
  ASSUME NEW place, NEW other, Ships(place),
         other["last"] = place["last"], other["best"] = place["best"]
  PROVE  Ships(other)
  BY DEF Ships

LEMMA ShipsNothing ==
  ASSUME NEW place, place["last"] \in {Absent, Torn}
  PROVE  Ships(place)
<1>1. \A file \in Last : file.kind = "last"
  BY DEF Last
<1> QED
  BY <1>1 DEF Ships, Absent, Torn

(* Nothing but the step of the run changes.                                *)
LEMMA ShipMoved ==
  ASSUME ShipInv, struck \subseteq struck', old' = old,
         disk'["last"] = disk["last"], disk'["best"] = disk["best"],
         ~Stopped, proc.pc \notin {"best", "checkpoint"},
         Stopped' \/ (SameRun /\ proc'.pc \notin {"best", "checkpoint"})
  PROVE  ShipInv'
<1>1. ~BetweenWrites /\ proc'.pc # "best"
  BY DEF BetweenWrites, Stopped
<1>2. SUFFICES ASSUME Intact' PROVE /\ Ships(old') /\ Ships(disk')
                                    /\ ~Stopped' /\ proc'.best_top1 > 0 => disk'["best"] = BestOf(proc')
  BY <1>1 DEF ShipInv
<1>3. Intact
  BY <1>2 DEF Intact
<1>4. Ships(old) /\ Ships(disk)
      /\ (proc.best_top1 > 0 => disk["best"] = BestOf(proc))
  BY <1>1, <1>3 DEF ShipInv
<1>5. Ships(disk')
  BY <1>4 DEF Ships
<1>6. ~Stopped' => proc'.best_top1 = proc.best_top1 /\ BestOf(proc') = BestOf(proc)
  BY DEF SameRun, BestOf
<1> QED
  BY <1>4, <1>5, <1>6

LEMMA ShipStart ==
  ASSUME TypeInv, ShipInv, NEW scheduler \in Schedulers, NEW resume \in BOOLEAN,
         Start(scheduler, resume)
  PROVE  ShipInv'
<1>1. PICK run :
        /\ Anew(run, scheduler) \/ Continued(run)
        /\ struck' = struck \cup StartMishaps(run, scheduler)
        /\ \/ Stopped'
           \/ Begins(run, scheduler)
  BY StartIs
<1>2. disk' = disk /\ old' = old /\ mirror' = mirror /\ Stopped
  BY StartIs
<1>3. ~BetweenWrites /\ proc'.pc # "best"
  BY <1>1, <1>2 DEF BetweenWrites, Stopped, Begins
<1>4. SUFFICES ASSUME Intact' PROVE /\ Ships(old) /\ Ships(disk)
                                    /\ ~Stopped' /\ proc'.best_top1 > 0 => disk["best"] = BestOf(proc')
  BY <1>2, <1>3 DEF ShipInv
<1>5. Intact
  BY <1>1, <1>4 DEF Intact
<1>6. Ships(old) /\ Ships(disk)
  BY <1>3, <1>5 DEF ShipInv
<1>7. ASSUME ~Stopped', proc'.best_top1 > 0 PROVE disk["best"] = BestOf(proc')
  <2>1. Begins(run, scheduler) /\ Continued(run)
    BY <1>1, <1>7 DEF Anew, Begins
  <2>2. BestOf(proc') = BestOf(disk["last"]) /\ proc'.best_top1 = disk["last"].best_top1
    BY <2>1 DEF Begins, Continued, BestOf
  <2> QED
    BY <1>6, <1>7, <2>1, <2>2 DEF Ships, Continued
<1> QED
  BY <1>6, <1>7

LEMMA ShipEpoch ==
  ASSUME TypeInv, ExactInv, ShipInv, Epoch
  PROVE  ShipInv'
<1>1. PICK top1 \in Scores :
        /\ proc'.pc = IF top1 > proc.best_top1 THEN "best" ELSE "checkpoint"
        /\ proc'.results = Append(proc.results, top1)
        /\ proc'.best_top1 = IF top1 > proc.best_top1 THEN top1 ELSE proc.best_top1
        /\ proc'.epochs_without_improvement =
             IF top1 > proc.best_top1 THEN 0 ELSE proc.epochs_without_improvement + 1
  BY EpochIsTyped
<1>2. disk' = disk /\ old' = old /\ struck' = struck /\ ~Stopped /\ proc.pc = "epoch"
  BY EpochIsTyped
<1>3. ~BetweenWrites
  BY <1>2 DEF BetweenWrites
<1>4. Intact => /\ Ships(old) /\ Ships(disk)
                /\ proc.best_top1 > 0 => disk["best"] = BestOf(proc)
  BY <1>2, <1>3 DEF ShipInv
<1>5. Intact' => Intact
  BY <1>2 DEF Intact
<1>6. CASE top1 > proc.best_top1
  <2>1. BetweenWrites' /\ IsBest' /\ proc'.pc = "best"
    BY <1>1, <1>6 DEF BetweenWrites, IsBest
  <2> QED
    BY <1>2, <1>4, <1>5, <2>1 DEF ShipInv
<1>7. CASE ~(top1 > proc.best_top1)
  <2>1. proc'.pc = "checkpoint" /\ proc'.best_top1 = proc.best_top1
    BY <1>1, <1>7
  <2>2. BestOf(proc') = BestOf(proc)
    <3>1. proc.results \in Seq(Scores) /\ proc.best_top1 = Best(proc.results)
      BY <1>2, ProcIs DEF TypeInv, ExactInv, Exact
    <3>2. BestEpoch(proc'.results) = BestEpoch(proc.results)
      BY <1>1, <1>7, <3>1, AnotherEpoch
    <3> QED
      BY <2>1, <3>2 DEF BestOf
  <2> QED
    BY <1>2, <1>4, <1>5, <2>1, <2>2 DEF ShipInv
<1> QED
  BY <1>6, <1>7

LEMMA ShipSaveBest ==
  ASSUME TypeInv, ExactInv, ShipInv, SaveBest
  PROVE  ShipInv'
<1>1. /\ ~Stopped /\ proc.pc = "best" /\ proc'.pc = "checkpoint" /\ SameRun
      /\ disk'["best"] = [kind |-> "best", epoch |-> Len(proc.results), top1 |-> proc.best_top1]
      /\ old' = old /\ struck' = struck
  BY SaveBestIs
<1>2. proc.epochs_without_improvement = 0
  BY <1>1 DEF ShipInv, IsBest
<1>3. BetweenWrites'
  BY <1>1, <1>2 DEF BetweenWrites, IsBest, SameRun
<1>4. Len(proc.results) = BestEpoch(proc.results)
  <2>1. proc.results \in Seq(Scores) /\ BestEpoch(proc.results) \in 0..Len(proc.results)
    BY <1>1, ProcIs, EpochExists DEF TypeInv
  <2>2. proc.epochs_without_improvement = Len(proc.results) - BestEpoch(proc.results)
    BY <1>1 DEF ExactInv, Exact
  <2> QED
    BY <1>2, <2>1, <2>2
<1>5. disk'["best"] = BestOf(proc')
  BY <1>1, <1>4 DEF BestOf, SameRun
<1> QED
  BY <1>1, <1>3, <1>5 DEF ShipInv, Intact

LEMMA ShipSaved ==
  ASSUME TypeInv, ShipInv, SaveCheckpoint
  PROVE  ShipInv'
<1>1. /\ ~Stopped /\ proc.pc = "checkpoint" /\ proc'.pc = "mirror" /\ SameRun
      /\ disk'["last"] = LastOf(proc) /\ disk'["best"] = disk["best"]
      /\ old' = old /\ struck' = struck
  BY SaveCheckpointIs
<1>2. LastOf(proc).best_top1 = proc.best_top1 /\ BestOf(LastOf(proc)) = BestOf(proc)
      /\ proc'.best_top1 = proc.best_top1 /\ BestOf(proc') = BestOf(proc)
  BY <1>1 DEF LastOf, BestOf, SameRun
<1>3. Intact => Ships(old) /\ (proc.best_top1 > 0 => disk["best"] = BestOf(proc))
  BY <1>1 DEF ShipInv
<1>4. Intact => Ships(disk')
  BY <1>1, <1>2, <1>3 DEF Ships
<1>5. Intact' => Intact
  BY <1>1 DEF Intact
<1> QED
  BY <1>1, <1>2, <1>3, <1>4, <1>5 DEF ShipInv

LEMMA ShipKilled ==
  ASSUME TypeInv, ShipInv, Kill
  PROVE  ShipInv'
<1>1. /\ Stopped' /\ proc' = Idle /\ disk'["last"] = disk["last"]
      /\ proc.pc # "best" => disk'["best"] = disk["best"]
      /\ old' = old /\ struck' = struck \cup KillMishaps
  BY KillIs
<1>2. Intact' => Intact /\ ~BetweenWrites
  BY <1>1 DEF Intact, KillMishaps, BetweenWrites
<1>3. ~BetweenWrites => proc.pc # "best"
  BY DEF BetweenWrites, ShipInv
<1>4. Intact' => Ships(old) /\ Ships(disk')
  BY <1>1, <1>2, <1>3 DEF ShipInv, Ships
<1> QED
  BY <1>1, <1>4 DEF ShipInv, Idle

LEMMA ShipStopped ==
  ASSUME TypeInv, ShipInv, Stopped, Stopped', struck \subseteq struck',
         Intact' => \/ disk'["last"] \in {Absent, Torn}
                    \/ Ships(disk'),
         old' \in {disk, old}
  PROVE  ShipInv'
<1>1. ~BetweenWrites /\ proc'.pc # "best"
  BY DEF BetweenWrites, Stopped
<1>2. Intact' => Intact /\ Ships(old) /\ Ships(disk)
  BY <1>1 DEF Intact, ShipInv
<1>3. Intact' => Ships(disk')
  <2> DEFINE place == disk'
  <2>1. place["last"] \in {Absent, Torn} => Ships(place)
    BY ShipsNothing
  <2> QED
    BY <2>1
<1> QED
  BY <1>1, <1>2, <1>3 DEF ShipInv

LEMMA ShipAdopted ==
  ASSUME TypeInv, ShipInv, Adopt
  PROVE  ShipInv'
<1>0. "last" \in Names /\ "best" \in Names
  BY DEF Names
<1>1. /\ Stopped /\ Stopped' /\ old' = old /\ old["last"] # Absent
      /\ \/ /\ struck' = struck
            /\ disk'["last"] = old["last"]
            /\ old["best"] # Absent => disk'["best"] = old["best"]
         \/ struck' = struck \cup {"copied"}
  BY <1>0, AdoptIs
<1>2. ASSUME Intact' PROVE Ships(disk')
  <2>1. disk'["last"] = old["last"] /\ (old["best"] # Absent => disk'["best"] = old["best"])
    BY <1>1, <1>2 DEF Intact
  <2>2. Ships(old)
    BY <1>1, <1>2 DEF Intact, ShipInv
  <2>3. BestOf(old["last"]) # Absent
    BY DEF BestOf, Absent
  <2> QED
    BY <2>1, <2>2, <2>3 DEF Ships
<1>3. struck \subseteq struck'
  BY <1>1
<1> QED
  BY <1>1, <1>2, <1>3, ShipStopped

LEMMA ShipKept ==
  ASSUME TypeInv, ExactInv, ShipInv, [Next]_vars
  PROVE  ShipInv'
<1>0. "last" \in Names
  BY DEF Names
<1>1. CASE UNCHANGED vars
  BY <1>1 DEF vars, ShipInv, Stopped, IsBest, BetweenWrites, Intact
<1>2. CASE \E scheduler \in Schedulers, resume \in BOOLEAN : Start(scheduler, resume)
  BY <1>2, ShipStart
<1>3. CASE Epoch
  BY <1>3, ShipEpoch
<1>4. CASE SaveBest
  BY <1>4, ShipSaveBest
<1>5. CASE SaveCheckpoint
  BY <1>5, ShipSaved
<1>6. CASE Begin
  BY <1>6, BeginIs, ShipMoved
<1>7. CASE Finish
  BY <1>7, FinishIs, ShipMoved
<1>8. CASE MirrorEpoch
  <2>1. /\ disk' = disk /\ old' = old /\ struck \subseteq struck' /\ ~Stopped /\ SameRun
        /\ proc.pc = "mirror" /\ proc'.pc \in {"finish", "epoch"}
    BY <1>8, MirrorEpochIs
  <2> QED
    BY <2>1, ShipMoved
<1>9. CASE Deliver
  <2>1. /\ disk' = disk /\ old' = old /\ struck \subseteq struck' /\ ~Stopped /\ Stopped'
        /\ proc.pc = "deliver"
    BY <1>9, DeliverIs
  <2> QED
    BY <2>1, ShipMoved
<1>10. CASE Kill
  BY <1>10, ShipKilled
<1>11. CASE MachineLost
  <2>1. /\ disk' = Empty /\ old' \in {old, Empty} /\ Stopped' /\ Empty["last"] = Absent
        /\ proc' = Idle /\ struck \subseteq struck'
    BY <1>0, <1>11, MachineLostIs DEF Empty
  <2>2. Ships(Empty)
    BY <2>1, ShipsNothing
  <2>3. Intact' => Ships(old')
    BY <2>1, <2>2 DEF ShipInv, Intact
  <2> QED
    BY <2>1, <2>2, <2>3 DEF ShipInv, Idle
<1>12. CASE Reclone
  <2>1. /\ Stopped /\ Stopped' /\ struck' = struck /\ disk'["last"] = Absent
        /\ old' \in {disk, old}
    BY <1>0, <1>12, RecloneIs DEF Empty
  <2> QED
    BY <2>1, ShipStopped
<1>13. CASE Adopt
  BY <1>13, ShipAdopted
<1>14. CASE CopyBack
  <2>1. Stopped /\ Stopped' /\ old' = old /\ struck' = struck \cup {"copied"}
    BY <1>14, CopyBackIs
  <2>2. ~Intact'
    BY <2>1 DEF Intact
  <2> QED
    BY <2>1, <2>2, ShipStopped
<1> QED
  BY <1>1, <1>2, <1>3, <1>4, <1>5, <1>6, <1>7, <1>8, <1>9, <1>10, <1>11, <1>12, <1>13, <1>14
     DEF Next

(* At every time but between the two writes of train(), the weights that    *)
(* would be shipped are those of the best epoch that the checkpoint knows,  *)
(* unless a run was killed between them or the files were put together.     *)
THEOREM TheBestIsShipped == Spec => []BestIsShipped
<1>1. Init => ShipInv
  <2>1. SUFFICES ASSUME Init PROVE ShipInv
    OBVIOUS
  <2>2. disk["last"] = Absent /\ old["last"] = Absent /\ proc.pc = "off" /\ Stopped
    BY <2>1 DEF Init, Empty, Names, Idle, Stopped
  <2>3. Ships(disk) /\ Ships(old)
    BY <2>2, ShipsNothing
  <2> QED
    BY <2>2, <2>3 DEF ShipInv
<1>2. TypeInv /\ ExactInv /\ ShipInv /\ [Next]_vars => ShipInv'
  BY ShipKept
<1>3. TypeInv /\ ShipInv => BestIsShipped
  <2>1. SUFFICES ASSUME TypeInv, ShipInv,
                        disk["last"] \notin {Absent, Torn}, disk["last"].best_top1 > 0,
                        Stopped \/ proc.pc \notin {"best", "checkpoint"},
                        struck \cap {"torn", "copied"} = {}
                 PROVE  disk["best"] = BestOf(disk["last"])
    BY DEF BestIsShipped, BestOf
  <2>2. disk["last"] \in Last
    BY <2>1, PlacesOK, KindsDiffer DEF TypeInv
  <2>3. ~BetweenWrites /\ Intact
    BY <2>1 DEF BetweenWrites, Stopped, Intact
  <2> QED
    BY <2>1, <2>2, <2>3 DEF ShipInv, Ships
<1> QED
  BY <1>1, <1>2, <1>3, ExactHolds, PTL DEF Spec

-----------------------------------------------------------------------------
(* The history.  Inductive once it is said which directories hold the      *)
(* checkpoint of a whole run: only those of runs that were finished.       *)

(* The history is that of the checkpoint beside it.                        *)
Recorded(place, resumed) ==
  LET history == place["history"] IN
  /\ history \in History
  /\ history.results = place["last"].results
  /\ history.best_top1 = Best(history.results)
  /\ \/ history.best_epoch = BestEpoch(history.results)
     \/ history.best_epoch = 0 /\ resumed

Complete(place) == place["last"] \in Last /\ Len(place["last"].results) >= Epochs

(* Before and after the checkpoint of an epoch is written.                 *)
Afoot == proc.pc \in {"begin", "epoch", "best", "checkpoint"}
Saved == proc.pc \in {"mirror", "finish", "deliver"}

Clean == struck \cap {"unfinished", "copied", "fresh"} = {}

RecordInv ==
  /\ proc.pc = "done" => disk["last"] # Absent
  /\ Saved => disk["last"] \in Last /\ disk["last"].results = proc.results
  /\ ~Stopped => \/ proc.best_epoch = BestEpoch(proc.results)
                 \/ proc.best_epoch = 0 /\ "resumed" \in struck
  /\ Clean =>
       /\ Complete(old) => Recorded(old, "resumed" \in struck)
       /\ Complete(disk) /\ Stopped => Recorded(disk, "resumed" \in struck)
       /\ proc.pc \in {"done", "deliver"} => Recorded(disk, "resumed" \in struck)
       /\ Afoot => ~Complete(disk)

LEMMA RecordedAgain ==
  ASSUME NEW place, NEW other, NEW resumed \in BOOLEAN, NEW after \in BOOLEAN, resumed => after,
         Recorded(place, resumed),
         other["last"] = place["last"], other["history"] = place["history"]
  PROVE  Recorded(other, after)
  BY DEF Recorded

LEMMA NothingIsComplete ==
  ASSUME NEW place, place["last"] \in {Absent, Torn}
  PROVE  ~Complete(place)
<1>1. \A file \in Last : file.kind = "last"
  BY DEF Last
<1> QED
  BY <1>1 DEF Complete, Absent, Torn

LEMMA RecordStart ==
  ASSUME TypeInv, RecordInv, NEW scheduler \in Schedulers, NEW resume \in BOOLEAN,
         Start(scheduler, resume)
  PROVE  RecordInv'
<1>1. PICK run :
        /\ Anew(run, scheduler) \/ Continued(run)
        /\ struck' = struck \cup StartMishaps(run, scheduler)
        /\ \/ /\ Len(run.results) >= Epochs /\ Continued(run)
              /\ proc'.pc = "done" /\ Stopped'
           \/ /\ Len(run.results) < Epochs
              /\ Begins(run, scheduler) /\ ~Stopped'
  BY StartIs
<1>2. disk' = disk /\ old' = old /\ mirror' = mirror /\ Stopped
  BY StartIs
<1>3. /\ Clean' => Clean
      /\ "resumed" \in struck => "resumed" \in struck'
  BY <1>1 DEF Clean
<1>4. Clean' => /\ Complete(old) => Recorded(old, "resumed" \in struck')
                /\ Complete(disk) => Recorded(disk, "resumed" \in struck')
  <2>1. SUFFICES ASSUME Clean' PROVE /\ Complete(old) => Recorded(old, "resumed" \in struck')
                                     /\ Complete(disk) => Recorded(disk, "resumed" \in struck')
    OBVIOUS
  <2>2. /\ Complete(old) => Recorded(old, "resumed" \in struck)
        /\ Complete(disk) => Recorded(disk, "resumed" \in struck)
    BY <1>2, <1>3, <2>1 DEF RecordInv
  <2> QED
    BY <1>3, <2>2 DEF Recorded
<1>5. CASE Len(run.results) >= Epochs /\ Continued(run) /\ proc'.pc = "done" /\ Stopped'
  <2>1. Complete(disk) /\ disk["last"] \in Last
    BY <1>5 DEF Complete, Continued
  <2>2. disk["last"] # Absent
    BY <2>1, NothingIsComplete
  <2>3. ~Saved' /\ ~Afoot'
    BY <1>5 DEF Saved, Afoot
  <2> QED
    BY <1>2, <1>4, <1>5, <2>1, <2>2, <2>3 DEF RecordInv
<1>6. CASE Len(run.results) < Epochs /\ Begins(run, scheduler) /\ ~Stopped'
  <2>1. proc'.pc = "begin" /\ proc'.results = run.results /\ proc'.best_epoch = 0
    BY <1>6 DEF Begins
  <2>2. proc'.best_epoch = BestEpoch(proc'.results) \/ "resumed" \in struck'
    BY <1>1, <2>1, NothingIsBest DEF StartMishaps
  <2>3. Clean' => ~Complete(disk)
    <3>1. CASE Continued(run)
      BY <1>6, <3>1, TrainingAssumption, LastIs DEF Continued, Complete
    <3>2. CASE Anew(run, scheduler)
      <4>1. Clean' => disk["last"] = Absent
        BY <1>1, <3>2 DEF Clean, StartMishaps, Anew
      <4> QED
        BY <4>1, NothingIsComplete
    <3> QED
      BY <1>1, <3>1, <3>2
  <2>4. ~Saved'
    BY <2>1 DEF Saved
  <2> QED
    BY <1>2, <1>4, <1>6, <2>1, <2>2, <2>3, <2>4 DEF RecordInv
<1> QED
  BY <1>1, <1>5, <1>6

(* The steps before the checkpoint is written.                             *)
LEMMA RecordAfoot ==
  ASSUME RecordInv, Afoot, Afoot', struck' = struck, old' = old, disk'["last"] = disk["last"],
         \/ proc'.best_epoch = BestEpoch(proc'.results)
         \/ proc'.best_epoch = 0 /\ "resumed" \in struck
  PROVE  RecordInv'
<1>1. ~Saved' /\ ~Stopped' /\ proc'.pc \notin {"done", "deliver"}
  BY DEF Afoot, Saved, Stopped
<1>2. Clean' => Clean
  BY DEF Clean
<1>3. Clean' => (Complete(old) => Recorded(old, "resumed" \in struck)) /\ ~Complete(disk)
  BY <1>2 DEF RecordInv
<1>4. Complete(disk') => Complete(disk)
  BY DEF Complete
<1> QED
  BY <1>1, <1>3, <1>4 DEF RecordInv

LEMMA RecordEpoch ==
  ASSUME TypeInv, ExactInv, RecordInv, Epoch
  PROVE  RecordInv'
<1>1. PICK top1 \in Scores :
        /\ proc'.pc = IF top1 > proc.best_top1 THEN "best" ELSE "checkpoint"
        /\ proc'.results = Append(proc.results, top1)
        /\ proc'.best_epoch =
             IF top1 > proc.best_top1 THEN Len(proc.results) + 1 ELSE proc.best_epoch
  BY EpochIsTyped
<1>2. disk' = disk /\ old' = old /\ struck' = struck /\ ~Stopped /\ proc.pc = "epoch"
  BY EpochIsTyped
<1>3. proc.results \in Seq(Scores) /\ proc.best_top1 = Best(proc.results)
  BY <1>2, ProcIs DEF TypeInv, ExactInv, Exact
<1>4. BestEpoch(proc'.results) =
        IF top1 > proc.best_top1 THEN Len(proc.results) + 1 ELSE BestEpoch(proc.results)
  BY <1>1, <1>3, AnotherEpoch
<1>5. \/ proc.best_epoch = BestEpoch(proc.results)
      \/ proc.best_epoch = 0 /\ "resumed" \in struck
  BY <1>2 DEF RecordInv
<1>6. \/ proc'.best_epoch = BestEpoch(proc'.results)
      \/ proc'.best_epoch = 0 /\ "resumed" \in struck
  BY <1>1, <1>4, <1>5
<1>7. Afoot /\ Afoot'
  BY <1>1, <1>2 DEF Afoot
<1> QED
  BY <1>2, <1>6, <1>7, RecordAfoot

LEMMA RecordSaved ==
  ASSUME TypeInv, RecordInv, SaveCheckpoint
  PROVE  RecordInv'
<1>1. /\ ~Stopped /\ ~Stopped' /\ proc.pc = "checkpoint" /\ proc'.pc = "mirror" /\ SameRun
      /\ disk'["last"] = LastOf(proc) /\ LastOf(proc) \in Last
      /\ old' = old /\ struck' = struck
  BY SaveCheckpointIs
<1>2. disk'["last"] \in Last /\ disk'["last"].results = proc'.results
  BY <1>1 DEF LastOf, SameRun
<1>3. \/ proc'.best_epoch = BestEpoch(proc'.results)
      \/ proc'.best_epoch = 0 /\ "resumed" \in struck
  BY <1>1 DEF RecordInv, SameRun
<1>4. Clean' => (Complete(old) => Recorded(old, "resumed" \in struck))
  BY <1>1 DEF RecordInv, Clean
<1> QED
  BY <1>1, <1>2, <1>3, <1>4 DEF RecordInv, Afoot

LEMMA RecordMirror ==
  ASSUME TypeInv, RecordInv, MirrorEpoch
  PROVE  RecordInv'
<1>1. /\ ~Stopped /\ ~Stopped' /\ proc.pc = "mirror" /\ SameRun
      /\ \/ proc'.pc = "finish"
         \/ proc'.pc = "epoch" /\ Len(proc.results) < Epochs
      /\ disk' = disk /\ old' = old /\ (Clean' => Clean)
      /\ "resumed" \in struck' <=> "resumed" \in struck
  BY MirrorEpochIs DEF Clean
<1>2. disk["last"] \in Last /\ disk["last"].results = proc.results
  BY <1>1 DEF RecordInv, Saved
<1>3. proc'.results = proc.results /\ proc'.best_epoch = proc.best_epoch
  BY <1>1 DEF SameRun
<1>4. \/ proc'.best_epoch = BestEpoch(proc'.results)
      \/ proc'.best_epoch = 0 /\ "resumed" \in struck'
  BY <1>1, <1>3 DEF RecordInv
<1>5. Clean' => (Complete(old) => Recorded(old, "resumed" \in struck'))
  BY <1>1 DEF RecordInv, Recorded
<1>6. Afoot' => ~Complete(disk)
  <2>1. Len(proc.results) < Epochs => ~(Len(proc.results) >= Epochs)
    BY <1>1, ProcIs, TrainingAssumption DEF TypeInv
  <2> QED
    BY <1>1, <1>2, <2>1 DEF Afoot, Complete
<1> QED
  BY <1>1, <1>2, <1>3, <1>4, <1>5, <1>6 DEF RecordInv

LEMMA RecordFinish ==
  ASSUME TypeInv, ExactInv, RecordInv, Finish
  PROVE  RecordInv'
<1>1. /\ ~Stopped /\ ~Stopped' /\ proc.pc = "finish" /\ proc'.pc = "deliver" /\ SameRun
      /\ disk'["history"] = HistoryOf(proc) /\ HistoryOf(proc) \in History
      /\ disk'["last"] = disk["last"] /\ old' = old /\ struck' = struck
  BY FinishIs
<1>2. disk["last"] \in Last /\ disk["last"].results = proc.results
  BY <1>1 DEF RecordInv, Saved
<1>3. \/ proc.best_epoch = BestEpoch(proc.results)
      \/ proc.best_epoch = 0 /\ "resumed" \in struck
  BY <1>1 DEF RecordInv
<1>4. proc'.results = proc.results /\ proc'.best_epoch = proc.best_epoch
  BY <1>1 DEF SameRun
<1>5. proc.best_top1 = Best(proc.results)
  BY <1>1 DEF ExactInv, Exact
<1>6. Recorded(disk', "resumed" \in struck)
  <2>1. /\ HistoryOf(proc).results = proc.results /\ HistoryOf(proc).best_top1 = proc.best_top1
        /\ HistoryOf(proc).best_epoch = proc.best_epoch
    BY DEF HistoryOf
  <2> QED
    BY <1>1, <1>2, <1>3, <1>5, <2>1 DEF Recorded
<1>7. Clean' => (Complete(old) => Recorded(old, "resumed" \in struck))
  BY <1>1 DEF RecordInv, Clean
<1> QED
  BY <1>1, <1>2, <1>3, <1>4, <1>6, <1>7 DEF RecordInv, Afoot

LEMMA RecordDelivered ==
  ASSUME TypeInv, RecordInv, Deliver
  PROVE  RecordInv'
<1>1. /\ ~Stopped /\ Stopped' /\ proc.pc = "deliver" /\ proc'.pc = "done"
      /\ disk' = disk /\ old' = old /\ (Clean' => Clean)
      /\ "resumed" \in struck' <=> "resumed" \in struck
  BY DeliverIs DEF Clean
<1>2. disk["last"] # Absent
  BY <1>1, KindsDiffer, PlacesOK DEF TypeInv, RecordInv, Saved
<1>3. Clean' => (Complete(old) => Recorded(old, "resumed" \in struck'))
                /\ Recorded(disk, "resumed" \in struck')
  BY <1>1 DEF RecordInv, Recorded
<1>4. ~Saved' /\ ~Afoot'
  BY <1>1 DEF Saved, Afoot
<1> QED
  BY <1>1, <1>2, <1>3, <1>4 DEF RecordInv

(* Steps that leave no run behind.                                         *)
LEMMA RecordStopped ==
  ASSUME RecordInv, Stopped', proc'.pc = "done" => disk'["last"] # Absent,
         Clean' => /\ Complete(old') => Recorded(old', "resumed" \in struck')
                   /\ Complete(disk') \/ proc'.pc = "done" => Recorded(disk', "resumed" \in struck')
  PROVE  RecordInv'
<1>1. ~Saved' /\ ~Afoot' /\ proc'.pc # "deliver"
  BY DEF Saved, Afoot, Stopped
<1> QED
  BY <1>1 DEF RecordInv

LEMMA RecordKilled ==
  ASSUME TypeInv, RecordInv, Kill
  PROVE  RecordInv'
<1>1. /\ ~Stopped /\ Stopped' /\ proc'.pc = "off" /\ disk'["last"] = disk["last"]
      /\ proc.pc \notin {"begin", "finish"} => disk'["history"] = disk["history"]
      /\ old' = old /\ struck' = struck \cup KillMishaps
      /\ (Clean' => Clean) /\ ("resumed" \in struck' <=> "resumed" \in struck)
  BY KillIs DEF Idle, Clean, KillMishaps
<1>2. proc.pc \in Steps
  BY <1>1, ProcIs DEF TypeInv
<1>3. Clean' => (Complete(old) => Recorded(old, "resumed" \in struck'))
  BY <1>1 DEF RecordInv, Recorded
<1>4. ASSUME Clean', Complete(disk') PROVE Recorded(disk', "resumed" \in struck')
  <2>1. Complete(disk)
    BY <1>1, <1>4 DEF Complete
  <2>2. ~Afoot
    BY <1>1, <1>4, <2>1 DEF RecordInv
  <2>3. proc.pc \notin {"mirror", "finish"}
    <3>1. SUFFICES ASSUME proc.pc \in {"mirror", "finish"} PROVE FALSE
      OBVIOUS
    <3>2. Len(proc.results) >= Epochs
      BY <2>1, <3>1 DEF RecordInv, Saved, Complete
    <3>3. "unfinished" \in struck'
      BY <1>1, <3>1, <3>2 DEF KillMishaps
    <3> QED
      BY <1>4, <3>3 DEF Clean
  <2>4. proc.pc = "deliver"
    BY <1>2, <2>2, <2>3 DEF Steps, Afoot
  <2>5. Recorded(disk, "resumed" \in struck)
    BY <1>1, <1>4, <2>4 DEF RecordInv
  <2> QED
    BY <1>1, <2>4, <2>5 DEF Recorded
<1> QED
  BY <1>1, <1>3, <1>4, RecordStopped

LEMMA RecordAdopted ==
  ASSUME TypeInv, RecordInv, Adopt
  PROVE  RecordInv'
<1>0. "last" \in Names /\ "history" \in Names
  BY DEF Names
<1>1. /\ Stopped /\ Stopped' /\ old' = old /\ disk["last"] = Absent /\ proc' = proc
      /\ (Clean' => Clean) /\ ("resumed" \in struck' <=> "resumed" \in struck)
      /\ old["last"] # Absent
      /\ Clean' => /\ disk'["last"] = old["last"]
                   /\ old["history"] # Absent => disk'["history"] = old["history"]
  BY <1>0, AdoptIs DEF Clean
<1>2. proc'.pc # "done"
  BY <1>1 DEF RecordInv
<1>3. Clean' => (Complete(old) => Recorded(old, "resumed" \in struck'))
  BY <1>1 DEF RecordInv, Recorded
<1>4. ASSUME Clean', Complete(disk') PROVE Recorded(disk', "resumed" \in struck')
  <2>1. disk'["last"] = old["last"] /\ (old["history"] # Absent => disk'["history"] = old["history"])
    BY <1>1, <1>4
  <2>2. Complete(old)
    BY <1>4, <2>1 DEF Complete
  <2>3. Recorded(old, "resumed" \in struck')
    BY <1>3, <1>4, <2>2
  <2>4. old["history"] # Absent
    <3>1. \A file \in History : file.kind = "history"
      BY DEF History
    <3> QED
      BY <2>3, <3>1 DEF Recorded, Absent
  <2> QED
    BY <2>1, <2>3, <2>4 DEF Recorded
<1> QED
  BY <1>1, <1>2, <1>3, <1>4, RecordStopped

LEMMA RecordKept ==
  ASSUME TypeInv, ExactInv, RecordInv, [Next]_vars
  PROVE  RecordInv'
<1>0. "last" \in Names
  BY DEF Names
<1>1. CASE UNCHANGED vars
  BY <1>1 DEF vars, RecordInv, Stopped, Saved, Afoot, Clean
<1>2. CASE \E scheduler \in Schedulers, resume \in BOOLEAN : Start(scheduler, resume)
  BY <1>2, RecordStart
<1>3. CASE Begin \/ SaveBest
  <2>1. /\ ~Stopped /\ SameRun /\ struck' = struck /\ old' = old /\ disk'["last"] = disk["last"]
        /\ Afoot /\ Afoot'
    BY <1>3, BeginIs, SaveBestIs DEF Afoot
  <2>2. \/ proc'.best_epoch = BestEpoch(proc'.results)
        \/ proc'.best_epoch = 0 /\ "resumed" \in struck
    BY <2>1 DEF RecordInv, SameRun
  <2> QED
    BY <2>1, <2>2, RecordAfoot
<1>4. CASE Epoch
  BY <1>4, RecordEpoch
<1>5. CASE SaveCheckpoint
  BY <1>5, RecordSaved
<1>6. CASE MirrorEpoch
  BY <1>6, RecordMirror
<1>7. CASE Finish
  BY <1>7, RecordFinish
<1>8. CASE Deliver
  BY <1>8, RecordDelivered
<1>9. CASE Kill
  BY <1>9, RecordKilled
<1>10. CASE MachineLost
  <2>1. /\ disk' = Empty /\ old' \in {old, Empty} /\ Empty["last"] = Absent
        /\ Stopped' /\ proc'.pc = "off"
        /\ (Clean' => Clean) /\ ("resumed" \in struck' <=> "resumed" \in struck)
    BY <1>0, <1>10, MachineLostIs DEF Empty, Idle, Clean
  <2>2. ~Complete(Empty)
    BY <2>1, NothingIsComplete
  <2>3. Clean' => (Complete(old') => Recorded(old', "resumed" \in struck'))
    BY <2>1, <2>2 DEF RecordInv, Recorded
  <2> QED
    BY <2>1, <2>2, <2>3, RecordStopped
<1>11. CASE Reclone
  <2>1. /\ disk' = Empty /\ Empty["last"] = Absent /\ Stopped /\ Stopped' /\ proc'.pc = "off"
        /\ old' \in {disk, old} /\ struck' = struck
    BY <1>0, <1>11, RecloneIs DEF Empty, Idle
  <2>2. ~Complete(Empty)
    BY <2>1, NothingIsComplete
  <2>3. Clean' => (Complete(old') => Recorded(old', "resumed" \in struck'))
    BY <2>1 DEF RecordInv, Clean
  <2> QED
    BY <2>1, <2>2, <2>3, RecordStopped
<1>12. CASE Adopt
  BY <1>12, RecordAdopted
<1>13. CASE CopyBack
  <2>1. /\ Stopped /\ Stopped' /\ proc' = proc /\ disk["last"] = Absent
        /\ struck' = struck \cup {"copied"}
    BY <1>13, CopyBackIs
  <2>2. proc'.pc # "done" /\ ~Clean'
    BY <2>1 DEF RecordInv, Clean
  <2> QED
    BY <2>1, <2>2, RecordStopped
<1> QED
  BY <1>1, <1>2, <1>3, <1>4, <1>5, <1>6, <1>7, <1>8, <1>9, <1>10, <1>11, <1>12, <1>13 DEF Next

(* A run that returned has its whole history on disk, unless it was killed  *)
(* after its last checkpoint, its files were put together, or a run began   *)
(* anew over them.                                                          *)
THEOREM TheHistoryIsWhole == Spec => []FinishedIsRecorded
<1>1. Init => RecordInv
  <2>1. SUFFICES ASSUME Init PROVE RecordInv
    OBVIOUS
  <2>2. disk["last"] = Absent /\ old["last"] = Absent /\ proc.pc = "off" /\ Stopped
    BY <2>1 DEF Init, Empty, Names, Idle, Stopped
  <2>3. ~Complete(disk) /\ ~Complete(old)
    BY <2>2, NothingIsComplete
  <2> QED
    BY <2>2, <2>3 DEF RecordInv, Saved, Afoot
<1>2. TypeInv /\ ExactInv /\ RecordInv /\ [Next]_vars => RecordInv'
  BY RecordKept
<1>3. RecordInv => FinishedIsRecorded
  BY DEF FinishedIsRecorded, RecordInv, Recorded, Clean
<1> QED
  BY <1>1, <1>2, <1>3, ExactHolds, PTL DEF Spec

-----------------------------------------------------------------------------
(* The mirror.  Inductive once it is said of the older clone, too, and     *)
(* that a run goes on from the checkpoint on its disk.                     *)

(* saved are the first epochs of results; of the first n they lack no more  *)
(* than have passed since a multiple of the interval.                      *)
Behind(saved, results, n) ==
  /\ n \in Nat /\ Len(saved) <= n /\ n <= Len(results)
  /\ saved = SubSeq(results, 1, Len(saved))
  /\ n - Len(saved) <= (n % MirrorEvery)

SavedOf == IF mirror["last"] = Absent THEN <<>> ELSE mirror["last"].results

(* These are the epochs behind the checkpoint on disk.                     *)
Done(results) ==
  IF disk["last"] = Absent THEN mirror["last"] = Absent /\ results = <<>>
  ELSE disk["last"] \in Last /\ disk["last"].results = results

Followed == struck \cap {"unmirrored", "fresh", "outdated"} = {}

MirrorInv ==
  /\ mirror["last"] # Torn
  /\ Followed =>
       /\ disk["last"] \in Last =>
            Behind(SavedOf, disk["last"].results,
                   Len(disk["last"].results) - (IF proc.pc = "mirror" THEN 1 ELSE 0))
       /\ disk["last"] = Absent /\ old["last"] \in Last =>
            Behind(SavedOf, old["last"].results, Len(old["last"].results))
       /\ proc.pc \in {"begin", "epoch"} => Done(proc.results)
       /\ proc.pc \in {"best", "checkpoint"} =>
            \E results \in Seq(Scores), top1 \in Scores :
              proc.results = Append(results, top1) /\ Done(results)

LEMMA NothingBehind ==
  ASSUME NEW r \in Seq(Scores)
  PROVE  Behind(r, r, Len(r))
<1>1. Len(r) \in Nat /\ SubSeq(r, 1, Len(r)) = r
  OBVIOUS
<1>2. (Len(r) % MirrorEvery) \in Nat
  BY <1>1, Remainder, TrainingAssumption
<1> QED
  BY <1>1, <1>2 DEF Behind

LEMMA EpochBehind ==
  ASSUME NEW r \in Seq(Scores), NEW saved \in Seq(Scores), NEW top1 \in Scores,
         Behind(saved, r, Len(r))
  PROVE  Behind(saved, Append(r, top1), Len(r))
<1>1. /\ Len(r) \in Nat /\ Len(saved) \in Nat /\ Len(saved) <= Len(r)
      /\ saved = SubSeq(r, 1, Len(saved))
  BY DEF Behind
<1>2. Len(Append(r, top1)) = Len(r) + 1
  OBVIOUS
<1>3. SubSeq(Append(r, top1), 1, Len(saved)) = SubSeq(r, 1, Len(saved))
  BY <1>1
<1> QED
  BY <1>1, <1>2, <1>3 DEF Behind

LEMMA OneMoreBehind ==
  ASSUME NEW r \in Seq(Scores), NEW saved \in Seq(Scores),
         Behind(saved, r, Len(r) - 1), (Len(r) % MirrorEvery) # 0
  PROVE  Behind(saved, r, Len(r))
<1> DEFINE n == Len(r) - 1
<1>1. n \in Nat /\ Len(saved) \in Nat /\ Len(r) = n + 1
  BY DEF Behind
<1>2. ((n + 1) % MirrorEvery) = (n % MirrorEvery) + 1
  BY <1>1, NextRemainder, TrainingAssumption
<1>3. (n % MirrorEvery) \in Nat
  BY <1>1, Remainder, TrainingAssumption
<1>4. Len(saved) <= n /\ saved = SubSeq(r, 1, Len(saved)) /\ n - Len(saved) <= (n % MirrorEvery)
  BY DEF Behind
<1> HIDE DEF n
<1>5. (n + 1) - Len(saved) <= ((n + 1) % MirrorEvery)
  BY <1>1, <1>2, <1>3, <1>4
<1> QED
  BY <1>1, <1>4, <1>5 DEF Behind

LEMMA SavedIs ==
  ASSUME TypeInv, mirror["last"] # Torn
  PROVE  SavedOf \in Seq(Scores)
<1>1. mirror["last"] = Absent \/ mirror["last"] \in Last
  BY PlacesOK, KindsDiffer DEF TypeInv
<1> QED
  BY <1>1, LastIs DEF SavedOf

(* Nothing but the history, the best weights and the step of the run       *)
(* change, and the run is not at a mirror.                                 *)
LEMMA MirrorMoved ==
  ASSUME MirrorInv, struck \subseteq struck', mirror'["last"] = mirror["last"],
         old'["last"] = old["last"], disk'["last"] = disk["last"],
         Followed' => proc.pc # "mirror", proc'.pc # "mirror",
         Followed' /\ proc'.pc \in {"begin", "epoch"} => Done(proc'.results),
         Followed' /\ proc'.pc \in {"best", "checkpoint"} =>
           \E results \in Seq(Scores), top1 \in Scores :
             proc'.results = Append(results, top1) /\ Done(results)
  PROVE  MirrorInv'
<1>1. SavedOf' = SavedOf /\ \A results : Done(results) => Done(results)'
  BY DEF SavedOf, Done
<1>2. Followed' => Followed
  BY DEF Followed
<1>3. Followed' =>
       /\ disk["last"] \in Last => Behind(SavedOf, disk["last"].results, Len(disk["last"].results) - 0)
       /\ disk["last"] = Absent /\ old["last"] \in Last =>
            Behind(SavedOf, old["last"].results, Len(old["last"].results))
  BY <1>2 DEF MirrorInv
<1> QED
  BY <1>1, <1>3 DEF MirrorInv

LEMMA MirrorStart ==
  ASSUME TypeInv, MirrorInv, NEW scheduler \in Schedulers, NEW resume \in BOOLEAN,
         Start(scheduler, resume)
  PROVE  MirrorInv'
<1>1. PICK run :
        /\ Anew(run, scheduler) \/ Continued(run)
        /\ struck' = struck \cup StartMishaps(run, scheduler)
        /\ \/ proc'.pc = "done"
           \/ Begins(run, scheduler)
  BY StartIs
<1>2. disk' = disk /\ old' = old /\ mirror' = mirror /\ Stopped
  BY StartIs
<1>3. proc.pc # "mirror" /\ proc'.pc \in {"done", "begin"}
  BY <1>1, <1>2 DEF Stopped, Begins
<1>4. ASSUME Followed', proc'.pc = "begin" PROVE Done(proc'.results)
  <2>1. proc'.results = run.results
    BY <1>1, <1>4 DEF Begins
  <2>2. CASE Continued(run)
    <3>1. disk["last"] # Absent
      BY <2>2 DEF Continued, Last, Absent
    <3> QED
      BY <2>1, <2>2, <3>1 DEF Continued, Done
  <2>3. CASE Anew(run, scheduler)
    <3>1. run.results = <<>> /\ "fresh" \notin struck'
      BY <1>4, <2>3 DEF Anew, Followed
    <3>2. {disk["last"], mirror["last"]} = {Absent}
      BY <1>1, <3>1 DEF StartMishaps
    <3> QED
      BY <2>1, <3>1, <3>2 DEF Done
  <2> QED
    BY <1>1, <2>2, <2>3
<1>5. struck \subseteq struck'
  BY <1>1
<1> QED
  BY <1>2, <1>3, <1>4, <1>5, MirrorMoved

LEMMA MirrorOfEpoch ==
  ASSUME TypeInv, MirrorInv, Epoch
  PROVE  MirrorInv'
<1>1. PICK top1 \in Scores :
        /\ proc'.pc = IF top1 > proc.best_top1 THEN "best" ELSE "checkpoint"
        /\ proc'.results = Append(proc.results, top1)
  BY EpochIsTyped
<1>2. /\ disk' = disk /\ old' = old /\ mirror' = mirror /\ struck' = struck
      /\ ~Stopped /\ proc.pc = "epoch"
  BY EpochIsTyped
<1>3. proc.results \in Seq(Scores) /\ (Followed' => Done(proc.results))
  BY <1>2, ProcIs DEF TypeInv, MirrorInv, Followed
<1>4. proc'.pc \in {"best", "checkpoint"}
  BY <1>1
<1>5. Followed' => \E results \in Seq(Scores), x \in Scores :
                    proc'.results = Append(results, x) /\ Done(results)
  BY <1>1, <1>3
<1> QED
  BY <1>2, <1>4, <1>5, MirrorMoved

LEMMA MirrorSaved ==
  ASSUME TypeInv, MirrorInv, SaveCheckpoint
  PROVE  MirrorInv'
<1>1. /\ ~Stopped /\ proc.pc = "checkpoint" /\ proc'.pc = "mirror"
      /\ disk'["last"] = LastOf(proc) /\ LastOf(proc) \in Last
      /\ old' = old /\ mirror' = mirror /\ struck' = struck
  BY SaveCheckpointIs
<1>2. disk'["last"].results = proc.results /\ disk'["last"] # Absent
  BY <1>1, KindsDiffer DEF LastOf, Absent
<1>3. SavedOf \in Seq(Scores) /\ SavedOf' = SavedOf
  BY <1>1, SavedIs DEF MirrorInv, SavedOf
<1>4. ASSUME Followed PROVE Behind(SavedOf, proc.results, Len(proc.results) - 1)
  <2>1. PICK results \in Seq(Scores), top1 \in Scores :
          proc.results = Append(results, top1) /\ Done(results)
    BY <1>1, <1>4 DEF MirrorInv
  <2>2. Behind(SavedOf, results, Len(results))
    <3>1. CASE disk["last"] = Absent
      <4>1. SavedOf = <<>> /\ results = <<>>
        BY <2>1, <3>1 DEF Done, SavedOf
      <4> QED
        BY <4>1, <2>1, NothingBehind
    <3>2. CASE disk["last"] # Absent
      <4>1. disk["last"] \in Last /\ disk["last"].results = results
        BY <2>1, <3>2 DEF Done
      <4>2. Behind(SavedOf, disk["last"].results, Len(disk["last"].results) - 0)
        BY <1>1, <1>4, <4>1 DEF MirrorInv
      <4> QED
        BY <4>1, <4>2
    <3> QED
      BY <3>1, <3>2
  <2>3. Behind(SavedOf, proc.results, Len(results))
    BY <1>3, <2>1, <2>2, EpochBehind
  <2>4. Len(proc.results) - 1 = Len(results)
    BY <2>1
  <2> QED
    BY <2>3, <2>4
<1>5. Followed' => Followed
  BY <1>1 DEF Followed
<1> QED
  BY <1>1, <1>2, <1>3, <1>4, <1>5 DEF MirrorInv

LEMMA MirrorMirrored ==
  ASSUME TypeInv, RecordInv, MirrorInv, MirrorEpoch
  PROVE  MirrorInv'
<1>0. "last" \in Names
  BY DEF Names
<1>1. /\ ~Stopped /\ proc.pc = "mirror" /\ proc'.results = proc.results
      /\ proc'.pc \in {"finish", "epoch"}
      /\ disk' = disk /\ old' = old /\ (Followed' => Followed)
      /\ mirror'["last"] \in {mirror["last"], disk["last"]}
      /\ Followed' => mirror'["last"] = IF "last" \in Due /\ disk["last"] # Absent
                                       THEN disk["last"] ELSE mirror["last"]
  BY <1>0, MirrorEpochIs DEF Followed, SameRun
<1> DEFINE r == proc.results
<1>2. disk["last"] \in Last /\ disk["last"].results = r
  BY <1>1 DEF RecordInv, Saved
<1>3. disk["last"] # Absent /\ disk["last"] # Torn
  BY <1>2 DEF Last, Absent, Torn
<1>4. r \in Seq(Scores) /\ SavedOf \in Seq(Scores)
  BY <1>1, ProcIs, SavedIs DEF TypeInv, MirrorInv
<1>5. mirror'["last"] # Torn
  BY <1>1, <1>3 DEF MirrorInv
<1>6. ASSUME Followed' PROVE Behind(SavedOf', r, Len(r))
  <2>1. CASE "last" \in Due
    <3>1. SavedOf' = r
      BY <1>1, <1>2, <1>3, <1>6, <2>1 DEF SavedOf
    <3> QED
      BY <1>4, <3>1, NothingBehind
  <2>2. CASE "last" \notin Due
    <3>1. SavedOf' = SavedOf
      BY <1>1, <1>6, <2>2 DEF SavedOf
    <3>2. (Len(r) % MirrorEvery) # 0
      BY <2>2 DEF Due
    <3>3. Behind(SavedOf, r, Len(r) - 1)
      BY <1>1, <1>2, <1>6 DEF MirrorInv
    <3> QED
      BY <1>4, <3>1, <3>2, <3>3, OneMoreBehind
  <2> QED
    BY <2>1, <2>2
<1>7. disk'["last"] # Absent /\ disk'["last"] \in Last /\ disk'["last"].results = proc'.results
  BY <1>1, <1>2, <1>3
<1>8. Len(r) - 0 = Len(r)
  BY <1>4
<1>9. Followed' => /\ Behind(SavedOf', disk'["last"].results, Len(disk'["last"].results) - 0)
                   /\ proc'.pc = "epoch" => Done(proc.results)'
  BY <1>1, <1>2, <1>6, <1>7, <1>8 DEF Done
<1> HIDE DEF r
<1> QED
  BY <1>1, <1>5, <1>7, <1>9 DEF MirrorInv

LEMMA MirrorDelivered ==
  ASSUME TypeInv, RecordInv, MirrorInv, Deliver
  PROVE  MirrorInv'
<1>0. "last" \in Names
  BY DEF Names
<1>1. /\ ~Stopped /\ proc.pc = "deliver" /\ proc'.pc = "done" /\ disk' = disk /\ old' = old
      /\ mirror'["last"] \in {mirror["last"], disk["last"]}
      /\ Followed' => mirror'["last"] = IF disk["last"] # Absent THEN disk["last"] ELSE mirror["last"]
  BY <1>0, DeliverIs DEF Followed
<1>2. disk["last"] \in Last
  BY <1>1 DEF RecordInv, Saved
<1>3. disk["last"] # Absent /\ disk["last"] # Torn /\ disk["last"].results \in Seq(Scores)
  BY <1>2, LastIs DEF Last, Absent, Torn
<1> DEFINE r == disk["last"].results
<1>4. Followed' => SavedOf' = r
  BY <1>1, <1>3 DEF SavedOf
<1>5. Behind(r, r, Len(r)) /\ Len(r) - 0 = Len(r)
  BY <1>3, NothingBehind
<1>6. mirror'["last"] # Torn
  BY <1>1, <1>3 DEF MirrorInv
<1> QED
  BY <1>1, <1>3, <1>4, <1>5, <1>6 DEF MirrorInv

LEMMA MirrorKilled ==
  ASSUME TypeInv, MirrorInv, Kill
  PROVE  MirrorInv'
<1>1. /\ proc'.pc = "off" /\ disk'["last"] = disk["last"]
      /\ old' = old /\ mirror' = mirror /\ struck' = struck \cup KillMishaps
  BY KillIs DEF Idle
<1>2. Followed' => proc.pc # "mirror"
  BY <1>1 DEF Followed, KillMishaps
<1>3. struck \subseteq struck'
  BY <1>1
<1> QED
  BY <1>1, <1>2, <1>3, MirrorMoved

LEMMA MirrorReclone ==
  ASSUME TypeInv, MirrorInv, Reclone
  PROVE  MirrorInv'
<1>0. "last" \in Names
  BY DEF Names
<1>1. /\ Stopped /\ proc'.pc = "off" /\ disk'["last"] = Absent /\ mirror' = mirror
      /\ struck' = struck /\ old'["last"] = IF disk["last"] # Absent THEN disk["last"] ELSE old["last"]
  BY <1>0, RecloneIs DEF Empty, Idle
<1>2. Absent \notin Last
  BY DEF Last, Absent
<1>3. /\ SavedOf' = SavedOf /\ (Followed' => Followed)
      /\ proc.pc # "mirror" /\ proc.pc \notin {"begin", "epoch", "best", "checkpoint"}
  BY <1>1 DEF SavedOf, Followed, Stopped
<1>4. Followed =>
       /\ disk["last"] \in Last => Behind(SavedOf, disk["last"].results, Len(disk["last"].results) - 0)
       /\ disk["last"] = Absent /\ old["last"] \in Last =>
            Behind(SavedOf, old["last"].results, Len(old["last"].results))
  BY <1>3 DEF MirrorInv
<1>5. \A file \in Last : Len(file.results) - 0 = Len(file.results)
  BY LastIs
<1>6. Followed' /\ old'["last"] \in Last => Behind(SavedOf', old'["last"].results, Len(old'["last"].results))
  BY <1>1, <1>3, <1>4, <1>5
<1> QED
  BY <1>1, <1>2, <1>6 DEF MirrorInv

LEMMA MirrorAdopted ==
  ASSUME TypeInv, MirrorInv, Adopt
  PROVE  MirrorInv'
<1>0. "last" \in Names
  BY DEF Names
<1>1. /\ Stopped /\ Stopped' /\ old' = old /\ mirror' = mirror
      /\ disk["last"] = Absent /\ old["last"] # Absent
      /\ disk'["last"] \in {old["last"], Torn}
      /\ Followed' => Followed
  BY <1>0, AdoptIs DEF Followed
<1>2. Torn \notin Last /\ Torn # Absent
  BY DEF Last, Torn, Absent
<1>3. SavedOf' = SavedOf /\ proc'.pc \notin {"mirror", "begin", "epoch", "best", "checkpoint"}
  BY <1>1 DEF SavedOf, Stopped
<1>4. Followed => (old["last"] \in Last => Behind(SavedOf, old["last"].results, Len(old["last"].results)))
  BY <1>1 DEF MirrorInv
<1>5. \A file \in Last : Len(file.results) - 0 = Len(file.results)
  BY LastIs
<1>6. Followed' /\ disk'["last"] \in Last =>
        Behind(SavedOf', disk'["last"].results, Len(disk'["last"].results) - 0)
  BY <1>1, <1>2, <1>3, <1>4, <1>5
<1> QED
  BY <1>1, <1>2, <1>3, <1>6 DEF MirrorInv

LEMMA MirrorCopied ==
  ASSUME TypeInv, MirrorInv, CopyBack
  PROVE  MirrorInv'
<1>1. /\ Stopped /\ Stopped' /\ old' = old /\ mirror' = mirror /\ disk' = mirror
      /\ mirror["last"] # Absent
  BY CopyBackIs
<1>2. SavedOf' = mirror["last"].results
  BY <1>1 DEF SavedOf
<1>3. proc'.pc \notin {"mirror", "begin", "epoch", "best", "checkpoint"}
  BY <1>1 DEF Stopped
<1>4. mirror["last"] \in Last => mirror["last"].results \in Seq(Scores)
  BY LastIs
<1>5. disk'["last"] \in Last =>
        Behind(SavedOf', disk'["last"].results, Len(disk'["last"].results) - 0)
  BY <1>1, <1>2, <1>4, NothingBehind
<1> QED
  BY <1>1, <1>3, <1>5 DEF MirrorInv

LEMMA MirrorKept ==
  ASSUME TypeInv, RecordInv, MirrorInv, [Next]_vars
  PROVE  MirrorInv'
<1>0. "last" \in Names
  BY DEF Names
<1>1. CASE UNCHANGED vars
  BY <1>1 DEF vars, MirrorInv, SavedOf, Done, Followed
<1>2. CASE \E scheduler \in Schedulers, resume \in BOOLEAN : Start(scheduler, resume)
  BY <1>2, MirrorStart
<1>3. CASE Begin
  <2>1. /\ proc.pc = "begin" /\ proc'.pc = "epoch" /\ proc'.results = proc.results
        /\ disk'["last"] = disk["last"] /\ old' = old /\ mirror' = mirror /\ struck' = struck
    BY <1>3, BeginIs DEF SameRun
  <2>2. Followed' => Done(proc'.results)
    BY <2>1 DEF MirrorInv, Followed
  <2> QED
    BY <2>1, <2>2, MirrorMoved
<1>4. CASE SaveBest
  <2>1. /\ proc.pc = "best" /\ proc'.pc = "checkpoint" /\ proc'.results = proc.results
        /\ disk'["last"] = disk["last"] /\ old' = old /\ mirror' = mirror /\ struck' = struck
    BY <1>4, SaveBestIs DEF SameRun
  <2>2. Followed' => \E results \in Seq(Scores), top1 \in Scores :
                      proc'.results = Append(results, top1) /\ Done(results)
    BY <2>1 DEF MirrorInv, Followed
  <2> QED
    BY <2>1, <2>2, MirrorMoved
<1>5. CASE Finish
  BY <1>5, FinishIs, MirrorMoved
<1>6. CASE Epoch
  BY <1>6, MirrorOfEpoch
<1>7. CASE SaveCheckpoint
  BY <1>7, MirrorSaved
<1>8. CASE MirrorEpoch
  BY <1>8, MirrorMirrored
<1>9. CASE Deliver
  BY <1>9, MirrorDelivered
<1>10. CASE Kill
  BY <1>10, MirrorKilled
<1>11. CASE MachineLost
  <2>1. /\ disk'["last"] = Absent /\ mirror' = mirror /\ proc'.pc = "off"
        /\ old'["last"] \in {old["last"], Absent}
        /\ Followed' => Followed /\ (old'["last"] = Absent \/ disk["last"] = Absent)
    BY <1>0, <1>11, MachineLostIs DEF Empty, Idle, Followed
  <2>2. Absent \notin Last /\ SavedOf' = SavedOf
    BY <2>1 DEF Last, Absent, SavedOf
  <2>3. ASSUME Followed', old'["last"] \in Last
        PROVE  Behind(SavedOf', old'["last"].results, Len(old'["last"].results))
    BY <2>1, <2>2, <2>3 DEF MirrorInv
  <2> QED
    BY <2>1, <2>2, <2>3 DEF MirrorInv
<1>12. CASE Reclone
  BY <1>12, MirrorReclone
<1>13. CASE Adopt
  BY <1>13, MirrorAdopted
<1>14. CASE CopyBack
  BY <1>14, MirrorCopied
<1> QED
  BY <1>1, <1>2, <1>3, <1>4, <1>5, <1>6, <1>7, <1>8, <1>9, <1>10, <1>11, <1>12, <1>13, <1>14
     DEF Next

(* A lost machine costs fewer than MirrorEvery epochs, unless a copy failed *)
(* or was prevented, a run began anew over the mirror, or an older clone    *)
(* outlived the newer one.                                                  *)
THEOREM TheMirrorFollows == Spec => []MirrorFollows
<1>1. Init => RecordInv /\ MirrorInv
  <2>1. SUFFICES ASSUME Init PROVE RecordInv /\ MirrorInv
    OBVIOUS
  <2>2. /\ disk["last"] = Absent /\ old["last"] = Absent /\ mirror["last"] = Absent
        /\ proc.pc = "off" /\ Stopped
    BY <2>1 DEF Init, Empty, Names, Idle, Stopped
  <2>3. ~Complete(disk) /\ ~Complete(old)
    BY <2>2, NothingIsComplete
  <2>4. Absent \notin Last /\ Absent # Torn
    BY DEF Last, Absent, Torn
  <2> QED
    BY <2>2, <2>3, <2>4 DEF RecordInv, MirrorInv, Saved, Afoot
<1>2. TypeInv /\ ExactInv /\ RecordInv /\ MirrorInv /\ [Next]_vars => RecordInv' /\ MirrorInv'
  BY RecordKept, MirrorKept
<1>3. TypeInv /\ MirrorInv => MirrorFollows
  <2> DEFINE r == disk["last"].results
             n == Len(r) - (IF proc.pc = "mirror" THEN 1 ELSE 0)
  <2>1. SUFFICES ASSUME TypeInv, MirrorInv, disk["last"] \notin {Absent, Torn}, Followed
                 PROVE  /\ Len(SavedOf) <= Len(r)
                        /\ SavedOf = SubSeq(r, 1, Len(SavedOf))
                        /\ Len(r) - Len(SavedOf) < MirrorEvery + (IF proc.pc = "mirror" THEN 1 ELSE 0)
    BY DEF MirrorFollows, SavedOf, Followed
  <2>2. disk["last"] \in Last
    BY <2>1, PlacesOK, KindsDiffer DEF TypeInv
  <2>3. Behind(SavedOf, r, n)
    BY <2>1, <2>2 DEF MirrorInv
  <2>4. Len(r) \in Nat /\ Len(SavedOf) \in Nat
    BY <2>1, <2>2, LastIs, SavedIs DEF MirrorInv
  <2>5. n \in Nat /\ (n % MirrorEvery) \in 0..MirrorEvery - 1 /\ MirrorEvery \in Nat
    BY <2>3, Remainder, TrainingAssumption DEF Behind
  <2>6. /\ Len(SavedOf) <= n /\ SavedOf = SubSeq(r, 1, Len(SavedOf))
        /\ n - Len(SavedOf) <= (n % MirrorEvery)
    BY <2>3 DEF Behind
  <2>7. n = Len(r) - (IF proc.pc = "mirror" THEN 1 ELSE 0)
    OBVIOUS
  <2> HIDE DEF r, n
  <2>8. CASE proc.pc = "mirror"
    <3>1. n = Len(r) - 1
      BY <2>7, <2>8
    <3>2. Len(r) - Len(SavedOf) < MirrorEvery + 1
      BY <2>4, <2>5, <2>6, <3>1
    <3> QED
      BY <2>4, <2>5, <2>6, <2>8, <3>1, <3>2
  <2>9. CASE proc.pc # "mirror"
    <3>1. n = Len(r)
      BY <2>4, <2>7, <2>9
    <3>2. Len(r) - Len(SavedOf) < MirrorEvery + 0
      BY <2>4, <2>5, <2>6, <3>1
    <3> QED
      BY <2>4, <2>5, <2>6, <2>9, <3>1, <3>2
  <2> QED
    BY <2>8, <2>9
<1> QED
  BY <1>1, <1>2, <1>3, ExactHolds, PTL DEF Spec
=============================================================================
