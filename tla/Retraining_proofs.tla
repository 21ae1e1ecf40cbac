------------------------- MODULE Retraining_proofs -------------------------
(* Proofs about the retraining pipeline.  Retraining: its types, that      *)
(* nothing is promoted that has not passed validation, that the end of the *)
(* history is kept and that a training run is due.  DriftReport: what the  *)
(* severity says that starts one.  Regression: what a clean check has seen.         *)
EXTENDS MCAssessment, NaturalsInduction, WellFoundedInduction, TLAPS

RunStates == [pc : Steps, result : Results, history : Seq(Results)]

(* What a run has behind it at each of its steps.                          *)
Sound(r) ==
  /\ r.pc \in {"train", "validate", "compare"} => ~ r.result.dry_run
  /\ r.pc = "compare" => r.result.validation = "passed"
  /\ r.result.stage = "promoted" =>
       r.result.validation = "passed" /\ ~ r.result.dry_run

Inv ==
  /\ TypeOK
  /\ \A p \in Runs : Sound(run[p])
  /\ PromotionIsValidated

-----------------------------------------------------------------------------
(* Typed record updates.                                                   *)

LEMMA GotoTyped ==
  ASSUME TypeOK, NEW p \in Runs, NEW pc \in Steps
  PROVE  /\ Goto(p, pc) \in RunStates
         /\ Goto(p, pc).pc = pc
         /\ Goto(p, pc).result = run[p].result
         /\ Goto(p, pc).history = run[p].history
BY DEF TypeOK, Goto, RunStates

LEMMA StageTyped ==
  ASSUME NEW r \in RunStates, NEW stage \in Stages
  PROVE  LET s == [r EXCEPT !.result.stage = stage]
         IN  /\ s \in RunStates
             /\ s.pc = r.pc /\ s.history = r.history
             /\ s.result.stage = stage
             /\ s.result.validation = r.result.validation
             /\ s.result.dry_run = r.result.dry_run
BY DEF RunStates, Results

LEMMA KnownStages == {"trained", "validated", "failed", "promoted"} \subseteq Stages
BY DEF Stages

LEMMA WorseTyped ==
  ASSUME NEW r \in RunStates, NEW worse \in BOOLEAN
  PROVE  LET s == [r EXCEPT !.result.worse = worse]
         IN  /\ s \in RunStates
             /\ s.pc = r.pc
             /\ s.result.stage = r.result.stage
             /\ s.result.validation = r.result.validation
             /\ s.result.dry_run = r.result.dry_run
BY DEF RunStates, Results

LEMMA VerdictTyped ==
  ASSUME NEW r \in RunStates, NEW verdict \in Verdicts
  PROVE  LET s == [r EXCEPT !.result.validation = verdict]
         IN  /\ s \in RunStates
             /\ s.pc = r.pc
             /\ s.result.stage = r.result.stage
             /\ s.result.validation = verdict
             /\ s.result.dry_run = r.result.dry_run
BY DEF RunStates, Results

LEMMA StopTyped ==
  ASSUME TypeOK, NEW p \in Runs, NEW stage \in Stages
  PROVE  /\ Stop(p, stage) \in RunStates
         /\ Stop(p, stage).pc = "finish"
         /\ Stop(p, stage).result.stage = stage
         /\ Stop(p, stage).result.validation = run[p].result.validation
         /\ Stop(p, stage).result.dry_run = run[p].result.dry_run
<1>1. "finish" \in Steps
  BY DEF Steps
<1> QED BY <1>1, GotoTyped, StageTyped DEF Stop

LEMMA NoRunTyped ==
  ASSUME RetrainingAssumption
  PROVE  NoRun \in RunStates /\ Sound(NoRun)
<1>1. 0 \in 0 .. MaxTime
  BY DEF RetrainingAssumption
<1>2. NoResult \in Results
  BY <1>1 DEF NoResult, Results, Stages, Drifts, Verdicts
<1>3. NoRun \in RunStates
  BY <1>2 DEF NoRun, RunStates, Steps
<1>4. Sound(NoRun)
  BY DEF Sound, NoRun, NoResult
<1> QED BY <1>3, <1>4

(* The cut leaves the end of the sequence it is given.                     *)
LEMMA EndOf ==
  ASSUME NEW S, NEW list \in Seq(S), NEW a \in Nat, a <= Len(list)
  PROVE  LET end == SubSeq(list, a + 1, Len(list)) IN
         /\ end \in Seq(S) /\ Len(end) = Len(list) - a
         /\ \A j \in 1 .. Len(list) - a : end[j] = list[a + j]
OBVIOUS

LEMMA SameSequence ==
  ASSUME NEW S, NEW s \in Seq(S), NEW t \in Seq(S), Len(s) = Len(t),
         \A i \in 1 .. Len(s) : s[i] = t[i]
  PROVE  s = t
OBVIOUS

LEMMA RecordedTyped ==
  ASSUME RetrainingAssumption, NEW history \in Seq(Results), NEW result \in Results
  PROVE  Recorded(history, result) \in Seq(Results)
<1> DEFINE all == Append(history, result)
           cut == IF Len(all) > Kept THEN Len(all) - Kept ELSE 0
<1>1. all \in Seq(Results) /\ Len(all) \in Nat
  OBVIOUS
<1> HIDE DEF all
<1>2. cut \in Nat /\ cut <= Len(all)
  BY <1>1 DEF RetrainingAssumption
<1>3. Recorded(history, result) = SubSeq(all, cut + 1, Len(all))
  <2>1. cut + 1 = IF Len(all) > Kept THEN Len(all) - Kept + 1 ELSE 1
    BY <1>1 DEF RetrainingAssumption
  <2>2. Recorded(history, result)
          = SubSeq(all, IF Len(all) > Kept THEN Len(all) - Kept + 1 ELSE 1, Len(all))
    BY Zenon DEF Recorded, all
  <2> QED BY <2>1, <2>2, Zenon
<1> HIDE DEF cut
<1> QED BY <1>1, <1>2, <1>3, EndOf

(* A step that changes one run only.                                       *)
LEMMA RunKeeps ==
  ASSUME Inv, NEW p \in Runs, NEW r \in RunStates, Sound(r),
         run' = [run EXCEPT ![p] = r], UNCHANGED <<now, log>>,
         file' \in [parses : BOOLEAN, results : Seq(Results)],
         started' \in 0 .. MaxRuns, crashes' \in 0 .. MaxCrashes,
         alone' \in BOOLEAN, torn' \in Nat
  PROVE  Inv'
<1>1. TypeOK'
  BY DEF Inv, TypeOK, RunStates
<1>2. \A q \in Runs : Sound(run'[q])
  BY DEF Inv, TypeOK
<1>3. PromotionIsValidated'
  BY DEF Inv, PromotionIsValidated
<1> QED BY <1>1, <1>2, <1>3 DEF Inv, Sound

-----------------------------------------------------------------------------
(* The steps.                                                              *)

LEMMA BeginKeeps ==
  ASSUME RetrainingAssumption, Inv, NEW p \in Runs, NEW drift \in Drifts,
         NEW dry \in BOOLEAN, Begin(p, drift, dry)
  PROVE  Inv'
<1> DEFINE history == LoadHistory
           decided == ShouldRetrain(drift, history)
           result == [stage |-> IF decided THEN "assessed" ELSE "skipped",
                      started_at |-> now, dry_run |-> dry, drift |-> drift,
                      validation |-> "not run", worse |-> FALSE]
           r == [pc |-> IF decided /\ ~ dry THEN "train" ELSE "finish",
                 result |-> result, history |-> history]
<1>1. run' = [run EXCEPT ![p] = r]
  BY DEF Begin
<1>2. history \in Seq(Results)
  BY DEF LoadHistory, Inv, TypeOK
<1> HIDE DEF history, decided
<1>3. result \in Results
  BY DEF Inv, TypeOK, Results, Stages, Verdicts
<1>4. r \in RunStates
  BY <1>2, <1>3 DEF RunStates, Steps
<1>5. Sound(r)
  BY DEF Sound
<1>6. started' \in 0 .. MaxRuns
  <2>1. started' = started + 1 /\ started < MaxRuns
    BY DEF Begin
  <2>2. started \in 0 .. MaxRuns /\ MaxRuns \in Nat
    BY DEF Inv, TypeOK, RetrainingAssumption
  <2> QED BY <2>1, <2>2
<1>7. UNCHANGED <<now, file, log, crashes, torn>>
  BY DEF Begin
<1>8. alone' \in BOOLEAN
  BY Zenon DEF Begin
<1> HIDE DEF r
<1> QED BY <1>1, <1>4, <1>5, <1>6, <1>7, <1>8, RunKeeps DEF Inv, TypeOK

LEMMA TrainKeeps ==
  ASSUME Inv, NEW p \in Runs, Train(p)
  PROVE  Inv'
<1>1. UNCHANGED <<now, file, log, started, crashes, alone, torn>>
  BY DEF Train
<1>2. Sound(run[p]) /\ ~ run[p].result.dry_run
  BY DEF Train, At, Inv, Sound
<1>3. CASE run' = [run EXCEPT ![p] = Stop(p, "failed")]
  <2>1. Stop(p, "failed") \in RunStates /\ Sound(Stop(p, "failed"))
    BY StopTyped DEF Inv, Sound, Stages
  <2> QED BY <1>1, <1>3, <2>1, RunKeeps DEF Inv, TypeOK
<1>4. ASSUME NEW worse \in BOOLEAN,
             run' = [run EXCEPT ![p] =
                       [Goto(p, "validate") EXCEPT !.result.stage = "trained",
                                                   !.result.worse = worse]]
      PROVE  Inv'
  <2> DEFINE g == Goto(p, "validate")
             r == [g EXCEPT !.result.stage = "trained"]
             s == [r EXCEPT !.result.worse = worse]
  <2>1. g \in RunStates /\ g.pc = "validate" /\ g.result = run[p].result
    BY GotoTyped DEF Inv, Steps
  <2>2. r \in RunStates /\ r.pc = "validate" /\ r.result.stage = "trained"
        /\ r.result.dry_run = run[p].result.dry_run
    <3> HIDE DEF g
    <3>1. "trained" \in Stages
      BY KnownStages
    <3>2. /\ r \in RunStates /\ r.pc = g.pc
          /\ r.result.stage = "trained" /\ r.result.dry_run = g.result.dry_run
      BY <2>1, <3>1, StageTyped
    <3> HIDE DEF r
    <3> QED BY <2>1, <3>2
  <2>3. run' = [run EXCEPT ![p] = s]
    BY <1>4
  <2> HIDE DEF r
  <2>4. s \in RunStates /\ Sound(s)
    BY <1>2, <2>2, WorseTyped DEF Sound
  <2> HIDE DEF s
  <2> QED BY <1>1, <2>3, <2>4, RunKeeps DEF Inv, TypeOK
<1> QED BY <1>3, <1>4 DEF Train, _run_training

LEMMA ValidateKeeps ==
  ASSUME Inv, NEW p \in Runs, Validate(p)
  PROVE  Inv'
<1>1. UNCHANGED <<now, file, log, started, crashes, alone, torn>>
  BY DEF Validate
<1>2. ~ run[p].result.dry_run
  BY DEF Validate, At, Inv, Sound
<1>3. PICK verdict \in _run_validation :
        run' = [run EXCEPT ![p] =
                  [IF Accepted(verdict)
                     THEN [Goto(p, "compare") EXCEPT !.result.stage = "validated"]
                     ELSE Stop(p, "failed")
                   EXCEPT !.result.validation = verdict]]
  BY DEF Validate
<1>4. verdict \in Verdicts
  BY <1>3 DEF Verdicts, _run_validation
<1>5. CASE Accepted(verdict)
  <2> DEFINE g == Goto(p, "compare")
             r == [g EXCEPT !.result.stage = "validated"]
             s == [r EXCEPT !.result.validation = verdict]
  <2>1. g \in RunStates /\ g.pc = "compare" /\ g.result = run[p].result
    BY GotoTyped DEF Inv, Steps
  <2>2. r \in RunStates /\ r.pc = "compare" /\ r.result.stage = "validated"
        /\ r.result.dry_run = run[p].result.dry_run
    <3> HIDE DEF g
    <3>1. "validated" \in Stages
      BY KnownStages
    <3>2. /\ r \in RunStates /\ r.pc = g.pc
          /\ r.result.stage = "validated" /\ r.result.dry_run = g.result.dry_run
      BY <2>1, <3>1, StageTyped
    <3> HIDE DEF r
    <3> QED BY <2>1, <3>2
  <2>3. run' = [run EXCEPT ![p] = s]
    BY <1>3, <1>5
  <2> HIDE DEF r
  <2>4. s \in RunStates /\ Sound(s)
    BY <1>2, <1>4, <1>5, <2>2, VerdictTyped DEF Sound, Accepted
  <2> HIDE DEF s
  <2> QED BY <1>1, <2>3, <2>4, RunKeeps DEF Inv, TypeOK
<1>6. CASE ~ Accepted(verdict)
  <2> DEFINE r == Stop(p, "failed")
             s == [r EXCEPT !.result.validation = verdict]
  <2>1. r \in RunStates /\ r.pc = "finish" /\ r.result.stage = "failed"
    BY StopTyped DEF Inv, Stages
  <2>2. run' = [run EXCEPT ![p] = s]
    BY <1>3, <1>6
  <2> HIDE DEF r
  <2>3. s \in RunStates /\ Sound(s)
    BY <1>4, <2>1, VerdictTyped DEF Sound
  <2> HIDE DEF s
  <2> QED BY <1>1, <2>2, <2>3, RunKeeps DEF Inv, TypeOK
<1> QED BY <1>5, <1>6

LEMMA CompareKeeps ==
  ASSUME Inv, NEW p \in Runs, Compare(p)
  PROVE  Inv'
<1> DEFINE stage == IF Regression(run[p].result.worse) = "failed" THEN "failed" ELSE "promoted"
<1>1. UNCHANGED <<now, file, log, started, crashes, alone, torn>> /\ run' = [run EXCEPT ![p] = Stop(p, stage)]
  BY DEF Compare
<1>2. run[p].result.validation = "passed" /\ ~ run[p].result.dry_run
  BY DEF Compare, At, Inv, Sound
<1>3. stage \in Stages
  BY DEF Stages
<1> HIDE DEF stage
<1>4. Stop(p, stage) \in RunStates /\ Sound(Stop(p, stage))
  BY <1>2, <1>3, StopTyped DEF Inv, Sound
<1> QED BY <1>1, <1>4, RunKeeps DEF Inv, TypeOK

LEMMA FinishKeeps ==
  ASSUME Inv, NEW p \in Runs, Finish(p)
  PROVE  Inv'
<1>1. /\ run' = [run EXCEPT ![p] = Goto(p, "write")]
      /\ file' = [parses |-> FALSE, results |-> <<>>]
      /\ UNCHANGED <<now, log, started, crashes, alone, torn>>
  BY DEF Finish
<1>2. file' \in [parses : BOOLEAN, results : Seq(Results)]
  BY <1>1
<1>3. Goto(p, "write") \in RunStates /\ Sound(Goto(p, "write"))
  BY GotoTyped DEF Inv, Sound, Steps
<1> QED BY <1>1, <1>2, <1>3, RunKeeps DEF Inv, TypeOK

LEMMA WriteKeeps ==
  ASSUME RetrainingAssumption, Inv, NEW p \in Runs, Write(p)
  PROVE  Inv'
<1>1. run[p] \in RunStates /\ Sound(run[p])
  BY DEF Inv, TypeOK, RunStates
<1>2. run[p].result \in Results /\ run[p].history \in Seq(Results)
  BY <1>1 DEF RunStates
<1>3. /\ run' = [run EXCEPT ![p] = NoRun]
      /\ file' = [parses |-> TRUE, results |-> Recorded(run[p].history, run[p].result)]
      /\ log' = Append(log, run[p].result)
      /\ UNCHANGED <<now, started, crashes, alone, torn>>
  BY DEF Write
<1>4. log' \in Seq(Results)
  BY <1>2, <1>3 DEF Inv, TypeOK
<1>5. TypeOK'
  <2>1. run' \in [Runs -> RunStates]
    BY <1>3, NoRunTyped DEF Inv, TypeOK, RunStates
  <2>2. file' \in [parses : BOOLEAN, results : Seq(Results)]
    BY <1>2, <1>3, RecordedTyped
  <2> QED BY <2>1, <2>2, <1>3, <1>4 DEF Inv, TypeOK, RunStates
<1>6. \A q \in Runs : Sound(run'[q])
  BY <1>3, NoRunTyped DEF Inv, TypeOK
<1>7. PromotionIsValidated'
  <2>1. log \in Seq(Results) /\ PromotionIsValidated
    BY DEF Inv, TypeOK
  <2>2. run[p].result.stage = "promoted" =>
          run[p].result.validation = "passed" /\ ~ run[p].result.dry_run
    BY <1>1 DEF Sound
  <2>3. /\ Len(log') = Len(log) + 1
        /\ log'[Len(log) + 1] = run[p].result
        /\ \A i \in 1 .. Len(log) : log'[i] = log[i]
    BY <1>2, <1>3, <2>1
  <2>4. DOMAIN log' = 1 .. Len(log) + 1 /\ DOMAIN log = 1 .. Len(log) /\ Len(log) \in Nat
    BY <1>4, <2>1, <2>3
  <2> SUFFICES ASSUME NEW i \in DOMAIN log', log'[i].stage = "promoted"
               PROVE  log'[i].validation = "passed" /\ ~ log'[i].dry_run
    BY DEF PromotionIsValidated
  <2>5. CASE i = Len(log) + 1
    BY <2>2, <2>3, <2>5
  <2>6. CASE i # Len(log) + 1
    <3>1. i \in DOMAIN log /\ log'[i] = log[i]
      BY <2>3, <2>4, <2>6
    <3> QED BY <2>1, <3>1 DEF PromotionIsValidated
  <2> QED BY <2>5, <2>6
<1> QED BY <1>5, <1>6, <1>7 DEF Inv, Sound

LEMMA CrashKeeps ==
  ASSUME RetrainingAssumption, Inv, NEW p \in Runs, Crash(p)
  PROVE  Inv'
<1>1. run' = [run EXCEPT ![p] = NoRun] /\ UNCHANGED <<now, file, log, started, alone>>
  BY DEF Crash
<1>2. crashes' \in 0 .. MaxCrashes
  BY DEF Crash, Inv, TypeOK, RetrainingAssumption
<1>3. torn' \in Nat
  BY DEF Crash, Inv, TypeOK
<1> QED BY <1>1, <1>2, <1>3, NoRunTyped, RunKeeps DEF Inv, TypeOK

LEMMA TickKeeps ==
  ASSUME RetrainingAssumption, Inv, Tick
  PROVE  Inv'
<1>1. TypeOK'
  BY DEF Tick, Inv, TypeOK, RetrainingAssumption
<1> QED BY <1>1 DEF Tick, Inv, Sound, PromotionIsValidated

-----------------------------------------------------------------------------
(* The whole.                                                              *)

(* The inductive invariant: what a run has behind it at each step.         *)
THEOREM InvHolds == Spec => []Inv
<1> USE RetrainingAssumption
<1>1. Init => Inv
  BY NoRunTyped DEF Init, Inv, TypeOK, PromotionIsValidated, RunStates, RetrainingAssumption
<1>2. Inv /\ [Next]_vars => Inv'
  <2>1. ASSUME Inv, UNCHANGED vars PROVE Inv'
    BY <2>1 DEF vars, Inv, TypeOK, Sound, PromotionIsValidated
  <2>2. ASSUME Inv, Next PROVE Inv'
    BY <2>2, BeginKeeps, TrainKeeps, ValidateKeeps, CompareKeeps, FinishKeeps,
       WriteKeeps, CrashKeeps, TickKeeps DEF Next
  <2> QED BY <2>1, <2>2
<1> QED BY <1>1, <1>2, PTL DEF Spec

(* The types of the pipeline's state.                                      *)
THEOREM TypeCorrect == Spec => []TypeOK
<1>1. Inv => TypeOK
  BY DEF Inv
<1> QED BY <1>1, InvHolds, PTL

(* No result is promoted without having passed validation, in a dry run or *)
(* otherwise, whatever overlaps and whatever is killed.                    *)
THEOREM ValidationGates == Spec => []PromotionIsValidated
<1>1. Inv => PromotionIsValidated
  BY DEF Inv
<1> QED BY <1>1, InvHolds, PTL

-----------------------------------------------------------------------------
(* The history file.  As long as runs come one after the other, a run has  *)
(* read what the file can still hold: the last Kept of the results since a *)
(* kill destroyed it.  That is what it writes back, with its own; results  *)
(* are in the order of their starts, and a file in mid-write is no file.   *)

Busy(p) == run[p].pc # "idle"

OneRun == \A p, q \in Runs : Busy(p) /\ Busy(q) => p = q

Remembered == SubSeq(log, Oldest, Len(log))

ReadTheFile ==
  \A p \in Runs : Busy(p) =>
    /\ run[p].history = Remembered
    /\ run[p].result.started_at <= now
    /\ \A i \in DOMAIN log : log[i].started_at <= run[p].result.started_at

InOrder ==
  /\ \A i \in DOMAIN log : log[i].started_at <= now
  /\ \A i, j \in DOMAIN log : i <= j => log[i].started_at <= log[j].started_at

FileIsRecent ==
  /\ (\A p \in Runs : ~At(p, "write")) => LoadHistory = Remembered
  /\ \A p \in Runs : At(p, "write") => ~file.parses

AloneInv == OneRun /\ ReadTheFile /\ InOrder /\ FileIsRecent /\ torn <= Len(log)

Alone == alone => AloneInv

LEMMA Typed ==
  ASSUME Inv
  PROVE  /\ now \in Nat /\ run \in [Runs -> RunStates] /\ log \in Seq(Results) /\ torn \in Nat
         /\ \A i \in DOMAIN log : log[i].started_at \in Nat
         /\ \A p \in Runs : run[p].result.started_at \in Nat
<1>1. now \in Nat /\ run \in [Runs -> RunStates] /\ log \in Seq(Results) /\ torn \in Nat
  BY RetrainingAssumption DEF Inv, TypeOK, RunStates
<1>2. \A r \in Results : r.started_at \in Nat
  BY RetrainingAssumption DEF Results
<1> QED
  BY <1>1, <1>2 DEF RunStates

(* How many results are not remembered.                                    *)
Gone(n, t) == IF t > n - Kept THEN t ELSE n - Kept

LEMMA GoneIs ==
  ASSUME NEW n \in Nat, NEW t \in Nat, t <= n
  PROVE  /\ Gone(n, t) \in Nat /\ Gone(n, t) <= n
         /\ Gone(n + 1, t) = IF n - Gone(n, t) + 1 > Kept THEN n + 1 - Kept ELSE Gone(n, t)
BY RetrainingAssumption DEF Gone

(* The results that are remembered are the end of the log.                 *)
LEMMA RememberedIs ==
  ASSUME Inv, torn <= Len(log)
  PROVE  LET gone == Gone(Len(log), torn) IN
         /\ Oldest = gone + 1 /\ gone \in Nat /\ gone <= Len(log)
         /\ Remembered \in Seq(Results) /\ Len(Remembered) = Len(log) - gone
         /\ \A j \in 1 .. Len(log) - gone : Remembered[j] = log[gone + j]
<1> DEFINE gone == Gone(Len(log), torn)
<1>1. log \in Seq(Results) /\ Len(log) \in Nat /\ torn \in Nat
  BY Typed
<1>2. gone \in Nat /\ gone <= Len(log)
  BY <1>1, GoneIs
<1>3. Oldest = gone + 1
  BY DEF Oldest, Gone
<1> HIDE DEF gone
<1>4. Remembered = SubSeq(log, gone + 1, Len(log))
  BY <1>3 DEF Remembered
<1>5. /\ Remembered \in Seq(Results) /\ Len(Remembered) = Len(log) - gone
      /\ \A j \in 1 .. Len(log) - gone : Remembered[j] = log[gone + j]
  BY <1>1, <1>2, <1>4, EndOf
<1> QED
  BY <1>2, <1>3, <1>5 DEF gone

(* A run that has read what is remembered writes what will be.             *)
LEMMA RecordedSlides ==
  ASSUME NEW list \in Seq(Results), NEW r \in Results, NEW t \in Nat, t <= Len(list),
         NEW next, next = Append(list, r)
  PROVE  Recorded(SubSeq(list, Gone(Len(list), t) + 1, Len(list)), r)
           = SubSeq(next, Gone(Len(next), t) + 1, Len(next))
<1> DEFINE n == Len(list)
           a == Gone(n, t)
           b == Gone(n + 1, t)
           end == SubSeq(list, a + 1, n)
           all == Append(end, r)
           cut == IF Len(all) > Kept THEN Len(all) - Kept ELSE 0
           kept == SubSeq(next, b + 1, n + 1)
<1>1. n \in Nat /\ Kept \in Nat \ {0}
  BY RetrainingAssumption
<1>2. /\ a \in Nat /\ a <= n /\ b \in Nat /\ b <= n + 1
      /\ b = IF n - a + 1 > Kept THEN n + 1 - Kept ELSE a
  BY <1>1, GoneIs
<1>3. next \in Seq(Results) /\ Len(next) = n + 1
      /\ \A i \in 1 .. n + 1 : next[i] = IF i = n + 1 THEN r ELSE list[i]
  OBVIOUS
<1> HIDE DEF a, b, n
<1>4. end \in Seq(Results) /\ Len(end) = n - a /\ \A j \in 1 .. n - a : end[j] = list[a + j]
  BY <1>1, <1>2, EndOf DEF n
<1>5. kept \in Seq(Results) /\ Len(kept) = n + 1 - b
      /\ \A j \in 1 .. n + 1 - b : kept[j] = next[b + j]
  BY <1>1, <1>2, <1>3, EndOf
<1> HIDE DEF end, kept
<1>6. /\ all \in Seq(Results) /\ Len(all) = n - a + 1
      /\ \A j \in 1 .. n - a + 1 : all[j] = IF j = n - a + 1 THEN r ELSE end[j]
  BY <1>1, <1>2, <1>4
<1>7. Recorded(end, r) = SubSeq(all, cut + 1, Len(all))
  <2>1. cut + 1 = IF Len(all) > Kept THEN Len(all) - Kept + 1 ELSE 1
    BY <1>1, <1>2, <1>6
  <2>2. Recorded(end, r)
          = SubSeq(all, IF Len(all) > Kept THEN Len(all) - Kept + 1 ELSE 1, Len(all))
    BY Zenon DEF Recorded
  <2> QED BY <2>1, <2>2, Zenon
<1> HIDE DEF all
<1>8. cut \in Nat /\ cut <= Len(all) /\ a + cut = b
  BY <1>1, <1>2, <1>6
<1> HIDE DEF cut
<1>9. /\ Recorded(end, r) \in Seq(Results) /\ Len(Recorded(end, r)) = Len(all) - cut
      /\ \A j \in 1 .. Len(all) - cut : Recorded(end, r)[j] = all[cut + j]
  BY <1>6, <1>7, <1>8, EndOf
<1>10. Len(all) - cut = n + 1 - b
  BY <1>1, <1>2, <1>6, <1>8
<1>11. ASSUME NEW j \in 1 .. n + 1 - b
       PROVE  Recorded(end, r)[j] = kept[j]
  <2>1. /\ cut + j \in 1 .. n - a + 1 /\ b + j \in 1 .. n + 1 /\ b + j = a + (cut + j)
        /\ cut + j = n - a + 1 <=> b + j = n + 1
    BY <1>1, <1>2, <1>8
  <2>2. CASE b + j = n + 1
    <3>1. all[cut + j] = r /\ next[b + j] = r
      BY <1>3, <1>6, <2>1, <2>2
    <3> QED
      BY <1>5, <1>9, <1>10, <3>1
  <2>3. CASE b + j # n + 1
    <3>1. cut + j \in 1 .. n - a
      BY <1>1, <1>2, <2>1, <2>3
    <3>2. all[cut + j] = list[b + j] /\ next[b + j] = list[b + j]
      BY <1>3, <1>4, <1>6, <2>1, <2>3, <3>1
    <3> QED
      BY <1>5, <1>9, <1>10, <3>2
  <2> QED
    BY <2>2, <2>3
<1>12. Recorded(end, r) = kept
  BY <1>5, <1>9, <1>10, <1>11, SameSequence
<1>13. SubSeq(list, Gone(Len(list), t) + 1, Len(list)) = end
  BY DEF end, a, n
<1>14. SubSeq(next, Gone(Len(next), t) + 1, Len(next)) = kept
  BY <1>3 DEF kept, b
<1> QED
  BY <1>12, <1>13, <1>14

(* Before a run begins nobody is busy: it reads what is remembered.        *)
LEMMA BeginReadsTheFile ==
  ASSUME Inv, Alone, alone', NEW p \in Runs, NEW drift \in Drifts, NEW dry \in BOOLEAN,
         Begin(p, drift, dry)
  PROVE  /\ alone /\ AloneInv /\ LoadHistory = Remembered
         /\ \A q \in Runs : ~Busy(q)
<1>1. alone /\ \A q \in Runs : At(q, "idle")
  BY DEF Begin
<1>2. AloneInv /\ \A q \in Runs : ~Busy(q) /\ ~At(q, "write")
  BY <1>1 DEF Alone, Busy, At
<1> QED
  BY <1>1, <1>2 DEF AloneInv, FileIsRecent

LEMMA BeginAlone ==
  ASSUME Inv, Alone, NEW p \in Runs, NEW drift \in Drifts, NEW dry \in BOOLEAN,
         Begin(p, drift, dry)
  PROVE  Alone'
<1> SUFFICES ASSUME alone' PROVE AloneInv'
  BY DEF Alone
<1>1. /\ alone /\ AloneInv /\ LoadHistory = Remembered
      /\ \A q \in Runs : ~Busy(q)
  BY BeginReadsTheFile
<1> DEFINE next == [pc |-> IF ShouldRetrain(drift, LoadHistory) /\ ~dry THEN "train" ELSE "finish",
                   result |-> [stage |-> IF ShouldRetrain(drift, LoadHistory)
                                         THEN "assessed" ELSE "skipped",
                               started_at |-> now, dry_run |-> dry, drift |-> drift,
                               validation |-> "not run", worse |-> FALSE],
                   history |-> LoadHistory]
<1>2. run' = [run EXCEPT ![p] = next] /\ UNCHANGED <<now, file, log, crashes, torn>>
  BY DEF Begin
<1>3. next.pc \in {"train", "finish"} /\ next.history = Remembered
      /\ next.result.started_at = now
  BY <1>1
<1> HIDE DEF next
<1>4. run'[p] = next /\ \A q \in Runs \ {p} : run'[q] = run[q] /\ ~Busy(q)'
  BY <1>1, <1>2, Typed DEF Busy
<1>5. OneRun'
  BY <1>4 DEF OneRun
<1>6. Remembered' = Remembered /\ LoadHistory' = LoadHistory
  BY <1>2 DEF Remembered, Oldest, LoadHistory
<1>7. ReadTheFile'
  BY <1>1, <1>2, <1>3, <1>4, <1>6, Typed DEF ReadTheFile, AloneInv, InOrder
<1>8. InOrder' /\ torn' <= Len(log')
  BY <1>1, <1>2 DEF AloneInv, InOrder
<1>9. FileIsRecent'
  BY <1>1, <1>3, <1>4, <1>6 DEF FileIsRecent, At, Busy
<1> QED
  BY <1>5, <1>7, <1>8, <1>9 DEF AloneInv

(* The steps in between leave what the run has read.                       *)
LEMMA WorkAlone ==
  ASSUME Inv, Alone, NEW p \in Runs, Train(p) \/ Validate(p) \/ Compare(p)
  PROVE  Alone'
<1> SUFFICES ASSUME alone' PROVE AloneInv'
  BY DEF Alone
<1>1. /\ UNCHANGED <<now, file, log, alone, torn>>
      /\ run[p].pc \in {"train", "validate", "compare"}
  BY DEF Train, Validate, Compare, At
<1>2. AloneInv /\ Busy(p)
  BY <1>1 DEF Alone, Busy
<1>3. PICK next : /\ run' = [run EXCEPT ![p] = next]
                  /\ next.pc \in {"validate", "compare", "finish"}
                  /\ next.history = run[p].history
                  /\ next.result.started_at = run[p].result.started_at
  <2> DEFINE Follows(r) ==
        /\ r \in RunStates /\ r.pc \in {"validate", "compare", "finish"}
        /\ r.history = run[p].history /\ r.result.started_at = run[p].result.started_at
  <2>1. \A pc \in {"validate", "compare", "finish"} : Follows(Goto(p, pc))
    BY GotoTyped DEF Inv, Steps
  <2>2. ASSUME NEW r, Follows(r)
        PROVE  /\ \A stage \in Stages : Follows([r EXCEPT !.result.stage = stage])
               /\ \A verdict \in Verdicts : Follows([r EXCEPT !.result.validation = verdict])
               /\ \A worse \in BOOLEAN : Follows([r EXCEPT !.result.worse = worse])
    BY <2>2 DEF RunStates, Results
  <2> HIDE DEF Follows
  <2>3. {"failed", "trained", "validated", "promoted"} \subseteq Stages
    BY DEF Stages
  <2>4. \A stage \in Stages : Follows(Stop(p, stage))
    BY <2>1, <2>2 DEF Stop
  <2>5. CASE Train(p)
    <3>1. PICK done \in BOOLEAN, worse \in BOOLEAN :
            IF ~done THEN run' = [run EXCEPT ![p] = Stop(p, "failed")]
            ELSE run' = [run EXCEPT ![p] =
                          [Goto(p, "validate") EXCEPT !.result.stage = "trained",
                                                      !.result.worse = worse]]
      BY <2>5 DEF Train, _run_training
    <3> DEFINE trained == [Goto(p, "validate") EXCEPT !.result.stage = "trained"]
    <3>2. Follows(trained)
      BY <2>1, <2>2, <2>3
    <3>3. Follows([trained EXCEPT !.result.worse = worse])
      BY <2>2, <3>2
    <3>4. [Goto(p, "validate") EXCEPT !.result.stage = "trained", !.result.worse = worse]
            = [trained EXCEPT !.result.worse = worse]
      OBVIOUS
    <3> QED
      BY <2>3, <2>4, <3>1, <3>3, <3>4 DEF Follows
  <2>6. CASE Validate(p)
    <3>1. PICK verdict \in Verdicts :
            run' = [run EXCEPT ![p] =
                      [IF Accepted(verdict)
                         THEN [Goto(p, "compare") EXCEPT !.result.stage = "validated"]
                         ELSE Stop(p, "failed")
                       EXCEPT !.result.validation = verdict]]
      BY <2>6 DEF Validate, _run_validation, Verdicts
    <3> DEFINE r == IF Accepted(verdict)
                    THEN [Goto(p, "compare") EXCEPT !.result.stage = "validated"]
                    ELSE Stop(p, "failed")
    <3>2. Follows(r)
      BY <2>1, <2>2, <2>3, <2>4
    <3> HIDE DEF r
    <3>3. Follows([r EXCEPT !.result.validation = verdict])
      BY <2>2, <3>2
    <3> QED
      BY <3>1, <3>3 DEF Follows, r
  <2>7. CASE Compare(p)
    BY <2>3, <2>4, <2>7 DEF Compare, Follows
  <2> QED
    BY <1>1, <2>5, <2>6, <2>7
<1>4. run'[p] = next /\ \A q \in Runs \ {p} : run'[q] = run[q] /\ ~Busy(q)
  BY <1>2, <1>3, Typed DEF AloneInv, OneRun
<1>5. OneRun'
  BY <1>4 DEF OneRun, Busy
<1>6. Remembered' = Remembered /\ LoadHistory' = LoadHistory
  BY <1>1 DEF Remembered, Oldest, LoadHistory
<1>7. ReadTheFile'
  BY <1>1, <1>2, <1>3, <1>4, <1>6 DEF ReadTheFile, AloneInv, Busy
<1>8. InOrder' /\ torn' <= Len(log')
  BY <1>1, <1>2 DEF AloneInv, InOrder
<1>9. FileIsRecent'
  <2>1. (\A q \in Runs : ~At(q, "write")') => \A q \in Runs : ~At(q, "write")
    BY <1>1, <1>4 DEF At, Busy
  <2>2. \A q \in Runs : ~At(q, "write")'
    BY <1>3, <1>4 DEF At, Busy
  <2> QED
    BY <1>2, <1>6, <2>1, <2>2 DEF AloneInv, FileIsRecent
<1> QED
  BY <1>5, <1>7, <1>8, <1>9 DEF AloneInv

LEMMA FinishAlone ==
  ASSUME Inv, Alone, NEW p \in Runs, Finish(p)
  PROVE  Alone'
<1> SUFFICES ASSUME alone' PROVE AloneInv'
  BY DEF Alone
<1>1. /\ UNCHANGED <<now, log, alone, torn>> /\ run[p].pc = "finish"
      /\ run' = [run EXCEPT ![p] = Goto(p, "write")] /\ ~file'.parses
  BY DEF Finish, At
<1>2. AloneInv /\ Busy(p)
  BY <1>1 DEF Alone, Busy
<1>3. /\ Goto(p, "write").pc = "write" /\ Goto(p, "write").history = run[p].history
      /\ Goto(p, "write").result = run[p].result
  BY GotoTyped DEF Inv, Steps
<1>4. run'[p] = Goto(p, "write") /\ \A q \in Runs \ {p} : run'[q] = run[q] /\ ~Busy(q)
  BY <1>1, <1>2, Typed DEF AloneInv, OneRun
<1>5. OneRun'
  BY <1>4 DEF OneRun, Busy
<1>6. ReadTheFile'
  BY <1>1, <1>2, <1>3, <1>4 DEF ReadTheFile, AloneInv, Busy, Remembered, Oldest
<1>7. InOrder' /\ torn' <= Len(log')
  BY <1>1, <1>2 DEF AloneInv, InOrder
<1>8. FileIsRecent'
  BY <1>1, <1>3, <1>4 DEF FileIsRecent, At
<1> QED
  BY <1>5, <1>6, <1>7, <1>8 DEF AloneInv

LEMMA WriteAlone ==
  ASSUME Inv, Alone, NEW p \in Runs, Write(p)
  PROVE  Alone'
<1> SUFFICES ASSUME alone' PROVE AloneInv'
  BY DEF Alone
<1> DEFINE r == run[p].result
<1>1. /\ UNCHANGED <<now, alone, torn>> /\ run[p].pc = "write" /\ run' = [run EXCEPT ![p] = NoRun]
      /\ file' = [parses |-> TRUE, results |-> Recorded(run[p].history, r)]
      /\ log' = Append(log, r)
  BY DEF Write, At
<1>2. AloneInv /\ Busy(p)
  BY <1>1 DEF Alone, Busy
<1>3. \A q \in Runs : ~Busy(q)' /\ ~At(q, "write")'
  <2>1. \A q \in Runs \ {p} : run'[q] = run[q] /\ ~Busy(q)
    BY <1>1, <1>2, Typed DEF AloneInv, OneRun
  <2>2. run'[p].pc = "idle"
    BY <1>1, Typed DEF NoRun
  <2> QED
    BY <2>1, <2>2 DEF Busy, At
<1>4. r \in Results /\ r.started_at \in Nat /\ r.started_at <= now
      /\ run[p].history = Remembered
      /\ \A i \in DOMAIN log : log[i].started_at <= r.started_at
  <2>1. r \in Results
    BY Typed DEF RunStates
  <2> QED
    BY <1>2, <2>1, Typed DEF AloneInv, ReadTheFile
<1> HIDE DEF r
<1>5. /\ \A i \in DOMAIN log : i \in DOMAIN log' /\ log'[i] = log[i] /\ i \in Nat /\ i <= Len(log)
      /\ Len(log) + 1 \in DOMAIN log' /\ log'[Len(log) + 1] = r
      /\ DOMAIN log' = DOMAIN log \cup {Len(log) + 1} /\ Len(log) \in Nat
      /\ Len(log') = Len(log) + 1
  BY <1>1, <1>4, Typed
<1>6. InOrder'
  <2>1. \A i \in DOMAIN log' : log'[i].started_at <= now'
    BY <1>1, <1>2, <1>4, <1>5 DEF AloneInv, InOrder
  <2>2. SUFFICES ASSUME NEW i \in DOMAIN log', NEW j \in DOMAIN log', i <= j
                 PROVE  log'[i].started_at <= log'[j].started_at
    BY <2>1 DEF InOrder
  <2>3. CASE j \in DOMAIN log
    <3>1. i \in DOMAIN log
      BY <1>5, <2>2, <2>3
    <3> QED
      BY <1>2, <1>5, <2>2, <2>3, <3>1 DEF AloneInv, InOrder
  <2>4. CASE j = Len(log) + 1
    BY <1>4, <1>5, <2>4
  <2> QED
    BY <1>5, <2>3, <2>4
<1>7. FileIsRecent'
  <2>1. log \in Seq(Results) /\ torn \in Nat /\ torn <= Len(log)
    BY <1>2, Typed DEF AloneInv
  <2>2. Recorded(Remembered, r) = Remembered'
    <3>1. /\ Remembered = SubSeq(log, Gone(Len(log), torn) + 1, Len(log))
          /\ Remembered' = SubSeq(log', Gone(Len(log'), torn') + 1, Len(log'))
      BY DEF Remembered, Oldest, Gone
    <3>2. torn' = torn /\ log' = Append(log, r)
      BY <1>1
    <3>3. Recorded(SubSeq(log, Gone(Len(log), torn) + 1, Len(log)), r)
            = SubSeq(log', Gone(Len(log'), torn) + 1, Len(log'))
      BY <1>4, <2>1, <3>2, RecordedSlides
    <3> QED
      BY <3>1, <3>2, <3>3
  <2>3. LoadHistory' = Remembered'
    BY <1>1, <1>4, <2>2 DEF LoadHistory
  <2> QED
    BY <1>3, <2>3 DEF FileIsRecent
<1>8. torn' <= Len(log')
  BY <1>1, <1>2, <1>5, Typed DEF AloneInv
<1> QED
  BY <1>3, <1>6, <1>7, <1>8 DEF AloneInv, OneRun, ReadTheFile

LEMMA CrashAlone ==
  ASSUME Inv, Alone, NEW p \in Runs, Crash(p)
  PROVE  Alone'
<1> SUFFICES ASSUME alone' PROVE AloneInv'
  BY DEF Alone
<1>1. /\ UNCHANGED <<now, file, log>> /\ alone /\ run[p].pc # "idle"
      /\ run' = [run EXCEPT ![p] = NoRun]
      /\ torn' = IF At(p, "write") THEN Len(log) ELSE torn
  BY DEF Crash, At
<1>2. AloneInv /\ Busy(p)
  BY <1>1 DEF Alone, Busy
<1>3. \A q \in Runs \ {p} : run'[q] = run[q] /\ ~Busy(q)
  BY <1>1, <1>2, Typed DEF AloneInv, OneRun
<1>4. run'[p].pc = "idle"
  BY <1>1, Typed DEF NoRun
<1>5. \A q \in Runs : ~Busy(q)' /\ ~At(q, "write")'
  BY <1>1, <1>3, <1>4 DEF Busy, At
<1>6. InOrder' /\ torn' <= Len(log')
  BY <1>1, <1>2, Typed DEF AloneInv, InOrder
<1>7. LoadHistory' = Remembered'
  <2>1. CASE At(p, "write")
    <3>1. LoadHistory' = <<>>
      BY <1>1, <1>2, <2>1 DEF AloneInv, FileIsRecent, LoadHistory
    <3>2. Len(log) \in Nat /\ Kept \in Nat \ {0} /\ torn' = Len(log) /\ log' = log
      BY <1>1, <2>1, Typed, RetrainingAssumption
    <3>3. Oldest' = Len(log) + 1
      BY <3>2 DEF Oldest
    <3>4. Remembered' = SubSeq(log, Len(log) + 1, Len(log))
      BY <3>2, <3>3 DEF Remembered
    <3> QED
      BY <3>1, <3>2, <3>4, Typed
  <2>2. CASE ~At(p, "write")
    <3>1. \A q \in Runs : ~At(q, "write")
      BY <1>3, <2>2 DEF At, Busy
    <3> QED
      BY <1>1, <1>2, <2>2, <3>1 DEF AloneInv, FileIsRecent, LoadHistory, Remembered, Oldest
  <2> QED
    BY <2>1, <2>2
<1> QED
  BY <1>5, <1>6, <1>7 DEF AloneInv, OneRun, ReadTheFile, FileIsRecent

LEMMA TickAlone ==
  ASSUME Inv, Alone, Tick
  PROVE  Alone'
<1> SUFFICES ASSUME alone' PROVE AloneInv'
  BY DEF Alone
<1>1. UNCHANGED <<run, file, log, alone, torn>> /\ now' = now + 1
  BY DEF Tick
<1>2. AloneInv
  BY <1>1 DEF Alone
<1> USE DEF Remembered, Oldest
<1>3. OneRun' /\ FileIsRecent' /\ torn' <= Len(log')
  BY <1>1, <1>2 DEF AloneInv, OneRun, FileIsRecent, Busy, At, LoadHistory
<1>4. ReadTheFile'
  <2>1. \A p \in Runs : run[p].result.started_at <= now => run[p].result.started_at <= now + 1
    BY Typed
  <2> QED
    BY <1>1, <1>2, <2>1 DEF AloneInv, ReadTheFile, Busy
<1>5. InOrder'
  <2>1. \A i \in DOMAIN log : log[i].started_at <= now => log[i].started_at <= now + 1
    BY Typed
  <2> QED
    BY <1>1, <1>2, <2>1 DEF AloneInv, InOrder
<1> QED
  BY <1>3, <1>4, <1>5 DEF AloneInv

THEOREM StaysAlone == Spec => [](Inv /\ Alone)
<1>1. Init => Alone
  <2> SUFFICES ASSUME Init PROVE AloneInv
    BY DEF Alone
  <2>1. /\ log = <<>> /\ torn = 0 /\ now = 0 /\ \A p \in Runs : run[p].pc = "idle"
        /\ LoadHistory = <<>>
    BY DEF Init, NoRun, LoadHistory
  <2>2. Oldest = 1
    BY <2>1, RetrainingAssumption DEF Oldest
  <2>3. Remembered = <<>>
    BY <2>1, <2>2 DEF Remembered
  <2> QED
    BY <2>1, <2>3 DEF AloneInv, OneRun, ReadTheFile, InOrder, FileIsRecent, Busy, At
<1>2. Inv /\ Alone /\ [Next]_vars => Alone'
  <2>1. ASSUME Inv, Alone, UNCHANGED vars PROVE Alone'
    BY <2>1 DEF vars, Alone, AloneInv, OneRun, ReadTheFile, InOrder, FileIsRecent, Busy, At,
                LoadHistory, Remembered, Oldest
  <2>2. ASSUME Inv, Alone, Next PROVE Alone'
    BY <2>2, BeginAlone, WorkAlone, FinishAlone, WriteAlone, CrashAlone, TickAlone DEF Next
  <2> QED
    BY <2>1, <2>2
<1> QED
  BY <1>1, <1>2, InvHolds, PTL DEF Spec

(* "Append, never overwrite" (retraining.py): as long as runs come one     *)
(* after the other, the next one reads the last Kept results of those that *)
(* finished since a kill last fell into a write, whatever else was killed. *)
THEOREM HistoryStaysWhole == Spec => []HistoryIsKept
<1>1. Alone => HistoryIsKept
  BY DEF Alone, AloneInv, FileIsRecent, HistoryIsKept, Remembered
<1> QED
  BY <1>1, StaysAlone, PTL

(* Among the results that start a cooldown there is a newest one.          *)
LEMMA NewestIs ==
  ASSUME NEW n \in Nat, NEW S \in SUBSET (1 .. n), S # {}
  PROVE  \E i \in S : \A j \in S : j <= i
<1> DEFINE Left == {n - i : i \in S}
<1>1. Left \subseteq Nat /\ Left # {}
  <2>1. \A i \in S : i \in Nat /\ i <= n
    OBVIOUS
  <2>2. \A i \in S : n - i \in Nat
    BY <2>1
  <2> QED
    BY <2>2
<1> HIDE DEF Left
<1>2. PICK least \in Left : \A k \in Left : <<k, least>> \notin OpToRel(<, Nat)
  BY <1>1, NatLessThanWellFounded, WFMin
<1>3. \A k \in Left : ~(k < least)
  BY <1>1, <1>2 DEF OpToRel
<1>4. PICK i \in S : least = n - i
  BY DEF Left
<1>5. \A j \in S : ~(n - j < n - i)
  BY <1>3, <1>4 DEF Left
<1>6. \A j \in S : j <= i
  BY <1>5
<1> QED
  BY <1>6

(* "cooldown_hours" and "a second reading before acting on a moderate one":*)
(* when runs come one after the other no training starts within the        *)
(* cooldown of a promoted model whose result is among the last Kept since  *)
(* a kill destroyed the file.                                              *)
THEOREM TrainingIsNotTooEarly == Spec => TrainingIsDue
<1> DEFINE Due(p) ==
      /\ \A i \in Oldest .. Len(log) :
           log[i].stage = "promoted" => now - log[i].started_at >= Cooldown
      /\ run'[p].result.drift = "moderate" => log # <<>> /\ Last(log).drift # "none"
<1>1. ASSUME Inv, Alone, [Next]_vars, alone', NEW p \in Runs, Starts(p)
      PROVE  Due(p)
  <2>1. PICK drift \in Drifts, dry \in BOOLEAN : Begin(p, drift, dry)
    <3>1. run \in [Runs -> RunStates]
      BY <1>1, Typed
    <3>2. run[p].pc = "idle" /\ run'[p].pc = "train"
      BY <1>1 DEF Starts
    <3>3. \A q \in Runs : ~(Train(q) \/ Validate(q) \/ Compare(q) \/ Finish(q) \/ Write(q) \/ Crash(q))
      <4> SUFFICES ASSUME NEW q \in Runs,
                          Train(q) \/ Validate(q) \/ Compare(q) \/ Finish(q) \/ Write(q) \/ Crash(q)
                   PROVE  FALSE
        OBVIOUS
      <4>1. run[q].pc # "idle" /\ \E r : run' = [run EXCEPT ![q] = r]
        BY DEF Train, Validate, Compare, Finish, Write, Crash, At
      <4> QED
        BY <3>1, <3>2, <4>1
    <3>4. ~Tick /\ ~UNCHANGED vars
      BY <3>2 DEF Tick, vars
    <3>5. \A q \in Runs \ {p}, drift \in Drifts, dry \in BOOLEAN : ~Begin(q, drift, dry)
      BY <3>1, <3>2 DEF Begin
    <3> QED
      BY <1>1, <3>3, <3>4, <3>5 DEF Next
  <2> DEFINE history == Remembered
             gone == Gone(Len(log), torn)
  <2>2. AloneInv /\ LoadHistory = history
    BY <1>1, <2>1, BeginReadsTheFile
  <2>3. run'[p].pc = IF ShouldRetrain(drift, history) /\ ~dry THEN "train" ELSE "finish"
    BY <1>1, <2>1, <2>2, Typed DEF Begin
  <2>4. run'[p].result.drift = drift
    BY <1>1, <2>1, <2>2, Typed DEF Begin
  <2>5. ~Cooling(history) /\ (drift = "moderate" => PreviouslyDrifted(history))
    BY <1>1, <2>3 DEF Starts, ShouldRetrain
  <2>6. /\ gone \in Nat /\ gone <= Len(log) /\ log \in Seq(Results)
        /\ history \in Seq(Results) /\ Len(history) = Len(log) - gone
        /\ \A j \in 1 .. Len(log) - gone : history[j] = log[gone + j]
    BY <1>1, <2>2, Typed, RememberedIs DEF AloneInv
  <2>7. Oldest = gone + 1
    BY DEF Oldest, Gone
  <2> HIDE DEF history, gone
  <2>8. ASSUME NEW i \in Oldest .. Len(log), log[i].stage = "promoted"
        PROVE  now - log[i].started_at >= Cooldown
    <3>1. i - gone \in 1 .. Len(history) /\ history[i - gone] = log[i] /\ i \in DOMAIN log
      BY <2>6, <2>7
    <3>2. i - gone \in Retrains(history)
      BY <1>1, <2>6, <2>8, <3>1 DEF Inv, PromotionIsValidated, Retrains, Retrained
    <3>3. Len(history) \in Nat /\ Retrains(history) \in SUBSET (1 .. Len(history))
          /\ Retrains(history) # {}
      BY <2>6, <3>2 DEF Retrains
    <3>4. PICK k \in Retrains(history) : \A j \in Retrains(history) : j <= k
      BY <3>3, NewestIs
    <3>5. ~(now - history[k].started_at < Cooldown)
      BY <2>5, <3>4 DEF Cooling
    <3>6. k \in 1 .. Len(history) /\ i - gone <= k
      BY <3>2, <3>3, <3>4
    <3>7. gone + k \in DOMAIN log /\ i <= gone + k /\ history[k] = log[gone + k]
      BY <2>6, <3>1, <3>6
    <3>8. log[i].started_at <= log[gone + k].started_at
      BY <2>2, <3>1, <3>7 DEF AloneInv, InOrder
    <3> QED
      BY <1>1, <3>1, <3>5, <3>7, <3>8, Typed, RetrainingAssumption
  <2>9. ASSUME PreviouslyDrifted(history)
        PROVE  log # <<>> /\ Last(log).drift # "none"
    <3>1. Len(history) \in Nat \ {0} /\ Last(history).drift # "none"
      BY <2>6, <2>9 DEF PreviouslyDrifted
    <3>2. /\ Len(history) \in 1 .. Len(log) - gone /\ gone + Len(history) = Len(log)
          /\ Len(log) > 0
      BY <2>6, <3>1
    <3>3. history[Len(history)] = log[Len(log)]
      BY <2>6, <3>2
    <3> QED
      BY <3>1, <3>2, <3>3 DEF Last
  <2> QED
    BY <2>4, <2>5, <2>8, <2>9
<1>2. Inv /\ Alone /\ [Next]_vars => (alone' => \A p \in Runs : Starts(p) => Due(p))
  BY <1>1
<1> QED
  BY <1>2, StaysAlone, PTL DEF Spec, TrainingIsDue

-----------------------------------------------------------------------------
(* The drift report, on which the decision rests.                          *)

(* The results that detect_drift() can put together.                       *)
FromTest(r) ==
  \E feature \in STRING, enough \in BOOLEAN, s \in Samples, categories \in Nat :
    \/ r = KsDrift(feature, enough, s)
    \/ r = ChiSquareDrift(feature, enough, categories, s)
    \/ r = PopulationStabilityIndex(feature, enough, s.effect)

(* A severity from an effect size is above "none" from the lowest          *)
(* threshold on, and above "low" from the next (_severity_from_effect()).  *)
LEMMA SeverityNeedsEffect ==
  ASSUME NEW effect \in Nat, NEW low \in Nat, NEW moderate \in Nat, NEW high \in Nat,
         low <= moderate, moderate <= high,
         SeverityFromEffect(effect, <<low, moderate, high>>) \in {"moderate", "high"}
  PROVE  effect >= moderate
  BY DEF SeverityFromEffect

(* A test that reports "moderate" or "high" also reports a drift, with an  *)
(* effect over the floor of decide(): no threshold of the detector lies    *)
(* below that floor (drift.py, retraining.py).                             *)
LEMMA SevereTestDrifts ==
  ASSUME NEW r, FromTest(r), r.severity \in {"moderate", "high"}
  PROVE  r.drifted /\ r.effect_size >= 100
<1>1. PICK feature \in STRING, enough \in BOOLEAN, s \in Samples, categories \in Nat :
        \/ r = KsDrift(feature, enough, s)
        \/ r = ChiSquareDrift(feature, enough, categories, s)
        \/ r = PopulationStabilityIndex(feature, enough, s.effect)
  BY DEF FromTest
<1>2. s.effect \in Nat
  BY DEF Samples
<1>3. CASE r = KsDrift(feature, enough, s)
  <2>1. enough /\ r = DriftResult(feature, s.significant /\ s.effect >= 100,
                                  SeverityOf(s, <<100, 200, 300>>), s.effect)
    BY <1>3 DEF KsDrift, NothingToCompare, DriftResult
  <2>2. s.significant /\ SeverityFromEffect(s.effect, <<100, 200, 300>>) \in {"moderate", "high"}
    BY <2>1 DEF DriftResult, SeverityOf
  <2>3. s.effect >= 200
    BY <2>2, <1>2, SeverityNeedsEffect
  <2>4. (s.significant /\ s.effect >= 100) /\ s.effect >= 100
    BY <2>2, <2>3, <1>2
  <2>5. r.drifted = (s.significant /\ s.effect >= 100) /\ r.effect_size = s.effect
    BY <2>1, Zenon DEF DriftResult
  <2> QED
    BY <2>4, <2>5, Zenon
<1>4. CASE r = ChiSquareDrift(feature, enough, categories, s)
  <2>1. r = DriftResult(feature, s.significant /\ s.effect >= 100,
                        SeverityOf(s, <<100, 200, 350>>), s.effect)
    BY <1>4 DEF ChiSquareDrift, NothingToCompare, DriftResult
  <2>2. s.significant /\ SeverityFromEffect(s.effect, <<100, 200, 350>>) \in {"moderate", "high"}
    BY <2>1 DEF DriftResult, SeverityOf
  <2>3. s.effect >= 200
    BY <2>2, <1>2, SeverityNeedsEffect
  <2>4. (s.significant /\ s.effect >= 100) /\ s.effect >= 100
    BY <2>2, <2>3, <1>2
  <2>5. r.drifted = (s.significant /\ s.effect >= 100) /\ r.effect_size = s.effect
    BY <2>1, Zenon DEF DriftResult
  <2> QED
    BY <2>4, <2>5, Zenon
<1>5. CASE r = PopulationStabilityIndex(feature, enough, s.effect)
  <2>1. r = DriftResult(feature, s.effect >= 200,
                        SeverityFromEffect(s.effect, <<100, 200, 250>>), s.effect)
    BY <1>5 DEF PopulationStabilityIndex, NothingToCompare, DriftResult
  <2>2. s.effect >= 200
    BY <2>1, <1>2, SeverityNeedsEffect DEF DriftResult
  <2>3. r.drifted = (s.effect >= 200) /\ r.effect_size = s.effect
    BY <2>1, Zenon DEF DriftResult
  <2>4. s.effect >= 100
    BY <2>2, <1>2
  <2> QED
    BY <2>2, <2>3, <2>4, Zenon
<1> QED
  BY <1>1, <1>3, <1>4, <1>5

(* A report of moderate or high severity has a feature that decide() acts  *)
(* on, whatever the tests found; so decide() may be modelled as looking at *)
(* the severity alone, which is what Retraining!ShouldRetrain does.        *)
THEOREM SeverityIsEarned ==
  ASSUME NEW results, \A r \in results : FromTest(r),
         OverallSeverity(results) \in {"moderate", "high"}
  PROVE  ~NoDrift(Report(results))
<1>1. PICK r \in results : r.severity \in {"moderate", "high"}
  BY DEF OverallSeverity, Some
<1>2. r.drifted /\ r.effect_size >= 100
  BY <1>1, SevereTestDrifts
<1>3. Report(results).drifted
  BY <1>1, <1>2 DEF Report
<1>4. r.feature \in DriftedFeatures(Report(results))
  BY <1>1, <1>2 DEF DriftedFeatures, Report
<1> QED
  BY <1>3, <1>4 DEF NoDrift

-----------------------------------------------------------------------------
(* The regression check, and what MCAssessment asks of it.                 *)

(* The share a relative metric may worsen by, in percent.                  *)
Share(m) == CASE m \in {"p50_latency_ms", "mean_latency_ms"} -> 25
              [] m = "p95_latency_ms" -> 30
              [] m = "p99_latency_ms" -> 40
              [] OTHER -> 10

(* What passing says of one metric, of each kind.                          *)
LEMMA PassingMetric ==
  ASSUME NEW m, NEW b \in Nat, NEW c \in Nat, Passed(m, b, c)
  PROVE  /\ m \in Latencies \cup {"size_mb"} => 100 * c <= (100 + Share(m)) * b
         /\ m \in {"throughput_ips", "throughput_rps"} => 100 * c >= (100 - Share(m)) * b
         /\ m \in {"top1", "top5"} => 2 * (b - c) <= 1
<1> DEFINE tolerance == ToleranceOf(m)
<1>1. 1000 * Worsening(m, b, c) <= Limit(m, b)
  BY DEF Passed
<1>2. ASSUME m \in Latencies \cup {"size_mb"}
      PROVE  100 * c <= (100 + Share(m)) * b
  <2>1. tolerance = 10 * Share(m) /\ Share(m) \in {25, 30, 40, 10}
    BY <1>2 DEF Latencies, ToleranceOf, DefaultTolerances, Share
  <2>2. Worsening(m, b, c) = c - b /\ Limit(m, b) = tolerance * b
    BY <1>2 DEF Latencies, Worsening, HigherIsBetter,
                Limit, RelativeMetrics
  <2> HIDE DEF tolerance
  <2> QED
    BY <1>1, <2>1, <2>2
<1>3. ASSUME m \in {"throughput_ips", "throughput_rps"}
      PROVE  100 * c >= (100 - Share(m)) * b
  <2>1. tolerance = 100 /\ Share(m) = 10
    BY <1>3 DEF ToleranceOf, DefaultTolerances, Share
  <2>2. Worsening(m, b, c) = b - c /\ Limit(m, b) = tolerance * b
    BY <1>3 DEF Worsening, HigherIsBetter,
                Limit, RelativeMetrics
  <2> HIDE DEF tolerance
  <2> QED
    BY <1>1, <2>1, <2>2
<1>4. ASSUME m \in {"top1", "top5"}
      PROVE  2 * (b - c) <= 1
  <2>1. tolerance = 500
    BY <1>4 DEF ToleranceOf, DefaultTolerances
  <2>2. Worsening(m, b, c) = b - c /\ Limit(m, b) = tolerance
    BY <1>4 DEF Worsening, HigherIsBetter,
                Limit, RelativeMetrics, Latencies
  <2> HIDE DEF tolerance
  <2> QED
    BY <1>1, <2>1, <2>2
<1> QED
  BY <1>2, <1>3, <1>4

(* Whatever is measured on whatever machines, a check that passes without  *)
(* a warning has compared every metric that was measured and recorded, and *)
(* found none worse by more than its tolerance (regression.py).            *)
THEOREM CleanCheckIsThorough ==
  ASSUME NEW recorded, NEW before \in [recorded -> Nat],
         NEW measurable, NEW after \in [measurable -> Nat],
         NEW registering, NEW registered \in [registering -> Nat],
         NEW first \in Nat, NEW second \in Nat, NEW here, NEW there, NEW strict \in BOOLEAN
  PROVE  CleanMeansNoWorse(
           [measured |-> before, iterations |-> first, machine |-> here],
           [measured |-> after, iterations |-> second, machine |-> there], registered, strict)
<1> DEFINE early == [measured |-> before, iterations |-> first, machine |-> here]
           late == [measured |-> after, iterations |-> second, machine |-> there]
           old == MeasureModel(before, registered, first)
           new == MeasureModel(after, registered, second)
           baseline == Record(old, here)
           report == CheckRegression(baseline, new, there, strict)
           kept == IF first < 100 THEN recorded \ {"p99_latency_ms"} ELSE recorded
<1>1. /\ DOMAIN old = kept \cup registering
      /\ \A m \in kept \ registering : old[m] = before[m]
      /\ DOMAIN new \subseteq measurable \cup registering
      /\ \A m \in DOMAIN new \ registering : new[m] = after[m]
  BY DEF MeasureModel
<1>2. baseline # NoBaseline /\ baseline.metrics = old /\ baseline.environment = here
  <2>1. DOMAIN baseline = {"metrics", "environment"} /\ DOMAIN NoBaseline = {"none"}
    BY DEF Record, NoBaseline
  <2>2. "none" \notin {"metrics", "environment"}
    OBVIOUS
  <2> QED
    BY <2>1, <2>2 DEF Record
<1>3. RecordAndCheck(early, late, registered, strict) = report
  BY DEF RecordAndCheck
<1> HIDE DEF old, new, baseline, early, late
<1>4. ASSUME ExitCode({report}) = 0, report.warnings = {}
      PROVE  /\ DOMAIN old \subseteq DOMAIN new
             /\ \A m \in DOMAIN old : Passed(m, old[m], new[m])
  <2>1. report.passed
    BY <1>4 DEF ExitCode
  <2>2. DOMAIN old \subseteq DOMAIN new /\ (here = there \/ strict)
    BY <1>2, <1>4 DEF CheckRegression
  <2>3. here = there
    BY <1>2, <2>1, <2>2 DEF CheckRegression
  <2> QED
    BY <1>2, <2>1, <2>2, <2>3 DEF CheckRegression
<1>5. ASSUME ExitCode({report}) = 0, report.warnings = {},
             NEW m \in kept \ registering
      PROVE  /\ m \in measurable
             /\ m \in Latencies \cup {"size_mb"} =>
                  100 * after[m] <= (100 + Share(m)) * before[m]
             /\ m \in {"throughput_ips", "throughput_rps"} =>
                  100 * after[m] >= (100 - Share(m)) * before[m]
             /\ m \in {"top1", "top5"} => 2 * (before[m] - after[m]) <= 1
  <2>1. m \in measurable /\ Passed(m, before[m], after[m])
    BY <1>1, <1>4, <1>5
  <2> DEFINE b == before[m]
             c == after[m]
  <2>2. b \in Nat /\ c \in Nat
    BY <1>5, <2>1
  <2>3. Passed(m, b, c)
    BY <2>1
  <2> HIDE DEF b, c
  <2>4. /\ m \in Latencies \cup {"size_mb"} => 100 * c <= (100 + Share(m)) * b
        /\ m \in {"throughput_ips", "throughput_rps"} => 100 * c >= (100 - Share(m)) * b
        /\ m \in {"top1", "top5"} => 2 * (b - c) <= 1
    BY ONLY <2>2, <2>3, PassingMetric
  <2> QED
    BY <2>1, <2>4 DEF b, c
<1>6. /\ early.measured = before /\ early.iterations = first /\ late.measured = after
      /\ DOMAIN before = recorded /\ DOMAIN after = measurable /\ DOMAIN registered = registering
  BY DEF early, late
<1> HIDE DEF report
<1>7. CleanMeansNoWorse(early, late, registered, strict)
  BY <1>3, <1>5, <1>6 DEF CleanMeansNoWorse, Share
<1> QED
  BY <1>7 DEF early, late

(* So a check that MCAssessment asks for, whatever the metrics and their   *)
(* values.                                                                 *)
THEOREM CleanChecksStayComplete ==
  ASSUME RegressionAssumption
  PROVE  MCSpec => []CleanCheckIsComplete
<1> DEFINE Others == Logged \cup Pictured \cup Compared \cup Validated
                       \cup Calibrated
           Asked == input \in {NoInput} \cup Others \cup Measured
<1>1. MCInit => Asked
  BY DEF MCInit
<1>2. Asked /\ [MCNext]_<<vars, input>> => Asked'
  BY DEF MCNext, Ask
<1>3. Asked => CleanCheckIsComplete
  <2> SUFFICES ASSUME Asked, input.tool = "regression" PROVE CleanCheckIsComplete
    BY DEF CleanCheckIsComplete
  <2>1. input \in Measured
    <3>1. input # NoInput
      BY DEF NoInput
    <3>2. input \notin Others
      BY Zenon DEF Logged, Pictured, Compared, Validated, Calibrated
    <3> QED
      BY <3>1, <3>2
  <2>2. /\ input.recorded \in SUBSET Metrics /\ input.registered \in SUBSET {"top1"}
        /\ input.measured \in [Metrics -> Nat] /\ input.strict \in BOOLEAN
        /\ input.iterations.first \in Nat /\ input.iterations.now \in Nat
    <3>1. /\ input.measured \in [Metrics -> Values]
          /\ input.iterations \in [first : {50, 100}, now : {50, 100}]
          /\ input.recorded \in SUBSET Metrics /\ input.registered \in SUBSET {"top1"}
          /\ input.strict \in BOOLEAN
      BY ONLY <2>1, Zenon DEF Measured
    <3>2. Values \subseteq Nat
      BY DEF RegressionAssumption
    <3>3. input.measured \in [Metrics -> Nat]
      BY ONLY <3>1, <3>2, Zenon
    <3> QED
      BY ONLY <3>1, <3>3
  <2> DEFINE recorded == input.recorded
             registering == input.registered
             before == [m \in recorded |-> 10]
             after == input.measured
             registered == [m \in registering |-> 10]
             there == IF input.elsewhere THEN "elsewhere" ELSE "here"
             once == input.iterations.first
             again == input.iterations.now
             strict == input.strict
  <2>3. /\ before \in [recorded -> Nat] /\ registered \in [registering -> Nat]
        /\ after \in [Metrics -> Nat] /\ once \in Nat /\ again \in Nat /\ strict \in BOOLEAN
    BY <2>2
  <2> HIDE DEF recorded, registering, before, after, registered, there, once, again, strict
  <2>4. CleanMeansNoWorse(
          [measured |-> before, iterations |-> once, machine |-> "here"],
          [measured |-> after, iterations |-> again, machine |-> there], registered, strict)
    BY ONLY <2>3, CleanCheckIsThorough
  <2> QED
    BY <2>4 DEF CleanCheckIsComplete, recorded, registering, before, after, registered,
                there, once, again, strict
<1> QED
  BY <1>1, <1>2, <1>3, PTL DEF MCSpec
=============================================================================
