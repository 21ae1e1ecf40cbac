---------------------------- MODULE Retraining -----------------------------
(***************************************************************************)
(* The retraining pipeline (models/pipeline/retraining.py): drift, decide, *)
(* train, validate, compare with the baseline, promote; and the history    *)
(* file from which the next run takes its cooldown and its second reading. *)
(***************************************************************************)
EXTENDS Integers, Sequences

CONSTANTS
  Runs,      \* runs of the pipeline that may be under way at a time
  Cooldown,  \* cooldown_hours, in ticks
  Kept,      \* results the history file keeps (100 in the code)
  MaxTime,   \* bound: ticks
  MaxRuns,   \* bound: runs started
  MaxCrashes \* bound: runs that are killed

ASSUME RetrainingAssumption ==
  {Cooldown, MaxTime, MaxRuns, MaxCrashes} \subseteq Nat /\ Kept \in Nat \ {0}

VARIABLES
  now,
  run,      \* the state of a run: its PipelineResult and the history it read
  file,     \* the history file: its results, and whether it can be parsed
  log,      \* history: the results of all runs that finished, in order
  started,  \* history: runs started so far
  crashes,  \* history: runs killed so far
  alone,    \* history: no two runs overlapped
  torn      \* history: how many runs had finished when one was last killed
            \* as it wrote the file

vars == <<now, run, file, log, started, crashes, alone, torn>>

Drifts == {"none", "low", "moderate", "high"}
Stages ==
  {"assessed", "skipped", "trained", "validated", "regression_checked", "promoted", "failed"}
Verdicts == {"not run", "no result", "failed", "passed"}
Results ==
  [stage : Stages, started_at : 0 .. MaxTime, dry_run : BOOLEAN,
   drift : Drifts, validation : Verdicts, worse : BOOLEAN]
Steps == {"idle", "train", "validate", "compare", "finish", "write"}
NoResult ==
  [stage |-> "assessed", started_at |-> 0, dry_run |-> TRUE,
   drift |-> "none", validation |-> "not run", worse |-> FALSE]
NoRun == [pc |-> "idle", result |-> NoResult, history |-> <<>>]

TypeOK ==
  /\ now \in 0 .. MaxTime
  /\ run \in [Runs -> [pc : Steps, result : Results, history : Seq(Results)]]
  /\ file \in [parses : BOOLEAN, results : Seq(Results)]
  /\ log \in Seq(Results)
  /\ started \in 0 .. MaxRuns /\ crashes \in 0 .. MaxCrashes
  /\ alone \in BOOLEAN /\ torn \in Nat

Init ==
  /\ now = 0
  /\ run = [p \in Runs |-> NoRun]
  /\ file = [parses |-> TRUE, results |-> <<>>]
  /\ log = <<>>
  /\ started = 0 /\ crashes = 0
  /\ alone = TRUE /\ torn = 0

-----------------------------------------------------------------------------
(* decide()                                                                *)

Last(list) == list[Len(list)]

Retrained(result) ==
  /\ result.stage \in {"trained", "validated", "regression_checked", "promoted"}
  /\ ~ result.dry_run

\* Mutant: only the last entry can start a cooldown.
LastEntry(history) ==
  {i \in DOMAIN history : i = Len(history) /\ Retrained(history[i])}

(* The entries that _last_retrain() finds, of which it takes the newest.   *)
Retrains(history) == {i \in DOMAIN history : Retrained(history[i])}

Cooling(history) ==
  \E i \in Retrains(history) :
    /\ \A j \in Retrains(history) : j <= i
    /\ now - history[i].started_at < Cooldown

PreviouslyDrifted(history) == history # <<>> /\ Last(history).drift # "none"

ShouldRetrain(drift, history) ==
  /\ ~ Cooling(history)
  /\ \/ drift = "high"
     \/ drift = "moderate" /\ PreviouslyDrifted(history)

-----------------------------------------------------------------------------
(* run_pipeline()                                                          *)

(* A missing or corrupt history reads as an empty one.                     *)
LoadHistory == IF file.parses THEN file.results ELSE <<>>

At(p, pc) == run[p].pc = pc
Goto(p, pc) == [run[p] EXCEPT !.pc = pc]

Stop(p, stage) == [Goto(p, "finish") EXCEPT !.result.stage = stage]

Begin(p, drift, dry) ==
  /\ At(p, "idle") /\ started < MaxRuns
  /\ started' = started + 1
  /\ LET history == LoadHistory
         result == [stage |-> IF ShouldRetrain(drift, history) THEN "assessed" ELSE "skipped",
                    started_at |-> now, dry_run |-> dry, drift |-> drift,
                    validation |-> "not run", worse |-> FALSE]
         trains == ShouldRetrain(drift, history) /\ ~ dry
     IN  run' = [run EXCEPT ![p] =
                   [pc |-> IF trains THEN "train" ELSE "finish",
                    result |-> result, history |-> history]]
  /\ alone' = (alone /\ \A q \in Runs : At(q, "idle"))
  /\ UNCHANGED <<now, file, log, crashes, torn>>

(* Whether the training subprocess exits with 0; then the model it leaves  *)
(* may still be worse than the baseline.                                   *)
_run_training == BOOLEAN

Train(p) ==
  /\ At(p, "train")
  /\ \E done \in _run_training, worse \in BOOLEAN :
       IF ~done THEN run' = [run EXCEPT ![p] = Stop(p, "failed")]
       ELSE run' = [run EXCEPT ![p] =
                    [Goto(p, "validate") EXCEPT !.result.stage = "trained",
                                                !.result.worse = worse]]
  /\ UNCHANGED <<now, file, log, started, crashes, alone, torn>>

_run_validation == {"passed", "failed", "no result"}

\* Mutant: a validation without a result lets the model through.
NotRefused(verdict) == verdict # "failed"

Accepted(verdict) == verdict = "passed"

(* validate_model() passes, fails, or raises.                              *)
Validate(p) ==
  /\ At(p, "validate")
  /\ \E verdict \in _run_validation :
       run' = [run EXCEPT ![p] =
                 [IF Accepted(verdict)
                    THEN [Goto(p, "compare") EXCEPT !.result.stage = "validated"]
                    ELSE Stop(p, "failed")
                  EXCEPT !.result.validation = verdict]]
  /\ UNCHANGED <<now, file, log, started, crashes, alone, torn>>

(* check_regression() is called without the metrics it requires: the call  *)
(* always raises, whatever the model is like.                              *)
Regression(worse) == "no result"

(* A regression check without a result does not stop the promotion.        *)
Compare(p) ==
  /\ At(p, "compare")
  /\ run' = [run EXCEPT ![p] =
               Stop(p, IF Regression(run[p].result.worse) = "failed"
                       THEN "failed" ELSE "promoted")]
  /\ UNCHANGED <<now, file, log, started, crashes, alone, torn>>

-----------------------------------------------------------------------------
(* _finish(): the file is truncated and written anew.                      *)

Finish(p) ==
  /\ At(p, "finish")
  /\ run' = [run EXCEPT ![p] = Goto(p, "write")]
  /\ file' = [parses |-> FALSE, results |-> <<>>]
  /\ UNCHANGED <<now, log, started, crashes, alone, torn>>

\* Mutant: the cut keeps the first results instead of the last.
KeepsTheOldest(history, result) ==
  LET all == Append(history, result) IN
  SubSeq(all, 1, IF Len(all) > Kept THEN Kept ELSE Len(all))

(* history[-100:]                                                          *)
Recorded(history, result) ==
  LET all == Append(history, result) IN
  SubSeq(all, IF Len(all) > Kept THEN Len(all) - Kept + 1 ELSE 1, Len(all))

Write(p) ==
  /\ At(p, "write")
  /\ file' = [parses |-> TRUE,
              results |-> Recorded(run[p].history, run[p].result)]
  /\ log' = Append(log, run[p].result)
  /\ run' = [run EXCEPT ![p] = NoRun]
  /\ UNCHANGED <<now, started, crashes, alone, torn>>

(* A run is killed: nothing of it is recorded, and in the moment it writes *)
(* the file goes with it.                                                  *)
Crash(p) ==
  /\ ~ At(p, "idle") /\ crashes < MaxCrashes
  /\ crashes' = crashes + 1
  /\ run' = [run EXCEPT ![p] = NoRun]
  /\ torn' = IF At(p, "write") THEN Len(log) ELSE torn
  /\ UNCHANGED <<now, file, log, started, alone>>

Tick ==
  /\ now < MaxTime
  /\ now' = now + 1
  /\ UNCHANGED <<run, file, log, started, crashes, alone, torn>>

Next ==
  \/ \E p \in Runs :
       \/ \E drift \in Drifts, dry \in BOOLEAN : Begin(p, drift, dry)
       \/ Train(p) \/ Validate(p) \/ Compare(p) \/ Finish(p) \/ Write(p)
       \/ Crash(p)
  \/ Tick

Spec == Init /\ [][Next]_vars

-----------------------------------------------------------------------------
(* Properties.                                                             *)

Starts(p) == run[p].pc = "idle" /\ run'[p].pc = "train"

(* The results a run can know of: of those that finished since the file    *)
(* was last destroyed, the newest Kept.                                    *)
Oldest == (IF torn > Len(log) - Kept THEN torn ELSE Len(log) - Kept) + 1

(* "Append, never overwrite" (retraining.py): whatever runs are killed, at *)
(* any point, the next one reads the last Kept results of those that       *)
(* finished since a kill last fell into a write, as long as runs come one  *)
(* after the other ("there is never a second writer", drift-cronjob.yaml). *)
HistoryIsKept ==
  alone /\ (\A p \in Runs : ~ At(p, "write")) => LoadHistory = SubSeq(log, Oldest, Len(log))

(* A model that was promoted is given its cooldown as long as its result   *)
(* is in the file, whatever was recorded since, skipped, dry, failed or    *)
(* killed; and there is "a second reading before acting on a moderate one" *)
(* (docs/TECHNICAL.md): the run recorded before has seen drift as well.    *)
TrainingIsDue ==
  [][alone' => \A p \in Runs : Starts(p) =>
       /\ \A i \in Oldest .. Len(log) :
            log[i].stage = "promoted" => now - log[i].started_at >= Cooldown
       /\ run'[p].result.drift = "moderate" =>
            log # <<>> /\ Last(log).drift # "none"]_vars

(* "no result promotes itself without passing validation": a promoted      *)
(* result has passed it, in a run that was not a dry one.                  *)
PromotionIsValidated ==
  \A i \in DOMAIN log :
    log[i].stage = "promoted" => log[i].validation = "passed" /\ ~ log[i].dry_run

(* "... and a regression check first": a model worse than the baseline is  *)
(* not promoted.                                                           *)
WorseIsRefused ==
  \A i \in DOMAIN log : log[i].stage = "promoted" => ~ log[i].worse
=============================================================================
