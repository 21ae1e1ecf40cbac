---------------------------- MODULE DriftReport ----------------------------
(***************************************************************************)
(* Drift detection (models/validation/drift.py) from the inference log     *)
(* (DatabaseService.recent_predictions), or from two directories of        *)
(* images, to what decide() of the retraining pipeline takes from the      *)
(* report.  What the tests find, significance and effect size, is an       *)
(* input; effect sizes are in thousandths.                                 *)
(***************************************************************************)
EXTENDS Integers, Sequences, FiniteSets

CONSTANTS
  RowLimit,     \* limit of recent_predictions(): 10 000
  MinSamples,   \* samples a test needs on either side: 20
  ReferenceDays,\* reference_days; current_days is 1
  MaxRows       \* bound: rows of the log

ASSUME DriftAssumption ==
  /\ {RowLimit, MinSamples, ReferenceDays, MaxRows} \subseteq Nat
  /\ MinSamples > 0 /\ ReferenceDays > 0

Severities == {"none", "low", "moderate", "high"}
Samples == [significant : BOOLEAN, effect : Nat]

-----------------------------------------------------------------------------
(* The tests                                                               *)

(* _severity_from_effect(): thresholds is <<low, moderate, high>>.         *)
SeverityFromEffect(effect, thresholds) ==
  IF effect >= thresholds[3] THEN "high"
  ELSE IF effect >= thresholds[2] THEN "moderate"
  ELSE IF effect >= thresholds[1] THEN "low"
  ELSE "none"

DriftResult(feature, drifted, severity, effect) ==
  [feature |-> feature, drifted |-> drifted, severity |-> severity, effect_size |-> effect]

(* Not enough data, or a single category: nothing to compare.              *)
NothingToCompare(feature) == DriftResult(feature, FALSE, "none", 0)

(* ks_drift() and chi_square_drift(): the effect counts if significant.    *)
SeverityOf(s, thresholds) ==
  IF s.significant THEN SeverityFromEffect(s.effect, thresholds) ELSE "none"

KsDrift(feature, enough, s) ==
  IF enough
    THEN DriftResult(feature, s.significant /\ s.effect >= 100,
                     SeverityOf(s, <<100, 200, 300>>), s.effect)
    ELSE NothingToCompare(feature)

ChiSquareDrift(feature, enough, categories, s) ==
  IF enough /\ categories > 1
    THEN DriftResult(feature, s.significant /\ s.effect >= 100,
                     SeverityOf(s, <<100, 200, 350>>), s.effect)
    ELSE NothingToCompare(feature)

(* The index has no significance and drifts from its moderate level.       *)
PopulationStabilityIndex(feature, enough, effect) ==
  IF enough
    THEN DriftResult(feature, effect >= 200,
                     SeverityFromEffect(effect, <<100, 200, 250>>), effect)
    ELSE NothingToCompare(feature)

-----------------------------------------------------------------------------
(* detect_drift() and decide()                                             *)

Some(results, severity) == \E r \in results : r.severity = severity

(* The worst of the results.                                               *)
OverallSeverity(results) ==
  IF Some(results, "high") THEN "high"
  ELSE IF Some(results, "moderate") THEN "moderate"
  ELSE IF Some(results, "low") THEN "low"
  ELSE "none"

Report(results) ==
  [results |-> results, overall_severity |-> OverallSeverity(results),
   drifted |-> \E r \in results : r.drifted]

(* The tests of reference and current observations, as many as given, that *)
(* are not empty; images are also compared by their features.  What the    *)
(* tests find is `found`: of the confidences and labels, and of a feature. *)
detect_drift(reference, current, features, found) ==
  LET enough == current >= MinSamples /\ reference >= MinSamples
      observed == {KsDrift("confidence", enough, found.ks),
                   PopulationStabilityIndex("confidence", enough, found.psi),
                   ChiSquareDrift("predicted_label", enough, found.categories, found.chi)}
  IN  Report((IF current = 0 \/ reference = 0 THEN {} ELSE observed)
               \cup {KsDrift(f, enough, found.feature[f]) : f \in features})

(* What decide() counts, with its floor for the effect size.               *)
DriftedFeatures(report) ==
  {r.feature : r \in {r \in report.results : r.drifted /\ r.effect_size >= 100}}

(* decide() looks no further without one.                                  *)
NoDrift(report) == ~report.drifted \/ DriftedFeatures(report) = {}

-----------------------------------------------------------------------------
(* detect_drift_from_database()                                            *)

(* A row of inference_log: its age in days, whether it is of the model     *)
(* asked for, and whether it has a label and a confidence.                 *)
Rows == [age : 0 .. ReferenceDays + 1, wanted : BOOLEAN, scored : BOOLEAN]

(* Logs are kept newest first, the order of the query.                     *)
Ordered(log) == \A i \in 2 .. Len(log) : log[i - 1].age <= log[i].age
Logs == {log \in UNION {[1 .. n -> Rows] : n \in 0 .. MaxRows} : Ordered(log)}

Take(rows, n) == SubSeq(rows, 1, IF n < Len(rows) THEN n ELSE Len(rows))

\* Mutant: the limit is applied to the log, the filters to what is left.
LimitedFirst(log, days, up) ==
  IF up THEN SelectSeq(Take(log, RowLimit), LAMBDA r : r.wanted /\ r.age < days) ELSE <<>>

(* recent_predictions(); it is empty while the database is unavailable.    *)
RecentPredictions(log, days, up) ==
  IF up THEN Take(SelectSeq(log, LAMBDA r : r.wanted /\ r.age < days), RowLimit) ELSE <<>>

Scored(rows) == SelectSeq(rows, LAMBDA r : r.scored)

(* The second query finds `late` rows that were written after the first.   *)
NewRows(late) == [i \in 1 .. late |-> [age |-> 0, wanted |-> TRUE, scored |-> TRUE]]

DetectDriftFromDatabase(log, late, upFirst, upSecond, found) ==
  LET current == Scored(RecentPredictions(log, 1, upFirst))
      recent == RecentPredictions(NewRows(late) \o log, 1 + ReferenceDays, upSecond)
      reference == Scored(SelectSeq(recent, LAMBDA r : r.age >= 1))
  IN  detect_drift(Len(reference), Len(current), {}, found)

-----------------------------------------------------------------------------
(* detect_drift_between_dirs() and main(): a directory is the number of    *)
(* its images, in the order of their names, or NotGiven.                   *)

NotGiven == -1

image_statistics ==
  {"mean_brightness", "std_brightness", "mean_red", "mean_green", "mean_blue", "contrast",
   "edge_density", "aspect_ratio", "pixels"}

(* Which images of a directory are looked at.                              *)
ImageFiles(images, limit, offset) == {i \in 1 .. images : offset < i /\ i <= offset + limit}

DetectDriftBetweenDirs(reference, current, found) ==
  detect_drift(Cardinality(reference), Cardinality(current), image_statistics, found)

(* The exit code, and the report that is written.                          *)
DriftMain(dirs, samples, offset, found, FromDatabase) ==
  LET reference == ImageFiles(dirs.reference, samples, 0)
      current == ImageFiles(dirs.current, samples, offset) IN
  IF dirs.reference = NotGiven /\ dirs.current = NotGiven
    THEN [exit |-> 0, report |-> FromDatabase]
  ELSE IF NotGiven \in {dirs.reference, dirs.current} \/ {} \in {reference, current}
    THEN [exit |-> 2]
  ELSE [exit |-> 0, report |-> DetectDriftBetweenDirs(reference, current, found)]

-----------------------------------------------------------------------------
Count(log, Which(_)) == Len(SelectSeq(log, Which))

(* Both windows have enough results, and the rows of the current one, with *)
(* those of no result and those that came late, leave room for MinSamples. *)
BothWindowsFit(log, late) ==
  LET current == Count(log, LAMBDA r : r.wanted /\ r.age = 0)
      reference(r) == r.wanted /\ r.age \in 1 .. ReferenceDays
      blank == Count(log, LAMBDA r : reference(r) /\ ~r.scored) IN
  /\ Count(log, LAMBDA r : r.wanted /\ r.age = 0 /\ r.scored) >= MinSamples
  /\ Count(log, LAMBDA r : reference(r) /\ r.scored) >= MinSamples
  /\ current + late + blank + MinSamples <= RowLimit

Quiet == [significant |-> FALSE, effect |-> 0]
NothingFound == [ks |-> Quiet, psi |-> 0, categories |-> 1, chi |-> Quiet,
                 feature |-> [f \in image_statistics |-> Quiet]]

Reported(report) == report.overall_severity \in {"moderate", "high"} /\ ~NoDrift(report)

(* A clear shift between the two windows reaches the pipeline: its report  *)
(* is moderate at least and decide() finds a feature to act on, whatever   *)
(* other rows are in the log, as long as the query has room for both       *)
(* windows (drift.py, db_service.py, retraining.py).                       *)
ShiftIsReported(log, late, upFirst, upSecond, shift) ==
  LET found == [NothingFound EXCEPT !.ks = shift]
      none == [reference |-> NotGiven, current |-> NotGiven]
      report == DetectDriftFromDatabase(log, late, upFirst, upSecond, found) IN
  upFirst /\ upSecond /\ BothWindowsFit(log, late) =>
    Reported(DriftMain(none, MinSamples, 0, found, report).report)

(* So does one of a single feature of the images, if enough of them are    *)
(* left behind the offset; and an offset as large as the sample makes the  *)
(* control sample of one directory, which has no image of the other.       *)
ImageShiftIsReported(dirs, samples, offset, feature, shift) ==
  LET found == [NothingFound EXCEPT !.feature[feature] = shift]
      run == DriftMain(dirs, samples, offset, found, [results |-> {}]) IN
  /\ samples >= MinSamples /\ dirs.reference >= MinSamples
       /\ dirs.current >= offset + MinSamples =>
         run.exit = 0 /\ Reported(run.report)
  /\ offset >= samples =>
       ImageFiles(dirs.reference, samples, 0) \cap ImageFiles(dirs.reference, samples, offset) = {}
=============================================================================
