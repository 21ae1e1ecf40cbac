-------------------------- MODULE ModelValidation --------------------------
(***************************************************************************)
(* The validation of a registered model (models/validation/validate.py):   *)
(* which checks run, what they compare, and the verdict.  An output of the *)
(* model is a number or NaN, which no comparison finds above, below or     *)
(* within anything.                                                        *)
(***************************************************************************)
EXTENDS Integers, Sequences
LOCAL INSTANCE SequencesExt

CONSTANTS
  BatchSize \* images of the batched pass: 8

(* MCAssessment assumes it of its instance.                                *)
ValidationAssumption == BatchSize \in Nat \ {0}

NaN == -1
(* A model m is known by the outputs that the checks look at: repeated, of *)
(* the same sample three times, single and batched, alone and in every     *)
(* place of a batch, and last, once more; by how many of the 30 timed      *)
(* passes were slow, how many of 20 predictions noise has flipped, one of  *)
(* its samples, which are all alike, whether it is a classifier, and what  *)
(* else is wrong with it.                                                  *)
Result(passed, severity) == [passed |-> passed, severity |-> severity]

-----------------------------------------------------------------------------
Difference(x, y) ==
  IF NaN \in {x, y} THEN NaN ELSE IF x >= y THEN x - y ELSE y - x

(* Python's max(): a later element replaces an earlier one it is above.    *)
Above(x, y) == NaN \notin {x, y} /\ x > y
Largest(list) == FoldLeft(LAMBDA m, x : IF Above(x, m) THEN x ELSE m, Head(list), Tail(list))

\* Mutant: a difference fails if it is above the tolerance, which NaN is not.
NotAbove(difference) == difference <= 0

Within(difference) == difference # NaN /\ difference <= 0

Differences(output, others) == [i \in DOMAIN others |-> Difference(output, others[i])]

check_determinism(m) ==
  Result(Within(Largest(Tail(Differences(m.repeated[1], m.repeated)))), "critical")
check_batch_invariance(m) ==
  Result(m.defect # "fixed batch" /\ Within(Largest(Differences(m.single, m.batched))), "critical")
check_output_sanity(m) == Result(m.last # NaN /\ m.defect # "malformed", "critical")

check_artifacts(m) == Result(m.defect # "artifacts", "critical")

(* Three in twenty may change under noise.                                 *)
check_robustness(m) == Result(m.flips * 100 <= 15 * 20, "warning")

(* The 95th percentile of 30 is the second largest: one may be slow.       *)
check_latency(m) == Result(m.slow < 30 - (30 * 95) \div 100, "critical")

-----------------------------------------------------------------------------
(* Calibration.  Confidences are percentages, ten bins wide.               *)

InBin(confidence, bin) ==
  (confidence > 10 * bin \/ (bin = 0 /\ confidence = 0)) /\ confidence <= 10 * bin + 10

Magnitude(x) == IF x < 0 THEN -x ELSE x

(* How much more often than its confidence says the model is right.        *)
Surplus(answers) ==
  FoldLeft(LAMBDA sum, a : sum + (IF a.correct THEN 100 ELSE 0) - a.confidence, 0, answers)

(* In percent of one answer, not divided by their number.                  *)
expected_calibration_error(answers) ==
  FoldLeft(LAMBDA sum, bin :
             sum + Magnitude(Surplus(SelectSeq(answers, LAMBDA a : InBin(a.confidence, bin - 1)))),
           0, [bin \in 1 .. 10 |-> bin])

check_calibration(m) ==
  Result(m.samples < 50 \/ expected_calibration_error(<<m.answer>>) <= 15, "warning")

-----------------------------------------------------------------------------
(* validate_model()                                                        *)

(* The accuracy is measured on samples whose labels fit the model:         *)
(* the classes of the evaluation set are one more than its highest label.  *)
LabelSpaceFits(classes, labels) ==
  LET used == 1 + (CHOOSE l \in labels : \A k \in labels : k <= l) IN
  classes = 0 \/ (used <= classes /\ classes <= 2 * used)

(* The checks of the loaded model; noise and accuracy are a classifier's,  *)
(* and the accuracy is critical only when it is no better than chance.     *)
Checks(m, measured) ==
  {check_artifacts(m), check_determinism(m), check_batch_invariance(m),
   check_output_sanity(m), check_latency(m)}
    \cup (IF m.classifier THEN {check_robustness(m)} ELSE {})
    \cup (IF m.classifier /\ measured
          THEN {Result(m.defect # "inference errors", "critical"),
                Result(m.defect # "chance", "critical"), check_calibration(m)}
          ELSE {})

_finalise(checks) ==
  IF Result(FALSE, "critical") \in checks THEN "failed" ELSE "passed"

(* With the early returns; a model that does not load raises instead.      *)
ValidateModel(m, measured) ==
  CASE m.defect = "unregistered" -> "failed"
    [] m.defect = "artifacts" -> _finalise({check_artifacts(m)})
    [] m.defect = "load" -> "no result"
    [] OTHER -> _finalise(Checks(m, measured))

(* The tool validates one model after the other, and measures the accuracy *)
(* only if the samples can be loaded.  What raises ends it without a       *)
(* report on any.                                                          *)
ValidateAll(models, asked, found) ==
  LET results == {ValidateModel(m, asked /\ found) : m \in models} IN
  [report |-> "no result" \notin results,
   exit |-> IF results \subseteq {"passed"} THEN 0 ELSE 1]

-----------------------------------------------------------------------------
(* A model that passes gave one and the same number wherever its outputs   *)
(* were compared.  Left out: a NaN behind the first of several             *)
(* differences, which max() steps over, so that a model that answers NaN   *)
(* the third time, or in a later place of a batch, passes.                 *)
PassMeansOneNumber(m, measured) ==
  ValidateAll({m}, measured, TRUE).exit = 0 =>
    LET same(outputs) == \A x, y \in outputs : x = y
        seen(outputs, from) == {outputs[i] : i \in from .. Len(outputs)} \ {NaN}
    IN  /\ NaN \notin {m.repeated[1], m.repeated[2], m.single, m.batched[1], m.last}
        /\ same(seen(m.repeated, 1))
        /\ same({m.single} \cup seen(m.batched, 1))
        /\ m.defect \notin {"unregistered", "artifacts", "load", "fixed batch", "malformed"}
        /\ m.slow <= 1

(* The calibration error is no less than the gap between the accuracy and  *)
(* the mean confidence, and nothing if every answer is sure and right: no  *)
(* answer is lost between two bins, nor counted in both.                   *)
ErrorCoversTheGap(answers) ==
  LET ece == expected_calibration_error(answers) IN
  /\ ece >= Magnitude(Surplus(answers))
  /\ ece <= FoldLeft(LAMBDA sum, a : sum + Magnitude(Surplus(<<a>>)), 0, answers)
=============================================================================
