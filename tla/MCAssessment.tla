---------------------------- MODULE MCAssessment ---------------------------
(* The pipeline together with the tools of models/validation.  The tools   *)
(* keep no state between calls, so a behaviour either runs the pipeline or *)
(* gives one of the tools one input (a bound on behaviours, not on inputs).*)
EXTENDS MCRetraining, DriftReport, ABTest, Regression

CONSTANT BatchSize
VARIABLE input

Validation == INSTANCE ModelValidation
ASSUME ValidationAssumption == Validation!ValidationAssumption

NoInput == [tool |-> "none"]

Logged ==
  [tool : {"drift"}, log : Logs, late : 0 .. 2, upFirst : BOOLEAN, upSecond : BOOLEAN]
Pictured ==
  [tool : {"drift of images"}, samples : 0 .. 4, offset : 0 .. 4, feature : image_statistics,
   dirs : [reference : {NotGiven} \cup 0 .. 8, current : {NotGiven} \cup 0 .. 8]]

Equals == [champion |-> [classes |-> 200, asked |-> "any", loaded |-> "onnx"],
           challenger |-> [classes |-> 200, asked |-> "onnx_int8", loaded |-> "onnx_int8"]]
Compared ==
  [tool : {"ab_test"}, comparison : Comparisons, models : {Equals}]
    \cup [tool : {"ab_test"}, comparison : {[n |-> 100, lost |-> 2, won |-> 20, slow |-> FALSE]},
          models : [champion : Contenders, challenger : Contenders]]

Measured ==
  [tool : {"regression"}, recorded : SUBSET Metrics, measured : [Metrics -> Values],
   registered : SUBSET {"top1"}, elsewhere : BOOLEAN, strict : BOOLEAN,
   iterations : [first : {50, 100}, now : {50, 100}]]

(* What may be wrong with a model beyond what its outputs show.            *)
Defects == {"none", "unregistered", "artifacts", "load", "fixed batch", "malformed",
            "inference errors", "chance"}
Outputs == {Validation!NaN, 0, 1}
Answers == [confidence : {0, 10, 55, 60, 95, 100}, correct : BOOLEAN]

Steady == [repeated |-> <<1, 1, 1>>, single |-> 1, batched |-> [i \in 1 .. BatchSize |-> 1],
           last |-> 1, defect |-> "none", slow |-> 0, flips |-> 0, samples |-> 60,
           answer |-> [confidence |-> 95, correct |-> TRUE], classifier |-> TRUE]
Candidates ==
  {[Steady EXCEPT !.repeated = r, !.single = o, !.batched = b, !.last = l] :
     r \in [1 .. 3 -> Outputs], o \in Outputs, b \in [1 .. BatchSize -> Outputs], l \in Outputs}
  \cup {[Steady EXCEPT !.defect = d, !.slow = s, !.flips = f, !.samples = n, !.answer = a,
                       !.classifier = c] :
           d \in Defects, s \in 0 .. 2, f \in {0, 3, 4}, n \in {20, 60}, a \in Answers,
           c \in BOOLEAN}
Validated == [tool : {"validate"}, model : Candidates, samples : BOOLEAN]
Calibrated == [tool : {"calibration"}, answers : [1 .. 3 -> Answers]]

MCInit == Init /\ input = NoInput

Ask ==
  /\ input = NoInput /\ started = 0 /\ now = 0
  /\ input' \in Logged \cup Pictured \cup Compared \cup Measured \cup Validated \cup Calibrated
  /\ UNCHANGED vars

MCNext ==
  \/ Ask
  \/ input = NoInput /\ Next /\ UNCHANGED input

MCSpec == MCInit /\ [][MCNext]_<<vars, input>>

(* A clear shift in the log reaches decide() whenever both windows fit     *)
(* the query, and one in the images whenever there are enough (drift.py,   *)
(* db_service.py, retraining.py).                                          *)
ClearShiftIsReported ==
  LET shift == [significant |-> TRUE, effect |-> 250] IN
  /\ input.tool = "drift" =>
       ShiftIsReported(input.log, input.late, input.upFirst, input.upSecond, shift)
  /\ input.tool = "drift of images" =>
       ImageShiftIsReported(input.dirs, input.samples, input.offset, input.feature, shift)

(* Being right once more never costs a challenger its win (ab_test.py).    *)
BetterIsNeverRefused ==
  input.tool = "ab_test" =>
    BetterWins(input.models.champion, input.models.challenger, input.comparison)

(* A regression check that passes without a warning has compared all that  *)
(* it measures (regression.py); the baseline is 10 in every metric.        *)
CleanCheckIsComplete ==
  input.tool = "regression" =>
    CleanMeansNoWorse(
      [measured |-> [m \in input.recorded |-> 10], iterations |-> input.iterations.first,
       machine |-> "here"],
      [measured |-> input.measured, iterations |-> input.iterations.now,
       machine |-> IF input.elsewhere THEN "elsewhere" ELSE "here"],
      [m \in input.registered |-> 10], input.strict)

(* What passes validation gave one answer where answers were compared, the *)
(* places that max() steps over excepted, and the calibration error hides  *)
(* no gap between confidence and accuracy (validate.py).                   *)
ValidationIsHonest ==
  /\ input.tool = "validate" => Validation!PassMeansOneNumber(input.model, input.samples)
  /\ input.tool = "calibration" => Validation!ErrorCoversTheGap(input.answers)
=============================================================================
