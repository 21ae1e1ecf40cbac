------------------------------ MODULE ABTest -------------------------------
(***************************************************************************)
(* The offline comparison of two models (models/validation/ab_test.py):    *)
(* the paired test and the verdict, exact over the integers.  The latency  *)
(* of the two and the number of classes they predict are inputs.           *)
(***************************************************************************)
EXTENDS Integers, FiniteSets

CONSTANTS
  SampleSizes,     \* sizes of the evaluation set
  MaxDisagreements \* bound: samples on which exactly one model is right

ASSUME ABTestAssumption ==
  SampleSizes \subseteq Nat \ {0} /\ MaxDisagreements \in Nat

(* What evaluate_models() counts: samples, those only the champion has     *)
(* right and those only the challenger has right, a model that raises      *)
(* being wrong; and whether the challenger's p95 is over the budget.       *)
Comparisons ==
  {t \in [n : SampleSizes, lost : 0 .. MaxDisagreements, won : 0 .. MaxDisagreements,
          slow : BOOLEAN] :
     t.lost + t.won <= t.n /\ t.lost + t.won <= MaxDisagreements}

(* A model: its classes, 0 if the registry does not say, the runtime asked *)
(* for, and the one it was loaded with, which may be a fallback.           *)
Contenders ==
  [classes : {0, 100, 200, 201, 1000}, asked : {"any", "onnx", "onnx_int8"},
   loaded : {"onnx", "onnx_int8"}]

-----------------------------------------------------------------------------
(* mcnemar_test() against alpha = 0.05                                     *)

Abs(x) == IF x < 0 THEN -x ELSE x

Choose(n, k) ==
  LET c[i \in 0 .. k] == IF i = 0 THEN 1 ELSE (c[i - 1] * (n - i + 1)) \div i IN c[k]

(* Outcomes of n fair coins with at most k heads.                          *)
Outcomes(n, k) ==
  LET sum[i \in 0 .. k] == Choose(n, i) + (IF i = 0 THEN 0 ELSE sum[i - 1]) IN sum[k]

(* binomtest(): twice the smaller tail is less than alpha.                 *)
ExactlySignificant(lost, won) ==
  40 * Outcomes(lost + won, IF lost < won THEN lost ELSE won) < 2 ^ (lost + won)

\* Mutant: the correction is taken off the difference, whoever is ahead.
SignedStatistic(lost, won) == (won - lost + 1) * (won - lost + 1)

(* The numerator of the chi-square with Yates' correction.                 *)
Statistic(lost, won) == (Abs(lost - won) - 1) * (Abs(lost - won) - 1)

(* 3.84146 is the quantile of chi-square at 1 - alpha.                     *)
Significant(lost, won) ==
  /\ lost + won # 0
  /\ IF lost + won < 25 THEN ExactlySignificant(lost, won)
                        ELSE 100000 * Statistic(lost, won) > 384146 * (lost + won)

-----------------------------------------------------------------------------
(* compare()                                                               *)

(* min_improvement is half a percentage point.                             *)
WorthShipping(t) == 200 * (t.won - t.lost) >= t.n

Winner(t) ==
  IF ~Significant(t.lost, t.won) THEN "tie"
  ELSE IF t.won > t.lost /\ WorthShipping(t) /\ ~t.slow THEN "challenger"
  ELSE "champion"

(* assert_comparable_label_spaces()                                        *)
Comparable(models, classes) ==
  LET sized == {m.classes : m \in models} \ {0} IN
  /\ \A n \in sized : classes <= n /\ n <= 2 * classes
  /\ \A n, k \in sized : n = k

(* build_predictor() takes no fallback for the runtime that was asked for. *)
AsAsked(model) == model.asked \in {"any", model.loaded}

(* main(): the evaluation set has 200 classes, however small the sample.   *)
ABMain(champion, challenger, t) ==
  IF Comparable({champion, challenger}, 200) /\ AsAsked(champion) /\ AsAsked(challenger)
  THEN [exit |-> 0, winner |-> Winner(t)]
  ELSE [exit |-> 1, winner |-> "none"]

-----------------------------------------------------------------------------
(* A challenger that wins would not lose by being better: with one more    *)
(* sample right, be it one the champion has right or one it has wrong, it  *)
(* still wins, also where the exact test gives way to the approximation    *)
(* (mcnemar_test(), compare()).  And it wins against a model of the same   *)
(* classes only, both in the runtime they were asked in.                   *)
BetterWins(champion, challenger, t) ==
  LET wins(outcome) == ABMain(champion, challenger, outcome).winner = "challenger" IN
  wins(t) =>
    /\ t.lost + t.won < t.n => wins([t EXCEPT !.won = @ + 1])
    /\ t.lost > 0 => wins([t EXCEPT !.lost = @ - 1])
    /\ Cardinality({champion.classes, challenger.classes} \ {0}) <= 1
    /\ \A m \in {champion, challenger} : m.asked = "onnx_int8" => m.loaded = "onnx_int8"
=============================================================================
