----------------------------- MODULE Regression ----------------------------
(***************************************************************************)
(* The comparison of a model with its recorded baseline                    *)
(* (models/validation/regression.py).  Values are integers, tolerances     *)
(* thousandths.                                                            *)
(***************************************************************************)
EXTENDS Integers, FiniteSets

CONSTANTS
  Metrics, \* names of metrics
  Values   \* values a metric may have; accuracies in percent

ASSUME RegressionAssumption == Values \subseteq Nat \ {0}

(* DEFAULT_TOLERANCES, for the metrics that are modelled.                  *)
DefaultTolerances ==
  [m \in {"accuracy", "top1", "top5", "p50_latency_ms", "p95_latency_ms",
          "p99_latency_ms", "mean_latency_ms", "size_mb"} |->
     CASE m = "accuracy" -> 5
       [] m \in {"top1", "top5"} -> 500
       [] m \in {"p50_latency_ms", "mean_latency_ms"} -> 250
       [] m = "p95_latency_ms" -> 300
       [] m = "p99_latency_ms" -> 400
       [] m = "size_mb" -> 100]

HigherIsBetter == {"accuracy", "top1", "top5", "throughput_rps", "throughput_ips"}

Latencies == {"p50_latency_ms", "p95_latency_ms", "p99_latency_ms", "mean_latency_ms"}

RelativeMetrics == Latencies \cup {"size_mb", "throughput_rps", "throughput_ips"}

-----------------------------------------------------------------------------
(* check_metric()                                                          *)

ToleranceOf(m) == IF m \in DOMAIN DefaultTolerances THEN DefaultTolerances[m] ELSE 100

(* The others are checked as lower-is-better, and the message says so.     *)
Recognised(m) == m \in HigherIsBetter \cup DOMAIN DefaultTolerances

\* Mutant: a rise is bad, whatever the metric.
Increase(m, baseline, current) == current - baseline

Worsening(m, baseline, current) ==
  IF m \in HigherIsBetter THEN baseline - current ELSE current - baseline

Limit(m, baseline) ==
  IF m \in RelativeMetrics THEN ToleranceOf(m) * baseline ELSE ToleranceOf(m)

Passed(m, baseline, current) == 1000 * Worsening(m, baseline, current) <= Limit(m, baseline)

-----------------------------------------------------------------------------
(* The store: an entry has the metrics and the machine they were measured  *)
(* on, of which processor, GPU and CPU count are compared.                 *)

NoBaseline == [none |-> TRUE]

Record(metrics, machine) == [metrics |-> metrics, environment |-> machine]

CheckRegression(baseline, current, machine, strict) ==
  IF baseline = NoBaseline
    THEN [passed |-> TRUE, checked |-> {}, warnings |-> {"no baseline"}]
    ELSE LET recorded == DOMAIN baseline.metrics
             mismatch == baseline.environment # machine
             skipped == IF mismatch /\ ~strict THEN Latencies ELSE {}
             checked == (recorded \cap DOMAIN current) \ skipped
         IN  [passed |-> /\ ~mismatch \/ ~strict
                         /\ \A m \in checked : Passed(m, baseline.metrics[m], current[m]),
              checked |-> checked,
              warnings |-> (recorded \ DOMAIN current)
                             \cup (IF mismatch /\ ~strict THEN {"hardware"} ELSE {})]

(* measure_model(): what the registry records of the model is put over     *)
(* what was measured; the 99th percentile takes a hundred iterations.      *)
MeasureModel(measured, registered, iterations) ==
  LET names == (DOMAIN measured \ (IF iterations < 100 THEN {"p99_latency_ms"} ELSE {}))
                 \cup DOMAIN registered IN
  [m \in names |-> IF m \in DOMAIN registered THEN registered[m] ELSE measured[m]]

(* main(), check and check-all: a model that cannot be measured is left    *)
(* out of the reports, and only a report that failed sets the exit code.   *)
ExitCode(reports) == IF \E r \in reports : ~r.passed THEN 1 ELSE 0

(* main(), record and then check, later and perhaps elsewhere.  Registered *)
(* metrics are the same at both times.                                     *)
RecordAndCheck(first, now, registered, strict) ==
  LET baseline == Record(MeasureModel(first.measured, registered, first.iterations), first.machine)
      current == MeasureModel(now.measured, registered, now.iterations)
  IN  CheckRegression(baseline, current, now.machine, strict)

-----------------------------------------------------------------------------
(* A check that passes without a warning has seen everything: no metric    *)
(* that the tool measured and recorded is worse by more than its           *)
(* tolerance.  Metrics the registry records are compared as registered.    *)
CleanMeansNoWorse(first, now, registered, strict) ==
  LET report == RecordAndCheck(first, now, registered, strict)
      before == first.measured
      after == now.measured
      recorded == IF first.iterations < 100 THEN DOMAIN before \ {"p99_latency_ms"}
                                            ELSE DOMAIN before
      share(m) == CASE m \in {"p50_latency_ms", "mean_latency_ms"} -> 25
                    [] m = "p95_latency_ms" -> 30
                    [] m = "p99_latency_ms" -> 40
                    [] OTHER -> 10
  IN  ExitCode({report}) = 0 /\ report.warnings = {} =>
        \A m \in recorded \ DOMAIN registered :
          /\ m \in DOMAIN after
          /\ m \in Latencies \cup {"size_mb"} =>
               100 * after[m] <= (100 + share(m)) * before[m]
          /\ m \in {"throughput_ips", "throughput_rps"} =>
               100 * after[m] >= (100 - share(m)) * before[m]
          /\ m \in {"top1", "top5"} => 2 * (before[m] - after[m]) <= 1
=============================================================================
