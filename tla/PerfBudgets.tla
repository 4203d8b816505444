----------------------------- MODULE PerfBudgets -----------------------------
(***************************************************************************)
(* The latency budgets that a load test is held to, beside the SLOs that   *)
(* they mirror.  A run stands for the set of the latencies it took, since  *)
(* a verdict asks for the worst of them only.                              *)
(***************************************************************************)
EXTENDS ErrorBudgets

CONSTANTS
  Capabilities,        \* capabilities that a load test calls
  NotRun               \* no run

VARIABLES
  taken,               \* the latencies of the run, by capability
  perf_report          \* its report, once it is over

perfVars == <<taken, perf_report>>

Ceiling ==
  [pr_analysis |-> 60000, test_plan_generation |-> 90000, api_smoke |-> 180000,
   ui_smoke |-> 600000, failure_classification |-> 60000, evidence_report |-> 30000]

warn_threshold_ms(c) == (Ceiling[c] * 80) \div 100

(* Latencies on each side of the two limits, of a capability with none     *)
(* anything.                                                               *)
Latencies(c) ==
  IF c \in DOMAIN Ceiling
  THEN {warn_threshold_ms(c), warn_threshold_ms(c) + 1, Ceiling[c], Ceiling[c] + 1}
  ELSE {1}

verdict_for_Mutant(c, raw) ==
  IF \E t \in raw : t > Ceiling[c] + 1 THEN "fail"
  ELSE IF \E t \in raw : t > warn_threshold_ms(c) THEN "warn" ELSE "pass"
verdict_for(c, raw) ==
  IF \E t \in raw : t > Ceiling[c] THEN "fail"
  ELSE IF \E t \in raw : t > warn_threshold_ms(c) THEN "warn" ELSE "pass"

(* evaluate_perf_run() skips what has no budget.                           *)
evaluate_perf_run(samples_by_capability) ==
  [c \in DOMAIN samples_by_capability \intersect DOMAIN Ceiling |->
     verdict_for(c, samples_by_capability[c])]

overall_verdict(report) ==
  LET verdicts == {report[c] : c \in DOMAIN report} IN
  IF "fail" \in verdicts THEN "fail" ELSE IF "warn" \in verdicts THEN "warn" ELSE "pass"

-----------------------------------------------------------------------------
PerfInit == taken = [c \in Capabilities |-> {}] /\ perf_report = NotRun

Call(c, latency) ==
  /\ perf_report = NotRun
  /\ taken' = [taken EXCEPT ![c] = @ \union {latency}] /\ UNCHANGED perf_report

Report ==
  /\ perf_report = NotRun
  /\ perf_report' = [overall |-> overall_verdict(evaluate_perf_run(taken))] /\ UNCHANGED taken

PerfNext == Report \/ \E c \in Capabilities : \E latency \in Latencies(c) : Call(c, latency)

PerfSpec == PerfInit /\ [][PerfNext]_perfVars

-----------------------------------------------------------------------------
PerfTypeOK ==
  /\ \A c \in Capabilities : taken[c] \subseteq Latencies(c)
  /\ perf_report # NotRun => perf_report.overall \in {"pass", "warn", "fail"}

SloOf ==
  [pr_analysis |-> "pr_analysis_latency", test_plan_generation |-> "test_plan_generation_latency",
   api_smoke |-> "api_smoke_latency", ui_smoke |-> "ui_smoke_latency",
   failure_classification |-> "failure_classification_latency",
   evidence_report |-> "evidence_report_latency"]

(* A run fails exactly if a sample of it, taken as one of the SLO of the   *)
(* same capability, would use up error budget: the two tables and the two  *)
(* comparisons agree, each of the capabilities having its SLO.             *)
PerfMirrorsSlo ==
  perf_report # NotRun =>
    (perf_report.overall = "fail" <=>
       \E c \in DOMAIN taken \intersect DOMAIN Ceiling : \E t \in taken[c] :
         ~IsGood([of |-> [latency_ms |-> t]], DEFAULT_SLOS[SloOf[c]]))

BudgetsKept == FreezeEarned /\ PerfMirrorsSlo
=============================================================================
