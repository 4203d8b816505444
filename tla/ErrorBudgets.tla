---------------------------- MODULE ErrorBudgets ----------------------------
(***************************************************************************)
(* The SLOs: samples come in, some of them late, and SloCalculator and     *)
(* FreezePolicy say what the error budget of each SLO allows today.        *)
(* Fractions are exact here; an objective is in thousandths.               *)
(***************************************************************************)
EXTENDS Integers, FiniteSetsExt, Functions, Bags

CONSTANTS
  Watched,             \* names of the SLOs that the calculator holds
  Days,                \* days on which something happens
  Loads,               \* sizes of a batch of equal samples
  MaxBatches,          \* bound: batches of samples
  Unmeasured           \* no value in a field of a sample

VARIABLES
  slo_now,             \* the day of evaluation
  samples,             \* bag of the samples taken
  batches,             \* bounds the batches
  freeze,              \* the last decision for each SLO
  freezeBefore         \* history: the decision before

budgetVars == <<slo_now, samples, batches, freeze, freezeBefore>>

Latency(threshold) ==
  [kind |-> "latency", objective |-> 950, window |-> 30, threshold_ms |-> threshold]

DEFAULT_SLOS ==
  [api_availability               |-> [kind |-> "availability", objective |-> 999, window |-> 30],
   pr_analysis_latency            |-> Latency(60000),
   test_plan_generation_latency   |-> Latency(90000),
   api_smoke_latency              |-> Latency(180000),
   ui_smoke_latency               |-> Latency(600000),
   failure_classification_latency |-> Latency(60000),
   evidence_report_latency        |-> Latency(30000),
   eval_success_rate              |-> [kind |-> "success_rate", objective |-> 950, window |-> 7]]

ASSUME BudgetAssumption ==
  /\ Watched \subseteq DOMAIN DEFAULT_SLOS
  /\ Days \subseteq Nat /\ 0 \in Days /\ Loads \subseteq Nat \ {0} /\ MaxBatches \in Nat

(* What a sample of an SLO may have measured, on each side of its limit;   *)
(* a producer may leave all three fields out.                              *)
Measured(slo) ==
  LET none == [status_code |-> Unmeasured, latency_ms |-> Unmeasured, success |-> Unmeasured] IN
  {none} \union
  CASE slo.kind = "availability" -> {[none EXCEPT !.status_code = c] : c \in {499, 500}}
    [] slo.kind = "latency"      -> {[none EXCEPT !.latency_ms = slo.threshold_ms + d] : d \in {0, 1}}
    [] OTHER                     -> {[none EXCEPT !.success = s] : s \in BOOLEAN}

RequestSample ==
  UNION {[slo_name : {n}, observed_at : Days, of : Measured(DEFAULT_SLOS[n])] : n \in Watched}

(* outcome_for() raises for a sample without the field of its kind.        *)
Tagged(sample, slo) ==
  CASE slo.kind = "availability" -> sample.of.status_code # Unmeasured
    [] slo.kind = "latency"      -> sample.of.latency_ms # Unmeasured
    [] OTHER                     -> sample.of.success # Unmeasured

IsGood(sample, slo) ==
  CASE slo.kind = "availability" -> sample.of.status_code \in 100..499
    [] slo.kind = "latency"      -> sample.of.latency_ms <= slo.threshold_ms
    [] OTHER                     -> sample.of.success

-----------------------------------------------------------------------------
(* (A definition whose name ends in _Mutant is the next one with a slip in *)
(* it and no part of the model.)                                           *)
Counted_Mutant(n) == {s \in BagToSet(samples) : s.slo_name = n}
Counted(n) ==
  {s \in BagToSet(samples) :
     s.slo_name = n /\ s.observed_at >= slo_now - DEFAULT_SLOS[n].window}

(* How many of the samples taken are in S. *)
Total(S) == SumFunctionOnSet(samples, S)

(* What remains of the budget, of what the SLO allows for so many samples; *)
(* no samples comply with any objective.                                   *)
from_compliance(slo, good, bad) ==
  LET total   == good + bad
      allowed == total * (1000 - slo.objective)
  IN  IF total = 0 THEN [remaining |-> 1, allowed |-> 1]
      ELSE [remaining |-> Max({0, allowed - 1000 * bad}), allowed |-> allowed]

decide(budget) ==
  IF budget.remaining = 0 THEN "hard_freeze"
  ELSE IF 4 * budget.remaining < budget.allowed THEN "soft_freeze"
  ELSE IF 2 * budget.remaining < budget.allowed THEN "watch"
  ELSE "normal"

evaluate_one(n) ==
  LET slo  == DEFAULT_SLOS[n]
      good == Total({s \in Counted(n) : IsGood(s, slo)})
      bad  == Total(Counted(n)) - good
  IN  [at |-> slo_now, good |-> good, bad |-> bad, level |-> decide(from_compliance(slo, good, bad))]

-----------------------------------------------------------------------------
Untouched == [n \in Watched |-> [at |-> 0, good |-> 0, bad |-> 0, level |-> "normal"]]

BudgetInit ==
  /\ slo_now = 0 /\ samples = EmptyBag /\ batches = 0
  /\ freeze = Untouched /\ freezeBefore = Untouched

(* A producer hands in samples of today or of a day before.                *)
Observe(sample, load) ==
  /\ batches < MaxBatches /\ sample.observed_at <= slo_now
  /\ samples' = samples (+) [s \in {sample} |-> load]
  /\ batches' = batches + 1
  /\ UNCHANGED <<slo_now, freeze, freezeBefore>>

(* evaluate() scores every SLO or, if a sample in a window raises, none.   *)
Evaluate ==
  /\ \A n \in Watched : \A s \in Counted(n) : Tagged(s, DEFAULT_SLOS[n])
  /\ freeze' = [n \in Watched |-> evaluate_one(n)] /\ freezeBefore' = freeze
  /\ UNCHANGED <<slo_now, samples, batches>>

WindowMoves ==
  /\ slo_now' \in {d \in Days : d > slo_now}
  /\ UNCHANGED <<samples, batches, freeze, freezeBefore>>

BudgetNext ==
  \/ \E sample \in RequestSample, load \in Loads : Observe(sample, load)
  \/ Evaluate \/ WindowMoves

BudgetSpec == BudgetInit /\ [][BudgetNext]_budgetVars

-----------------------------------------------------------------------------
BudgetTypeOK ==
  /\ slo_now \in Days /\ batches \in 0..MaxBatches
  /\ BagToSet(samples) \subseteq RequestSample
  /\ \A n \in Watched : freeze[n].good \in Nat /\ freeze[n].bad \in Nat

Severity == [normal |-> 0, watch |-> 1, soft_freeze |-> 2, hard_freeze |-> 3]

(* A freeze eases only if good samples came in or bad ones have left the   *)
(* window, and tightens only for bad samples more or good ones fewer: what *)
(* belongs to another SLO does neither.  There is no freeze without a bad  *)
(* sample of the SLO's own in the window, and the last of the budget is    *)
(* spent once the bad samples are as many as the objective allows.         *)
FreezeEarned ==
  \A n \in Watched :
    LET now == freeze[n]  before == freezeBefore[n] IN
    /\ Severity[now.level] < Severity[before.level] => now.good > before.good \/ now.bad < before.bad
    /\ Severity[now.level] > Severity[before.level] => now.good < before.good \/ now.bad > before.bad
    /\ now.level # "normal" =>
         \E s \in BagToSet(samples) :
           /\ s.slo_name = n /\ s.observed_at \in (now.at - DEFAULT_SLOS[n].window)..now.at
           /\ Tagged(s, DEFAULT_SLOS[n]) /\ ~IsGood(s, DEFAULT_SLOS[n])
    /\ now.level = "hard_freeze" <=>
         /\ now.bad > 0
         /\ now.good * 1000 <= DEFAULT_SLOS[n].objective * (now.good + now.bad)
=============================================================================
