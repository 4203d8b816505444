----------------------------- MODULE ReleaseRisk -----------------------------
(***************************************************************************)
(* ReleaseRiskScorer over the ten features of a release candidate, as the  *)
(* scoring step of a workflow runs it each time the features have changed. *)
(* Fractions are in units of 1/10000, the precision of a contribution.     *)
(***************************************************************************)
EXTENDS Integers, FiniteSetsExt, Functions

CONSTANTS
  Base,                \* the features a workflow starts with
  Inputs,              \* values that an input may take on: a set for each
  Unscored             \* no score

VARIABLES
  features,            \* shared["risk_features"]
  risk_score,          \* shared["risk_score"], once the step has run on the features
  scoredBefore         \* history: the features of the last score, and that score

riskVars == <<features, risk_score, scoredBefore>>

Unit == 10000

Ownership == {"team_owned", "solo_owner", "unowned"}
Security  == {"none", "low", "medium", "high"}
RiskFeatures ==
  [total_tests : Nat, passed_tests : Nat, failed_tests : Nat, critical_failure_count : Nat,
   uncovered : Nat, total_criteria : Nat, flakiness_score : 0..Unit, changed_lines : Nat,
   defect_density : Nat, recent_incident_count : Nat, ownership : Ownership,
   security_sensitivity : Security, untested_modules : Nat]

ASSUME RiskAssumption ==
  Base \in RiskFeatures /\ DOMAIN Inputs \subseteq DOMAIN Base /\ \A k \in DOMAIN Inputs :
    \A v \in Inputs[k] : [Base EXCEPT ![k] = v] \in RiskFeatures

(* The validator of the counts. *)
Valid(f) ==
  /\ f.passed_tests + f.failed_tests <= f.total_tests
  /\ f.uncovered <= f.total_criteria

-----------------------------------------------------------------------------
(* round(): to the nearest, a tie to the even neighbour.  The code rounds  *)
(* floats, whose ties may fall to either side.                             *)
Rounded(n, d) ==
  LET q == n \div d
      r == 2 * (n % d)
  IN  IF r < d \/ (r = d /\ q % 2 = 0) THEN q ELSE q + 1

(* The weights of the drivers, in percent.                                 *)
Weight ==
  [fail_rate |-> 20, critical_failures |-> 15, uncovered_acceptance |-> 10, flakiness |-> 5,
   change_volume |-> 10, historical_defect_density |-> 10, recent_incidents |-> 10,
   ownership_gap |-> 5, security_sensitivity |-> 10, untested_high_risk_modules |-> 5]

(* What one driver adds for the part n/d of its weight that it is raised   *)
(* to; more than the whole is the whole, and a part of no tests or of no   *)
(* criteria is nothing.                                                    *)
Contribution(name, n, d) ==
  IF d = 0 THEN 0 ELSE Rounded(Weight[name] * 100 * Min({n, d}), d)

(* (A definition whose name ends in _Mutant is the next one with a slip in *)
(* it and no part of the model.)                                           *)
uncovered_acceptance_Mutant(f) == Contribution("uncovered_acceptance", f.total_criteria - f.uncovered, f.total_criteria)
uncovered_acceptance(f) == Contribution("uncovered_acceptance", f.uncovered, f.total_criteria)

ownership_gap(f) ==
  CASE f.ownership = "unowned"    -> Contribution("ownership_gap", 1, 1)
    [] f.ownership = "solo_owner" -> Contribution("ownership_gap", 1, 2)
    [] OTHER                      -> 0

security_sensitivity(f) ==
  CASE f.security_sensitivity = "high"   -> Contribution("security_sensitivity", 1, 1)
    [] f.security_sensitivity = "medium" -> Contribution("security_sensitivity", 3, 5)
    [] f.security_sensitivity = "low"    -> Contribution("security_sensitivity", 1, 4)
    [] OTHER                             -> 0

build_drivers(f) ==
  [fail_rate                  |-> Contribution("fail_rate", f.failed_tests, f.total_tests),
   critical_failures          |-> Contribution("critical_failures", f.critical_failure_count, 5),
   uncovered_acceptance       |-> uncovered_acceptance(f),
   flakiness                  |-> Contribution("flakiness", f.flakiness_score, Unit),
   change_volume              |-> Contribution("change_volume", f.changed_lines, 500),
   historical_defect_density  |-> Contribution("historical_defect_density", f.defect_density, 5),
   recent_incidents           |-> Contribution("recent_incidents", f.recent_incident_count, 5),
   ownership_gap              |-> ownership_gap(f),
   security_sensitivity       |-> security_sensitivity(f),
   untested_high_risk_modules |-> Contribution("untested_high_risk_modules", f.untested_modules, 3)]

band_for(score) ==
  IF score >= 81 THEN "critical" ELSE IF score >= 61 THEN "high"
  ELSE IF score >= 31 THEN "medium" ELSE "low"

recommendation_for(band) ==
  CASE band = "low"    -> "go"
    [] band = "medium" -> "go_with_approval"
    [] OTHER           -> "no_go"

score(f) ==
  LET drivers == build_drivers(f)
      points  == Rounded(SumFunction(drivers), 100)
  IN  [score |-> points, band |-> band_for(points),
       recommendation |-> recommendation_for(band_for(points)), drivers |-> drivers]

-----------------------------------------------------------------------------
RiskInit == features = Base /\ risk_score = Unscored /\ scoredBefore = Unscored

(* A run of the tests, a push or the list of incidents changes one input.  *)
Hydrate(k, v) ==
  /\ v # features[k]
  /\ features' = [features EXCEPT ![k] = v] /\ risk_score' = Unscored
  /\ scoredBefore' = IF risk_score = Unscored THEN Unscored
                     ELSE [of |-> features, risk |-> risk_score]

(* run() of the step: features that are not valid raise, and the step has  *)
(* one attempt.                                                            *)
ScoringStep ==
  /\ risk_score = Unscored /\ Valid(features)
  /\ risk_score' = score(features)
  /\ UNCHANGED <<features, scoredBefore>>

RiskNext == ScoringStep \/ \E k \in DOMAIN Inputs : \E v \in Inputs[k] : Hydrate(k, v)

RiskSpec == RiskInit /\ [][RiskNext]_riskVars

-----------------------------------------------------------------------------
RiskTypeOK ==
  /\ features \in RiskFeatures
  /\ risk_score # Unscored => risk_score.score \in 0..100

(* No input is better in f than in g. *)
AsBad(f, g) ==
  /\ f.failed_tests * g.total_tests >= g.failed_tests * f.total_tests
  /\ f.uncovered * g.total_criteria >= g.uncovered * f.total_criteria
  /\ f.total_tests = 0 => g.failed_tests = 0
  /\ f.total_criteria = 0 => g.uncovered = 0
  /\ \A k \in {"critical_failure_count", "flakiness_score", "changed_lines", "defect_density",
             "recent_incident_count", "untested_modules"} : f[k] >= g[k]
  /\ f.ownership # g.ownership => g.ownership = "team_owned" \/ f.ownership = "unowned"
  /\ f.security_sensitivity # g.security_sensitivity =>
       \/ g.security_sensitivity = "none" \/ f.security_sensitivity = "high"
       \/ g.security_sensitivity = "low" /\ f.security_sensitivity = "medium"

Strictness == [go |-> 1, go_with_approval |-> 2, no_go |-> 3]

(* A candidate that has become no better in any input gets no lower score  *)
(* and no easier recommendation than before, whichever of the ten drivers  *)
(* have risen, wherever the roundings of their sum fall and whatever edge  *)
(* of a band it crosses.                                                   *)
RiskNeverEased ==
  risk_score # Unscored /\ scoredBefore # Unscored /\ AsBad(features, scoredBefore.of) =>
    /\ risk_score.score >= scoredBefore.risk.score
    /\ Strictness[risk_score.recommendation] >= Strictness[scoredBefore.risk.recommendation]

(* The comment at the weights: 'a "high failure rate + critical security   *)
(* area + recent incident" run lands in HIGH/CRITICAL even with no other   *)
(* signals'.  The three weights are 40 of 100, and 40 is medium: tests     *)
(* that all fail, the highest sensitivity and as many incidents as count   *)
(* refute it.                                                              *)
ThreeSignalsAreHigh ==
  risk_score # Unscored /\ features.total_tests > 0
  /\ features.failed_tests = features.total_tests
  /\ features.security_sensitivity = "high" /\ features.recent_incident_count >= 5 =>
    risk_score.band \in {"high", "critical"}

(* The document of the dashboard: the recommendation "escalates a          *)
(* critical_failures > 0 to NO_GO even when the band is below threshold".  *)
(* The code looks at the band alone, and says of critical failures, in the *)
(* summary, that they "must be cleared first": five tests of five that     *)
(* fail, each of them critical, are a medium risk.                         *)
CriticalBlocks ==
  risk_score # Unscored /\ features.critical_failure_count \in 1..features.failed_tests =>
    risk_score.recommendation = "no_go"
=============================================================================
