------------------------------- MODULE MCRisk -------------------------------
(***************************************************************************)
(* A candidate with five tests and nothing against it, of which each input *)
(* that a driver reads may rise to the middle or the end of its scale.     *)
(***************************************************************************)
EXTENDS ReleaseRisk

MCBase ==
  [total_tests |-> 5, passed_tests |-> 0, failed_tests |-> 0, critical_failure_count |-> 0,
   uncovered |-> 0, total_criteria |-> 0, flakiness_score |-> 0, changed_lines |-> 0,
   defect_density |-> 0, recent_incident_count |-> 0, ownership |-> "team_owned",
   security_sensitivity |-> "none", untested_modules |-> 0]
MCInputs ==
  [failed_tests |-> {0, 2, 5}, critical_failure_count |-> {0, 5}, uncovered |-> {0, 1},
   total_criteria |-> {0, 1}, flakiness_score |-> {0, Unit}, changed_lines |-> {0, 500},
   recent_incident_count |-> {0, 5}, ownership |-> Ownership,
   security_sensitivity |-> Security, untested_modules |-> {0, 1}]
=============================================================================
