----------------------------- MODULE MCServices -----------------------------
(***************************************************************************)
(* The parts of the system whose work has to come to an end.  A behaviour  *)
(* is one of a single part, chosen at the start: the others stay as they   *)
(* are, and the states to check add up instead of multiplying.  (For the   *)
(* same reason the review of the feedback, which only reads rows, is one   *)
(* of the parts of MCStores.)                                              *)
(***************************************************************************)
EXTENDS TestRuns, FeedbackCases, CircuitBreaker, LlmGateway, MCTools

CONSTANTS start1, start2, start3   \* calls of start(): two in one process, one in another

VARIABLE service

MCHome == (start1 :> "p") @@ (start2 :> "p") @@ (start3 :> "q")

serviceVars == <<service, runVars, feedbackVars, breakerVars, llmVars, toolVars>>

ServicesInit ==
  /\ service \in {"runs", "feedback", "breaker", "llm", "tools"}
  /\ RunInit /\ FeedbackInit /\ BreakerInit /\ LlmInit /\ ToolInit

ServicesNext ==
  /\ \/ service = "runs"     /\ RunNext      /\ UNCHANGED <<feedbackVars, breakerVars, llmVars, toolVars>>
     \/ /\ service = "feedback"
        /\ UNCHANGED <<review, runVars, breakerVars, llmVars, toolVars>>
        /\ FeedbackNext
     \/ service = "breaker"  /\ BreakerNext  /\ UNCHANGED <<runVars, feedbackVars, llmVars, toolVars>>
     \/ service = "llm"      /\ LlmNext      /\ UNCHANGED <<runVars, feedbackVars, breakerVars, toolVars>>
     \/ service = "tools"    /\ ToolNext     /\ UNCHANGED <<runVars, feedbackVars, breakerVars, llmVars>>
  /\ UNCHANGED service

(* Fairness of the part that was chosen.  What RunFairness asks is about   *)
(* calls that are open, and so is most of the others': nothing is open in  *)
(* a behaviour of another part.                                            *)
ServicesFairness ==
  /\ RunFairness
  /\ \A p \in Promoters : WF_feedbackVars(service = "feedback" /\ Promotion(p))
  /\ WF_breakerVars(service = "breaker" /\ Tick)
  /\ \A caller \in Callers : WF_breakerVars(Return(caller))
  /\ \A call \in Calls : WF_llmVars(Provider(call))
  /\ ToolFairness

ServicesSpec == ServicesInit /\ [][ServicesNext]_serviceVars /\ ServicesFairness

(* Every column and every local of every part keeps its type. *)
ServicesTypeOK == RunTypeOK /\ FeedbackTypeOK /\ BreakerTypeOK /\ LlmTypeOK /\ ToolTypeOK
=============================================================================
