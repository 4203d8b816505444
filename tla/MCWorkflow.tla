----------------------------- MODULE MCWorkflow -----------------------------
(* A graph of work, gate, work, gate, work - as short as it can be and     *)
(* still have a gate behind a gate, work in front of each and work at the  *)
(* end - driven by passes that may die at any store call.                  *)
EXTENDS WorkflowRunner, TLC

MCGates    == {2, 4}
MCKeys     == {"key2", "key4"}
MCKeyOf    == 2 :> "key2" @@ 4 :> "key4"

(* Every gate left at the default shared_key. *)
MCDefaultKey   == {"approval_request_id"}
MCKeyOfDefault == [g \in MCGates |-> "approval_request_id"]

MCAttempts == 1 :> 2 @@ 2 :> 1 @@ 3 :> 1 @@ 4 :> 1 @@ 5 :> 1
=============================================================================
