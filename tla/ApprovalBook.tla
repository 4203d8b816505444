---------------------------- MODULE ApprovalBook ----------------------------
(***************************************************************************)
(* What the approval table promises the rest of the system, whatever the   *)
(* number of transactions that touch it at the same time.                  *)
(*                                                                         *)
(* A request is opened once, in state "pending".  From then on it only     *)
(* moves to a decision, it never becomes pending again, and the audit      *)
(* history of a request grows by one entry exactly when its row changes,   *)
(* with the state the row takes.  Approvals.tla is shown to implement this *)
(* specification; WorkflowRunner.tla uses it as the table the gate step    *)
(* reads.  A decision may be replaced by another one: the code does not    *)
(* exclude it (see Approvals.tla, DecidedOnce).                            *)
(***************************************************************************)
EXTENDS Sequences

CONSTANT Requests      \* the ids approval_requests rows may get

VARIABLES
  status,              \* status[r]: the committed state column, "none" without a row
  history              \* history[r]: the states recorded in audit_events for r

bookVars == <<status, history>>

\* ApprovalState, split the way is_terminal splits it.
Decisions == {"approved", "rejected", "expired", "cancelled"}
States    == {"none", "pending"} \cup Decisions

BookInit ==
  /\ status  = [r \in Requests |-> "none"]
  /\ history = [r \in Requests |-> <<>>]

(* The rows in R take state d, and the audit trail says so. *)
Move(R, d) ==
  /\ status'  = [r \in Requests |-> IF r \in R THEN d ELSE status[r]]
  /\ history' = [r \in Requests |-> IF r \in R THEN Append(history[r], d)
                                               ELSE history[r]]

Open(r) ==
  /\ status[r] = "none"
  /\ Move({r}, "pending")

Settle(R, d) ==
  /\ \A r \in R : status[r] # "none"
  /\ Move(R, d)

BookNext ==
  \/ \E r \in Requests : Open(r)
  \/ \E R \in SUBSET Requests, d \in Decisions : Settle(R, d)

BookSpec == BookInit /\ [][BookNext]_bookVars
=============================================================================
