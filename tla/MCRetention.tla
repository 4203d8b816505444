---------------------------- MODULE MCRetention -----------------------------
(***************************************************************************)
(* Rows for the retention sweep, and the two databases there may be: the   *)
(* tables that the ORM models describe, and those the migrations make.     *)
(***************************************************************************)
EXTENDS Retention, Models

MCRows ==
  [run     |-> [table |-> "test_runs", workspace |-> "w", refs |-> Nil],
   verdict |-> [table |-> "failure_classifications", workspace |-> NULL,
                refs |-> [test_run_id |-> "run"]],
   usage   |-> [table |-> "usage_records", workspace |-> NULL,
                refs |-> [test_run_id |-> "run"]],
   seen    |-> [table |-> "flakiness_observations", workspace |-> "w", refs |-> Nil],
   audit   |-> [table |-> "audit_events", workspace |-> NULL, refs |-> Nil]]

MCModelled == metadata
MCMigrated == HeadSchema.tables
=============================================================================
