------------------------------- MODULE Schema -------------------------------
(***************************************************************************)
(* The database schema as the Alembic migrations of                        *)
(* apps/api/migrations/versions build it: the statements each revision     *)
(* runs to upgrade and to downgrade, and what a statement does to the      *)
(* schema.  Column types, widths and sort orders are left out; what is     *)
(* kept of a column is whether a row may do without it.                    *)
(***************************************************************************)
EXTENDS Naturals, Sequences, FiniteSets, SequencesExt, TLC

(***************************************************************************)
(* Statements.  Of a table: the columns an INSERT has to give, those with  *)
(* a server default, those that take NULL; what it references and what     *)
(* happens to its row when that is deleted; unique sets; checked labels.   *)
(***************************************************************************)
CreateTable(t, needed, filled, free, fks, uniques, checks) ==
  [op |-> "create table", table |-> t, needed |-> needed, filled |-> filled,
   free |-> free, fks |-> fks, uniques |-> uniques, checks |-> checks]
CreateIndex(name, t, columns) ==
  [op |-> "create index", table |-> t, name |-> name, columns |-> columns]
DropIndex(name) == [op |-> "drop index", name |-> name]
DropTable(t)    == [op |-> "drop table", table |-> t]
Isolate(t)      == [op |-> "isolate", table |-> t]      \* ENABLE, FORCE, CREATE POLICY
Expose(t)       == [op |-> "expose", table |-> t]       \* DROP POLICY, DISABLE
AddTrigger(t)   == [op |-> "add trigger", table |-> t]
DropTrigger(t)  == [op |-> "drop trigger", table |-> t]
CreateFunction  == [op |-> "create function"]           \* set_updated_at()
DropFunction    == [op |-> "drop function"]
AddLabels(t, column, labels) ==                         \* a column and its check
  [op |-> "add labels", table |-> t, column |-> column, labels |-> labels]
DropLabels(t, column) == [op |-> "drop labels", table |-> t, column |-> column]

Each(Statement(_), tables) == [i \in DOMAIN tables |-> Statement(tables[i])]

Row      == {"id", "tenant_id"}                 \* what nearly every table starts with
Created  == {"created_at"}
Stamps   == {"created_at", "updated_at"}
Nil     == <<>>                                \* no foreign key, no check
Refs(column, target, onDelete) == column :> <<target, onDelete>>
OfTenant == Refs("tenant_id", "tenants", "CASCADE")
OfWorkspace(onDelete) == OfTenant @@ Refs("workspace_id", "workspaces", onDelete)
ByUser(column) == Refs(column, "users", "SET NULL")

(***************************************************************************)
(* The revisions, 0001 to 0016: upgrade() and downgrade() of each.         *)
(***************************************************************************)
Up0001 == <<>>
Down0001 == <<>>

Tenants0002 ==
  << CreateFunction,
     CreateTable("tenants", {"id", "name", "slug"}, Stamps, {}, Nil, {{"slug"}}, Nil) >>
Users0002 ==
  << CreateTable("users", Row \cup {"email", "name"}, Stamps, {}, OfTenant,
                 {{"tenant_id", "email"}}, Nil),
     CreateIndex("ix_users_tenant_id_created_at", "users", {"tenant_id", "created_at"}) >>
Workspaces0002 ==
  << CreateTable("workspaces", Row \cup {"name", "application_type"},
                 Stamps \cup {"default_branch", "environments"},
                 {"repo_url", "description", "created_by", "archived_at"},
                 OfTenant @@ ByUser("created_by"), {{"tenant_id", "name"}},
                 "application_type" :> {"web_api", "web_ui", "web_full_stack", "mobile_app",
                                        "backend_service", "library", "other"}),
     CreateIndex("ix_workspaces_tenant_id_created_at", "workspaces",
                 {"tenant_id", "created_at"}),
     CreateTable("audit_events", Row \cup {"action", "resource_type"},
                 Created \cup {"payload"},
                 {"actor_user_id", "resource_id", "correlation_id", "signature"},
                 OfTenant @@ ByUser("actor_user_id"), {}, Nil),
     CreateIndex("ix_audit_events_tenant_id_created_at", "audit_events",
                 {"tenant_id", "created_at"}),
     CreateIndex("ix_audit_events_tenant_id_resource_type_resource_id", "audit_events",
                 {"tenant_id", "resource_type", "resource_id"}) >>
Guards0002 ==
  Each(AddTrigger, <<"tenants", "users", "workspaces">>)
  \o Each(Isolate, <<"users", "workspaces", "audit_events">>)
(* (A definition whose name ends in _Mutant is the next one with a slip in *)
(* it and no part of the model.)                                           *)
Up0002_Mutant == Users0002 \o Tenants0002 \o Workspaces0002 \o Guards0002
Up0002 == Tenants0002 \o Users0002 \o Workspaces0002 \o Guards0002
Down0002 ==
  Each(Expose, <<"users", "workspaces", "audit_events">>)
  \o Each(DropTrigger, <<"tenants", "users", "workspaces">>)
  \o << DropIndex("ix_audit_events_tenant_id_resource_type_resource_id"),
        DropIndex("ix_audit_events_tenant_id_created_at"), DropTable("audit_events"),
        DropIndex("ix_workspaces_tenant_id_created_at"), DropTable("workspaces"),
        DropIndex("ix_users_tenant_id_created_at"), DropTable("users"),
        DropTable("tenants"), DropFunction >>

Up0003 ==
  << CreateTable("repositories",
                 Row \cup {"workspace_id", "github_installation_id", "owner", "name", "full_name"},
                 Stamps \cup {"default_branch", "private", "linked_at"},
                 {"github_repo_id", "html_url", "linked_by", "unlinked_at"},
                 OfWorkspace("CASCADE") @@ ByUser("linked_by"), {}, Nil),
     CreateIndex("ix_repositories_tenant_id_workspace_id", "repositories",
                 {"tenant_id", "workspace_id"}),
     CreateIndex("uq_repositories_workspace_full_name_active", "repositories",
                 {"workspace_id", "full_name"}),
     AddTrigger("repositories"), Isolate("repositories") >>
Down0003 ==
  << Expose("repositories"), DropTrigger("repositories"),
     DropIndex("uq_repositories_workspace_full_name_active"),
     DropIndex("ix_repositories_tenant_id_workspace_id"), DropTable("repositories") >>

Up0004 ==
  << CreateTable("workspace_environments", Row \cup {"workspace_id", "name"},
                 Stamps \cup {"is_production", "variables"}, {"base_url", "description"},
                 OfWorkspace("CASCADE"), {{"workspace_id", "name"}}, Nil),
     CreateIndex("ix_workspace_environments_tenant_id_workspace_id",
                 "workspace_environments", {"tenant_id", "workspace_id"}),
     CreateTable("workspace_policies",
                 Row \cup {"workspace_id", "version", "source_yaml", "parsed"},
                 Created \cup {"active"}, {"created_by"},
                 OfWorkspace("CASCADE") @@ ByUser("created_by"),
                 {{"workspace_id", "version"}}, Nil),
     CreateIndex("ix_workspace_policies_tenant_id_workspace_id_created_at",
                 "workspace_policies", {"tenant_id", "workspace_id", "created_at"}),
     CreateIndex("uq_workspace_policies_one_active", "workspace_policies", {"workspace_id"}),
     AddTrigger("workspace_environments") >>
  \o Each(Isolate, <<"workspace_environments", "workspace_policies">>)
Down0004 ==
  Each(Expose, <<"workspace_environments", "workspace_policies">>)
  \o << DropTrigger("workspace_environments"), DropIndex("uq_workspace_policies_one_active"),
        DropIndex("ix_workspace_policies_tenant_id_workspace_id_created_at"),
        DropTable("workspace_policies"),
        DropIndex("ix_workspace_environments_tenant_id_workspace_id"),
        DropTable("workspace_environments") >>

Up0005 ==
  << CreateTable("requirements", Row \cup {"workspace_id", "type", "status"},
                 Stamps \cup {"raw_payload", "parsed"},
                 {"source_ref", "commit_sha", "parse_error", "ingested_by"},
                 OfWorkspace("CASCADE") @@ ByUser("ingested_by"), {},
                 ("type" :> {"pr_diff", "user_story", "openapi", "postman", "sql_schema"})
                 @@ ("status" :> {"parsed", "failed"})),
     CreateIndex("ix_requirements_tenant_id_workspace_id_created_at", "requirements",
                 {"tenant_id", "workspace_id", "created_at"}),
     CreateIndex("ix_requirements_workspace_id_type", "requirements", {"workspace_id", "type"}),
     CreateIndex("ix_requirements_commit_sha", "requirements", {"commit_sha"}),
     AddTrigger("requirements"), Isolate("requirements") >>
Down0005 ==
  << Expose("requirements"), DropTrigger("requirements"),
     DropIndex("ix_requirements_commit_sha"), DropIndex("ix_requirements_workspace_id_type"),
     DropIndex("ix_requirements_tenant_id_workspace_id_created_at"),
     DropTable("requirements") >>

Up0006 ==
  << CreateTable("test_plans", Row \cup {"workspace_id", "requirement_id", "summary"},
                 Stamps \cup {"status", "coverage_areas", "open_questions", "plan_payload",
                              "usd_cost", "latency_ms"},
                 {"generated_by_model", "generated_by_prompt_version"},
                 OfWorkspace("CASCADE") @@ Refs("requirement_id", "requirements", "CASCADE"), {},
                 "status" :> {"draft", "reviewed", "accepted", "rejected"}),
     CreateIndex("ix_test_plans_tenant_workspace_created_at", "test_plans",
                 {"tenant_id", "workspace_id", "created_at"}),
     CreateIndex("ix_test_plans_requirement_id", "test_plans", {"requirement_id"}),
     CreateTable("test_cases",
                 Row \cup {"test_plan_id", "title", "type", "priority", "expected_result"},
                 Stamps \cup {"preconditions", "steps", "automation_candidate", "tags",
                              "metadata_json"}, {},
                 OfTenant @@ Refs("test_plan_id", "test_plans", "CASCADE"), {},
                 ("type" :> {"api", "ui", "db", "integration", "negative", "regression", "smoke"})
                 @@ ("priority" :> {"low", "medium", "high", "critical"})),
     CreateIndex("ix_test_cases_tenant_plan", "test_cases", {"tenant_id", "test_plan_id"}),
     CreateIndex("ix_test_cases_tags", "test_cases", {"tags"}) >>
  \o Each(AddTrigger, <<"test_plans", "test_cases">>)
  \o Each(Isolate, <<"test_plans", "test_cases">>)
Down0006 ==
  Each(Expose, <<"test_plans", "test_cases">>)
  \o Each(DropTrigger, <<"test_plans", "test_cases">>)
  \o << DropIndex("ix_test_cases_tags"), DropIndex("ix_test_cases_tenant_plan"),
        DropTable("test_cases"), DropIndex("ix_test_plans_requirement_id"),
        DropIndex("ix_test_plans_tenant_workspace_created_at"), DropTable("test_plans") >>

TestRuns0007 ==
  << CreateTable("test_runs", Row \cup {"workspace_id", "idempotency_key"},
                 Stamps \cup {"state", "summary"},
                 {"test_plan_id", "requirement_id", "triggered_by", "started_at",
                  "finished_at", "error"},
                 OfWorkspace("CASCADE") @@ Refs("test_plan_id", "test_plans", "SET NULL")
                 @@ Refs("requirement_id", "requirements", "SET NULL") @@ ByUser("triggered_by"),
                 {{"workspace_id", "idempotency_key"}},
                 "state" :> {"planned", "executing", "classifying", "reporting",
                             "paused_for_approval", "done", "failed"}),
     CreateIndex("ix_test_runs_tenant_workspace_state_created_at", "test_runs",
                 {"tenant_id", "workspace_id", "state", "created_at"}) >>
TaskAndEvidence0007 ==
  << CreateTable("agent_tasks", Row \cup {"test_run_id", "agent_name", "step_index"},
                 Stamps \cup {"state", "input_json", "output_json", "duration_ms", "attempt"},
                 {"started_at", "finished_at", "error"},
                 OfTenant @@ Refs("test_run_id", "test_runs", "CASCADE"),
                 {{"test_run_id", "step_index"}},
                 "state" :> {"pending", "running", "succeeded", "failed", "skipped"}),
     CreateIndex("ix_agent_tasks_run_step", "agent_tasks", {"test_run_id", "step_index"}),
     CreateTable("evidence_artifacts",
                 Row \cup {"test_run_id", "sha256", "content_type", "size_bytes", "storage_key",
                           "original_filename"},
                 Created \cup {"metadata_json"}, {"agent_task_id"},
                 OfTenant @@ Refs("test_run_id", "test_runs", "CASCADE")
                 @@ Refs("agent_task_id", "agent_tasks", "SET NULL"),
                 {{"test_run_id", "sha256", "original_filename"}}, Nil),
     CreateIndex("ix_evidence_artifacts_run", "evidence_artifacts",
                 {"test_run_id", "created_at"}) >>
Guards0007 ==
  Each(AddTrigger, <<"test_runs", "agent_tasks">>)
  \o Each(Isolate, <<"test_runs", "agent_tasks", "evidence_artifacts">>)
Up0007 == TestRuns0007 \o TaskAndEvidence0007 \o Guards0007
Down0007 ==
  Each(Expose, <<"test_runs", "agent_tasks", "evidence_artifacts">>)
  \o Each(DropTrigger, <<"test_runs", "agent_tasks">>)
  \o << DropIndex("ix_evidence_artifacts_run"), DropTable("evidence_artifacts"),
        DropIndex("ix_agent_tasks_run_step"), DropTable("agent_tasks"),
        DropIndex("ix_test_runs_tenant_workspace_state_created_at"), DropTable("test_runs") >>

Up0008 ==
  << CreateTable("failure_classifications",
                 Row \cup {"test_run_id", "signal_id", "category", "classified_by", "reasoning"},
                 Created \cup {"confidence", "raw_signal"},
                 {"agent_task_id", "rule", "suggested_fix", "model", "prompt_version"},
                 OfTenant @@ Refs("test_run_id", "test_runs", "CASCADE")
                 @@ Refs("agent_task_id", "agent_tasks", "SET NULL"), {},
                 ("category" :> {"product_defect", "test_issue", "environment_issue",
                                 "flaky_test", "data_issue", "unknown"})
                 @@ ("classified_by" :> {"heuristic", "llm"})),
     CreateIndex("ix_failure_classifications_run_category", "failure_classifications",
                 {"test_run_id", "category"}),
     CreateIndex("ix_failure_classifications_tenant_classified_by_created_at",
                 "failure_classifications", {"tenant_id", "classified_by", "created_at"}),
     Isolate("failure_classifications") >>
Down0008 ==
  << Expose("failure_classifications"),
     DropIndex("ix_failure_classifications_tenant_classified_by_created_at"),
     DropIndex("ix_failure_classifications_run_category"),
     DropTable("failure_classifications") >>

Up0009 ==
  << CreateTable("usage_records", Row \cup {"agent_name", "provider", "model", "tier"},
                 Created \cup {"prompt_tokens", "completion_tokens", "cached_prompt_tokens",
                               "usd_cost", "latency_ms", "metadata_json"},
                 {"workspace_id", "test_run_id", "correlation_id"},
                 OfWorkspace("SET NULL") @@ Refs("test_run_id", "test_runs", "SET NULL"), {}, Nil),
     CreateIndex("ix_usage_records_tenant_created_at", "usage_records",
                 {"tenant_id", "created_at"}),
     CreateIndex("ix_usage_records_workspace_agent_created_at", "usage_records",
                 {"workspace_id", "agent_name", "created_at"}),
     CreateIndex("ix_usage_records_test_run", "usage_records", {"test_run_id"}),
     Isolate("usage_records") >>
Down0009 ==
  << Expose("usage_records"), DropIndex("ix_usage_records_test_run"),
     DropIndex("ix_usage_records_workspace_agent_created_at"),
     DropIndex("ix_usage_records_tenant_created_at"), DropTable("usage_records") >>

Up0010 ==
  << CreateTable("approval_requests", Row \cup {"event_type", "subject"},
                 Stamps \cup {"state", "context"},
                 {"workspace_id", "test_run_id", "reason", "requested_by", "decided_by",
                  "decision_comment", "expires_at", "decided_at"},
                 OfWorkspace("SET NULL") @@ Refs("test_run_id", "test_runs", "SET NULL")
                 @@ ByUser("requested_by") @@ ByUser("decided_by"), {},
                 ("state" :> {"pending", "approved", "rejected", "expired", "cancelled"})
                 @@ ("event_type" :> {"destructive_sql", "production_test_execution",
                                      "external_ticket_creation", "release_readiness",
                                      "ci_pipeline_modification", "high_cost_eval_run"})),
     CreateIndex("ix_approval_requests_tenant_state_created_at", "approval_requests",
                 {"tenant_id", "state", "created_at"}),
     CreateIndex("ix_approval_requests_workspace_state", "approval_requests",
                 {"workspace_id", "state"}),
     CreateIndex("ix_approval_requests_test_run", "approval_requests", {"test_run_id"}),
     CreateIndex("ix_approval_requests_pending_expires", "approval_requests", {"expires_at"}),
     Isolate("approval_requests") >>
Down0010 ==
  << Expose("approval_requests"), DropIndex("ix_approval_requests_pending_expires"),
     DropIndex("ix_approval_requests_test_run"), DropIndex("ix_approval_requests_workspace_state"),
     DropIndex("ix_approval_requests_tenant_state_created_at"), DropTable("approval_requests") >>

Up0011 ==
  << AddLabels("users", "role", {"owner", "admin", "engineer", "approver", "viewer"}),
     CreateIndex("ix_users_tenant_role", "users", {"tenant_id", "role"}) >>
Down0011 == << DropIndex("ix_users_tenant_role"), DropLabels("users", "role") >>

Up0012 ==
  << CreateTable("prompt_pins", Row \cup {"workspace_id", "agent_name", "version"}, Stamps,
                 {"pinned_by", "note"}, OfWorkspace("CASCADE") @@ ByUser("pinned_by"),
                 {{"workspace_id", "agent_name"}}, Nil),
     CreateIndex("ix_prompt_pins_tenant", "prompt_pins", {"tenant_id"}),
     Isolate("prompt_pins") >>
Down0012 ==
  << Expose("prompt_pins"), DropIndex("ix_prompt_pins_tenant"), DropTable("prompt_pins") >>

Up0013 ==
  << CreateTable("flakiness_observations", Row \cup {"workspace_id", "test_id", "passed"},
                 {"duration_ms", "observed_at"}, {"test_run_id"},
                 OfWorkspace("CASCADE") @@ Refs("test_run_id", "test_runs", "SET NULL"), {}, Nil),
     CreateIndex("ix_flakiness_observations_workspace_test_observed",
                 "flakiness_observations", {"workspace_id", "test_id", "observed_at"}),
     CreateIndex("ix_flakiness_observations_tenant_observed", "flakiness_observations",
                 {"tenant_id", "observed_at"}),
     Isolate("flakiness_observations") >>
Down0013 ==
  << Expose("flakiness_observations"),
     DropIndex("ix_flakiness_observations_tenant_observed"),
     DropIndex("ix_flakiness_observations_workspace_test_observed"),
     DropTable("flakiness_observations") >>

Up0014 ==
  << CreateTable("external_issues",
                 Row \cup {"workspace_id", "signal_id", "provider", "project_key", "issue_key",
                           "issue_url", "title"},
                 {"status", "opened_at"},
                 {"classification_id", "opened_by", "closed_at", "last_synced_at"},
                 OfWorkspace("CASCADE")
                 @@ Refs("classification_id", "failure_classifications", "SET NULL")
                 @@ ByUser("opened_by"),
                 {{"workspace_id", "provider", "issue_key"}},
                 ("provider" :> {"jira", "github"})
                 @@ ("status" :> {"open", "in_progress", "resolved", "closed", "rejected"})),
     CreateIndex("ix_external_issues_workspace_signal_provider_opened", "external_issues",
                 {"workspace_id", "signal_id", "provider", "opened_at"}),
     CreateIndex("ix_external_issues_tenant_status", "external_issues", {"tenant_id", "status"}),
     Isolate("external_issues") >>
Down0014 ==
  << Expose("external_issues"), DropIndex("ix_external_issues_tenant_status"),
     DropIndex("ix_external_issues_workspace_signal_provider_opened"),
     DropTable("external_issues") >>

Up0015 ==
  << CreateTable("agent_feedback",
                 Row \cup {"workspace_id", "agent_kind", "resource_type", "resource_id", "rating"},
                 {"submitted_at"},
                 {"comment", "submitted_by_user_id", "eval_case_id", "eval_case_path",
                  "converted_at"},
                 OfWorkspace("CASCADE") @@ ByUser("submitted_by_user_id"), {},
                 "rating" :> {"up", "down"}),
     CreateIndex("ix_agent_feedback_workspace_submitted", "agent_feedback",
                 {"workspace_id", "submitted_at"}),
     CreateIndex("ix_agent_feedback_workspace_agent_rating", "agent_feedback",
                 {"workspace_id", "agent_kind", "rating"}),
     CreateIndex("ix_agent_feedback_resource", "agent_feedback",
                 {"resource_type", "resource_id"}),
     CreateIndex("ix_agent_feedback_pending_conversion", "agent_feedback",
                 {"workspace_id", "rating", "submitted_at"}),
     Isolate("agent_feedback") >>
Down0015 ==
  << Expose("agent_feedback"), DropIndex("ix_agent_feedback_pending_conversion"),
     DropIndex("ix_agent_feedback_resource"),
     DropIndex("ix_agent_feedback_workspace_agent_rating"),
     DropIndex("ix_agent_feedback_workspace_submitted"), DropTable("agent_feedback") >>

Up0016 ==
  << CreateTable("model_registry", Row \cup {"provider", "model_id", "released_at"},
                 Stamps \cup {"status"},
                 {"family", "eval_scorecard_id", "eval_scorecard_path", "decision",
                  "decision_rationale", "decision_at", "decided_by_user_id", "deprecation_at"},
                 OfTenant @@ ByUser("decided_by_user_id"),
                 {{"tenant_id", "provider", "model_id"}},
                 ("status" :> {"candidate", "pinned", "deprecated", "rejected"})
                 @@ ("decision" :> {"go", "no_go"})),
     CreateIndex("ix_model_registry_tenant_status", "model_registry", {"tenant_id", "status"}),
     CreateIndex("ix_model_registry_awaiting_decision", "model_registry",
                 {"tenant_id", "released_at"}),
     Isolate("model_registry") >>
Down0016 ==
  << Expose("model_registry"), DropIndex("ix_model_registry_awaiting_decision"),
     DropIndex("ix_model_registry_tenant_status"), DropTable("model_registry") >>

upgrade ==
  << Up0001, Up0002, Up0003, Up0004, Up0005, Up0006, Up0007, Up0008,
     Up0009, Up0010, Up0011, Up0012, Up0013, Up0014, Up0015, Up0016 >>
downgrade ==
  << Down0001, Down0002, Down0003, Down0004, Down0005, Down0006, Down0007, Down0008,
     Down0009, Down0010, Down0011, Down0012, Down0013, Down0014, Down0015, Down0016 >>
HeadRevision == Len(upgrade)

(***************************************************************************)
(* What a statement asks of the schema, and what it makes of it.           *)
(***************************************************************************)
EmptySchema == [tables |-> Nil, indexes |-> {}, function |-> FALSE]

Tables(db) == DOMAIN db.tables
Columns(t) == t.needed \cup t.filled \cup t.free
References(db, t) == {db.tables[t].fks[c][1] : c \in DOMAIN db.tables[t].fks}

(* PostgreSQL's conditions for a statement to run; IF EXISTS asks nothing  *)
(* of the policy, trigger or function it names.                            *)
Applies(db, s) ==
  CASE s.op = "create table" ->
         /\ s.table \notin Tables(db)
         /\ \A c \in DOMAIN s.fks : c \in Columns(s) /\ s.fks[c][1] \in Tables(db)
         /\ \A u \in s.uniques : u \subseteq Columns(s)
         /\ DOMAIN s.checks \subseteq Columns(s)
    [] s.op = "create index" ->
         /\ s.table \in Tables(db)
         /\ s.columns \subseteq Columns(db.tables[s.table])
         /\ \A i \in db.indexes : i[1] # s.name
    [] s.op = "drop index"  -> \E i \in db.indexes : i[1] = s.name
    [] s.op = "drop table"  -> /\ s.table \in Tables(db)
                               /\ \A t \in Tables(db) \ {s.table} : s.table \notin References(db, t)
    [] s.op = "isolate"     -> /\ s.table \in Tables(db)
                               /\ "tenant_id" \in Columns(db.tables[s.table])
                               /\ "policy" \notin db.tables[s.table].rls
    [] s.op = "add trigger" -> /\ s.table \in Tables(db)
                               /\ db.function /\ ~db.tables[s.table].trigger
    [] s.op = "add labels"  -> /\ s.table \in Tables(db)
                               /\ s.column \notin Columns(db.tables[s.table])
    [] s.op = "drop labels" -> /\ s.table \in Tables(db)
                               /\ s.column \in DOMAIN db.tables[s.table].checks
    [] s.op = "drop function" -> \A t \in Tables(db) : ~db.tables[t].trigger
    [] s.op = "create function" -> TRUE
    [] OTHER -> s.table \in Tables(db)

Apply(db, s) ==
  CASE s.op = "create table" ->
         [db EXCEPT !.tables = @ @@ (s.table :>
            [needed |-> s.needed, filled |-> s.filled, free |-> s.free, fks |-> s.fks,
             uniques |-> s.uniques, checks |-> s.checks, rls |-> {}, trigger |-> FALSE])]
    [] s.op = "create index"  -> [db EXCEPT !.indexes = @ \cup {<<s.name, s.table>>}]
    [] s.op = "drop index"    -> [db EXCEPT !.indexes = {i \in @ : i[1] # s.name}]
    [] s.op = "drop table"    -> [db EXCEPT !.tables = Restrict(@, DOMAIN @ \ {s.table}),
                                            !.indexes = {i \in @ : i[2] # s.table}]
    [] s.op = "isolate"       -> [db EXCEPT !.tables[s.table].rls = {"enabled", "forced", "policy"}]
    [] s.op = "expose"        -> [db EXCEPT !.tables[s.table].rls = @ \ {"enabled", "policy"}]
    [] s.op = "add trigger"   -> [db EXCEPT !.tables[s.table].trigger = TRUE]
    [] s.op = "drop trigger"  -> [db EXCEPT !.tables[s.table].trigger = FALSE]
    [] s.op = "create function" -> [db EXCEPT !.function = TRUE]
    [] s.op = "drop function"   -> [db EXCEPT !.function = FALSE]
    [] s.op = "add labels" ->
         [db EXCEPT !.tables[s.table].filled = @ \cup {s.column},
                    !.tables[s.table].checks = @ @@ (s.column :> s.labels)]
    [] s.op = "drop labels" ->
         [db EXCEPT !.tables[s.table].filled = @ \ {s.column},
                    !.tables[s.table].checks = Restrict(@, DOMAIN @ \ {s.column})]

(* The schema a fresh database has after the upgrades to revision r. *)
SchemaAt[r \in 0..HeadRevision] ==
  IF r = 0 THEN EmptySchema ELSE FoldLeft(Apply, SchemaAt[r - 1], upgrade[r])
HeadSchema == SchemaAt[HeadRevision]
=============================================================================
