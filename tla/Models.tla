------------------------------- MODULE Models -------------------------------
(***************************************************************************)
(* The ORM models of apps/api/src/aqao_api/db/models: what SQLAlchemy      *)
(* reads and writes of every table, in the terms of Schema.                *)
(***************************************************************************)
EXTENDS Schema

(* A model: the columns an INSERT names, those it leaves to the server,    *)
(* those that may be NULL, foreign keys, unique sets, and the strings it   *)
(* may store in a column that has a fixed set of them.                     *)
Model(needed, filled, free, fks, uniques, labels) ==
  [needed |-> needed, filled |-> filled, free |-> free, fks |-> fks,
   uniques |-> uniques, labels |-> labels]

(* db/models/mixins.py *)
UUIDPrimaryKeyMixin == {"id"}
TenantScopedMixin   == {"tenant_id"}
TimestampMixin      == {"created_at", "updated_at"}
CreatedAtMixin      == {"created_at"}
Scoped == UUIDPrimaryKeyMixin \cup TenantScopedMixin
TenantKey == "tenant_id" :> <<"tenants", "CASCADE">>

WorkspaceKey(onDelete) == TenantKey @@ ("workspace_id" :> <<"workspaces", onDelete>>)

(* A Python enumeration is a record from member names to values.  An Enum  *)
(* column of SQLAlchemy that is given the class, and no values_callable,   *)
(* stores the names; a String column stores the value that is assigned.    *)
SAEnum(E) == DOMAIN E
Text(E)   == {E[m] : m \in DOMAIN E}

ApplicationType ==
  [WEB_API |-> "web_api", WEB_UI |-> "web_ui", WEB_FULL_STACK |-> "web_full_stack",
   MOBILE_APP |-> "mobile_app", BACKEND_SERVICE |-> "backend_service",
   LIBRARY |-> "library"] @@ ("OTHER" :> "other")
RequirementType ==
  [PR_DIFF |-> "pr_diff", USER_STORY |-> "user_story", OPENAPI |-> "openapi",
   POSTMAN |-> "postman", SQL_SCHEMA |-> "sql_schema"]
RequirementStatus == [PARSED |-> "parsed", FAILED |-> "failed"]
TestCaseType ==
  [API |-> "api", UI |-> "ui", DB |-> "db", INTEGRATION |-> "integration",
   NEGATIVE |-> "negative", REGRESSION |-> "regression", SMOKE |-> "smoke"]
TestCasePriority == [LOW |-> "low", MEDIUM |-> "medium", HIGH |-> "high", CRITICAL |-> "critical"]
TestPlanStatus ==
  [DRAFT |-> "draft", REVIEWED |-> "reviewed", ACCEPTED |-> "accepted", REJECTED |-> "rejected"]
TestRunState ==
  [PLANNED |-> "planned", EXECUTING |-> "executing", CLASSIFYING |-> "classifying",
   REPORTING |-> "reporting", PAUSED_FOR_APPROVAL |-> "paused_for_approval",
   DONE |-> "done", FAILED |-> "failed"]
AgentTaskState ==
  [PENDING |-> "pending", RUNNING |-> "running", SUCCEEDED |-> "succeeded",
   FAILED |-> "failed", SKIPPED |-> "skipped"]
FailureCategory ==
  [PRODUCT_DEFECT |-> "product_defect", TEST_ISSUE |-> "test_issue",
   ENVIRONMENT_ISSUE |-> "environment_issue", FLAKY_TEST |-> "flaky_test",
   DATA_ISSUE |-> "data_issue", UNKNOWN |-> "unknown"]
ClassifiedBy == [HEURISTIC |-> "heuristic", LLM |-> "llm"]
ApprovalState ==
  [PENDING |-> "pending", APPROVED |-> "approved", REJECTED |-> "rejected",
   EXPIRED |-> "expired", CANCELLED |-> "cancelled"]
ApprovalEventType ==
  [DESTRUCTIVE_SQL |-> "destructive_sql",
   PRODUCTION_TEST_EXECUTION |-> "production_test_execution",
   EXTERNAL_TICKET_CREATION |-> "external_ticket_creation",
   RELEASE_READINESS |-> "release_readiness",
   CI_PIPELINE_MODIFICATION |-> "ci_pipeline_modification",
   HIGH_COST_EVAL_RUN |-> "high_cost_eval_run"]
IssueProvider == [JIRA |-> "jira", GITHUB |-> "github"]
IssueStatus ==
  [OPEN |-> "open", IN_PROGRESS |-> "in_progress", RESOLVED |-> "resolved",
   CLOSED |-> "closed", REJECTED |-> "rejected"]
FeedbackRating == [UP |-> "up", DOWN |-> "down"]
ModelLifecycleStatus ==
  [CANDIDATE |-> "candidate", PINNED |-> "pinned", DEPRECATED |-> "deprecated",
   REJECTED |-> "rejected"]
ModelDecision == [GO |-> "go", NO_GO |-> "no_go"]

Tenant == Model(UUIDPrimaryKeyMixin \cup {"name", "slug"}, TimestampMixin, {}, Nil, {{"slug"}}, Nil)
User ==
  Model(Scoped \cup {"email", "name"}, TimestampMixin \cup {"role"}, {}, TenantKey,
        {{"tenant_id", "email"}}, Nil)
Workspace ==
  Model(Scoped \cup {"name", "application_type"},
        TimestampMixin \cup {"default_branch", "environments"},
        {"repo_url", "description", "created_by", "archived_at"},
        TenantKey @@ ByUser("created_by"), {{"tenant_id", "name"}},
        "application_type" :> SAEnum(ApplicationType))
AuditEvent ==
  Model(Scoped \cup {"action", "resource_type"}, CreatedAtMixin \cup {"payload"},
        {"actor_user_id", "resource_id", "correlation_id", "signature"},
        TenantKey @@ ByUser("actor_user_id"), {}, Nil)
Repository ==
  Model(Scoped \cup {"workspace_id", "github_installation_id", "owner", "name", "full_name"},
        TimestampMixin \cup {"default_branch", "private", "linked_at"},
        {"github_repo_id", "html_url", "linked_by", "unlinked_at"},
        WorkspaceKey("CASCADE") @@ ByUser("linked_by"), {}, Nil)
WorkspaceEnvironment ==
  Model(Scoped \cup {"workspace_id", "name"}, TimestampMixin \cup {"is_production", "variables"},
        {"base_url", "description"}, WorkspaceKey("CASCADE"), {{"workspace_id", "name"}}, Nil)
WorkspacePolicy ==
  Model(Scoped \cup {"workspace_id", "version", "source_yaml", "parsed"},
        CreatedAtMixin \cup {"active"}, {"created_by"},
        WorkspaceKey("CASCADE") @@ ByUser("created_by"), {}, Nil)
Requirement ==
  Model(Scoped \cup {"workspace_id", "type", "status"},
        TimestampMixin \cup {"raw_payload", "parsed"},
        {"source_ref", "commit_sha", "parse_error", "ingested_by"},
        WorkspaceKey("CASCADE") @@ ByUser("ingested_by"), {},
        ("type" :> SAEnum(RequirementType)) @@ ("status" :> SAEnum(RequirementStatus)))
TestPlan ==
  Model(Scoped \cup {"workspace_id", "requirement_id", "summary"},
        TimestampMixin \cup {"status", "coverage_areas", "open_questions", "plan_payload",
                             "usd_cost", "latency_ms"},
        {"generated_by_model", "generated_by_prompt_version"},
        WorkspaceKey("CASCADE") @@ Refs("requirement_id", "requirements", "CASCADE"), {},
        "status" :> SAEnum(TestPlanStatus))
TestCase ==
  Model(Scoped \cup {"test_plan_id", "title", "type", "priority", "expected_result"},
        TimestampMixin \cup {"preconditions", "steps", "automation_candidate", "tags",
                             "metadata_json"}, {},
        TenantKey @@ Refs("test_plan_id", "test_plans", "CASCADE"), {},
        ("type" :> SAEnum(TestCaseType)) @@ ("priority" :> SAEnum(TestCasePriority)))
TestRun ==
  Model(Scoped \cup {"workspace_id", "idempotency_key"}, TimestampMixin \cup {"state", "summary"},
        {"test_plan_id", "requirement_id", "triggered_by", "started_at", "finished_at", "error"},
        WorkspaceKey("CASCADE") @@ Refs("test_plan_id", "test_plans", "SET NULL")
        @@ Refs("requirement_id", "requirements", "SET NULL") @@ ByUser("triggered_by"),
        {{"workspace_id", "idempotency_key"}}, "state" :> SAEnum(TestRunState))
AgentTask ==
  Model(Scoped \cup {"test_run_id", "agent_name", "step_index"},
        TimestampMixin \cup {"state", "input_json", "output_json", "duration_ms", "attempt"},
        {"started_at", "finished_at", "error"},
        TenantKey @@ Refs("test_run_id", "test_runs", "CASCADE"),
        {{"test_run_id", "step_index"}}, "state" :> SAEnum(AgentTaskState))
EvidenceArtifact ==
  Model(Scoped \cup {"test_run_id", "sha256", "content_type", "size_bytes", "storage_key",
                     "original_filename"},
        CreatedAtMixin \cup {"metadata_json"}, {"agent_task_id"},
        TenantKey @@ Refs("test_run_id", "test_runs", "CASCADE")
        @@ Refs("agent_task_id", "agent_tasks", "SET NULL"),
        {{"test_run_id", "sha256", "original_filename"}}, Nil)
FailureClassification ==
  Model(Scoped \cup {"test_run_id", "signal_id", "category", "classified_by", "reasoning"},
        CreatedAtMixin \cup {"confidence", "raw_signal"},
        {"agent_task_id", "rule", "suggested_fix", "model", "prompt_version"},
        TenantKey @@ Refs("test_run_id", "test_runs", "CASCADE")
        @@ Refs("agent_task_id", "agent_tasks", "SET NULL"), {},
        ("category" :> SAEnum(FailureCategory)) @@ ("classified_by" :> SAEnum(ClassifiedBy)))
UsageRecordRow ==
  Model(Scoped \cup {"agent_name", "provider", "model", "tier"},
        CreatedAtMixin \cup {"prompt_tokens", "completion_tokens", "cached_prompt_tokens",
                             "usd_cost", "latency_ms", "metadata_json"},
        {"workspace_id", "test_run_id", "correlation_id"},
        WorkspaceKey("SET NULL") @@ Refs("test_run_id", "test_runs", "SET NULL"), {}, Nil)
ApprovalRequest ==
  Model(Scoped \cup {"event_type", "subject"}, TimestampMixin \cup {"state", "context"},
        {"workspace_id", "test_run_id", "reason", "requested_by", "decided_by",
         "decision_comment", "expires_at", "decided_at"},
        WorkspaceKey("SET NULL") @@ Refs("test_run_id", "test_runs", "SET NULL")
        @@ ByUser("requested_by") @@ ByUser("decided_by"), {},
        ("state" :> Text(ApprovalState)) @@ ("event_type" :> Text(ApprovalEventType)))
PromptPin ==
  Model(Scoped \cup {"workspace_id", "agent_name", "version"}, TimestampMixin,
        {"pinned_by", "note"}, WorkspaceKey("CASCADE") @@ ByUser("pinned_by"),
        {{"workspace_id", "agent_name"}}, Nil)
FlakinessObservation ==
  Model(Scoped \cup {"workspace_id", "test_id", "passed"}, {"duration_ms", "observed_at"},
        {"test_run_id"},
        WorkspaceKey("CASCADE") @@ Refs("test_run_id", "test_runs", "SET NULL"), {}, Nil)
ExternalIssue ==
  Model(Scoped \cup {"workspace_id", "signal_id", "provider", "project_key", "issue_key",
                     "issue_url", "title", "opened_at"},
        CreatedAtMixin \cup {"status"},
        {"classification_id", "opened_by", "closed_at", "last_synced_at"},
        WorkspaceKey("CASCADE") @@ Refs("classification_id", "failure_classifications", "SET NULL")
        @@ ByUser("opened_by"), {{"workspace_id", "provider", "issue_key"}},
        ("provider" :> Text(IssueProvider)) @@ ("status" :> Text(IssueStatus)))
AgentFeedback ==
  Model(Scoped \cup {"workspace_id", "agent_kind", "resource_type", "resource_id", "rating"},
        {"submitted_at"},
        {"comment", "submitted_by_user_id", "eval_case_id", "eval_case_path", "converted_at"},
        WorkspaceKey("CASCADE") @@ ByUser("submitted_by_user_id"), {},
        "rating" :> Text(FeedbackRating))
ModelRegistryEntry ==
  Model(Scoped \cup {"provider", "model_id", "released_at"}, TimestampMixin \cup {"status"},
        {"family", "eval_scorecard_id", "eval_scorecard_path", "decision",
         "decision_rationale", "decision_at", "decided_by_user_id", "deprecation_at"},
        TenantKey @@ ByUser("decided_by_user_id"), {{"tenant_id", "provider", "model_id"}},
        ("status" :> Text(ModelLifecycleStatus)) @@ ("decision" :> Text(ModelDecision)))

(* db/models/__init__.py: what Base.metadata holds. *)
metadata ==
  [tenants |-> Tenant, users |-> User, workspaces |-> Workspace, audit_events |-> AuditEvent,
   repositories |-> Repository, workspace_environments |-> WorkspaceEnvironment,
   workspace_policies |-> WorkspacePolicy, requirements |-> Requirement,
   test_plans |-> TestPlan, test_cases |-> TestCase, test_runs |-> TestRun,
   agent_tasks |-> AgentTask, evidence_artifacts |-> EvidenceArtifact,
   failure_classifications |-> FailureClassification, usage_records |-> UsageRecordRow,
   approval_requests |-> ApprovalRequest, prompt_pins |-> PromptPin,
   flakiness_observations |-> FlakinessObservation, external_issues |-> ExternalIssue,
   agent_feedback |-> AgentFeedback, model_registry |-> ModelRegistryEntry]
=============================================================================
