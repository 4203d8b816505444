# Specifications of the agentic QA platform

TLA+ modules, TLC configurations and TLAPS proofs for the control plane
(`src/apps/api`), the agent runtime (`src/packages/agents`) and the packages
around them. `PROJECT.json` maps every definition to the lines it models
and lists runs, mutants, findings, hazards and theorems.

Paths below: `A/` is `src/apps/api/src/aqao_api/`, `R/` is
`src/packages/agents/src/aqao_agents/`, `EV/` is `src/packages/eval/src/aqao_eval/`,
`T/` is `src/packages/tools/src/aqao_tools/`.

## The system

A FastAPI control plane keeps workspaces, policies, requirements, test plans,
test runs, approvals and an audit log in PostgreSQL. A test run is a *workflow*:
a list of steps (plan, generate, execute, classify, report) that a runner drives
and a store remembers. Steps call language models through one client with
failover and a budget. A step may be an *approval gate*: the workflow pauses
until a person decides a request through the control plane.

| component | state | operations | what is hard | what makes it correct |
|---|---|---|---|---|
| approvals `A/services/approval.py` | `approval_requests`, `audit_events` | request, approve, reject, cancel, expire_due | each call is a READ COMMITTED transaction that reads, checks, then updates by id; expiry races approval | decisions in time; row and audit trail agree; no decision without a request |
| workflow runtime `R/runtime/` | workflow row, step rows; `shared` in memory | run (load, attempt, record, pause, fail, finish), gate step | crash between effect and record; re-drive; overlapping passes; ids kept in rows that get replaced | no gated work without approval; rows agree; finished stays finished; a pass ends |
| circuit breaker `A/reliability/circuit_breaker.py` | state, failures, opened_at, trial slot | before_call, after_success, after_failure, acall | results arrive late, in another state; cancellation | one trial; quarantine; fields agree; admits again |
| LLM client, budget, usage `R/llm/client.py`, `A/usage/` | running total, usage buffer, `usage_records` | complete, flush | total read before an await; failover; rollback after flush | cap kept; every candidate tried in order; each charge recorded once |
| policies `A/services/policy.py` | `workspace_policies` | set, activate | two transactions flip the active flag; version numbers computed from reads | one active version, the one audited; dense versions |
| test runs `A/services/test_run.py` | `test_runs`, `agent_tasks` | start | the workflow store is in memory, inside one transaction; a blocking session on an event loop | one pass per idempotency key; what is kept is a finished run; a refusal means the run is there |
| bulkhead, dead letters, idempotency keys `A/reliability/` | counters, list, map | acquire, append, drain, remember, fetch | threads; a clock read before the lock; key expiry | slots bounded and returned; letters once and in order; one response per key |
| caches `A/caching/` | ordered map with expiry | get, set, get_or_compute, invalidate | compute outside the lock | stale only by the documented race; the least recently used goes first |
| external issues `A/services/external_issue.py`, `A/webhooks/` | `external_issues` | create_or_reuse, sync_from_provider | duplicate and reordered webhooks; provider call inside a transaction | one issue per signal and window; status follows the provider |
| model lifecycle `A/services/model_lifecycle.py`, prompt pins `A/services/prompt_pin.py` | `model_registry`, `prompt_pins` | register, attach, decide, deprecate, overdue check; set_pin, delete_pin | read-check-update by primary key; columns merged | a status is backed by decisions; a pin is what the audit log says |
| prompt registry and experiments `R/prompts/` | versions by agent, variants with weights | register, select | a registry replaced by a deploy under an experiment that names its versions | nobody moves back when a variant is ramped up; each variant gets its share |
| workspaces and repositories `A/services/workspace.py`, `repository.py` | `workspaces`, `repositories` | create, update, archive, link, unlink | GitHub awaited inside the transaction; shared installations | links apart; a revocation has its unlink |
| schema and migrations `src/apps/api/migrations/`, `A/db/models/` | the database schema | upgrade, downgrade | sixteen revisions that alter each other's tables; models and migrations written twice | every revision reversible; the models live on the head |
| requirements and test generation `A/services/requirement.py`, `test_plan.py`, `*_test_generation.py` | requirements, plans, cases and their JSON metadata | ingest, plan, generate | metadata read before an await and written back whole | a case has the code of its last generation, or of a race |
| flakiness and classification `A/services/flakiness.py`, `R/classifier/` | observations, verdicts | record, score, classify | results come late; a rolling window | flaky only what flapped; no known flake blamed on the product |
| evidence reports `A/services/evidence_report.py`, `A/evidence/` | artifact rows, a store per process | generate, fetch | answered before the commit; a store that dies with its process | a row has its object; the newest is fetched |
| retention `A/services/retention.py` | most tables | sweep | buckets with overrides, cascades | exactly the aged rows go, and what hangs on them |
| feedback and eval cases `A/services/agent_feedback.py`, `EV/` | feedback rows, case files | record, convert, promote, weekly review | files read and appended without a lock, outside the transaction; a review of two statements | a converted case is on file and scored once; the review loses nobody |
| nightly evaluation `EV/nightly.py`, `gate.py`, `trend.py` | scorecards, trend index, alerts | run, compare, consume | dies between agents; a report consumed twice | every regression told, and no other |
| SLO and perf budgets, release risk `A/slo/`, `A/perf/`, `R/release_risk/` | samples, features | evaluate, score | windows that move, thresholds, empty denominators | nothing eases without a reason |
| tool router and runners `T/` | processes, directories, a ledger | invoke | two timers and a cancellation around one process | on the ledger once, as what it was; the invocation ends |

How they meet: routers open one transaction per request (`A/db/session.py`); services write
rows and audit events in it. The runner calls the gate step, which calls the
approval service through `ApprovalServiceGateAdapter`. Agents call `LLMClient`,
optionally inside `BudgetEnforcer`; the recorder's buffer is flushed into the request's
transaction. The breaker, bulkhead, cache, budget and usage recorder
are library code: nothing under `src/` but tests uses them yet, and they are
modelled under the concurrency their interface allows (an asyncio event loop
for `acall` and `complete`).

## Modules

| module | models | proofs |
|---|---|---|
| `ApprovalBook` | abstract: a request is opened once, then only settled; the audit history grows with the row | |
| `Approvals` | `ApprovalService` over concurrent transactions; refines `ApprovalBook` | `ApprovalsProofs` |
| `WorkflowRunner` (extends `ApprovalBook`) | `WorkflowRunner.run`, the store, `ApprovalGateStep`, reviewers | `WorkflowProofs` |
| `CircuitBreaker` | one breaker, many callers of `acall` | `ServicesProofs` |
| `LlmGateway` | `BudgetEnforcer` around `LLMClient`, `DbUsageRecorder` | `ServicesProofs` |
| `PolicyVersions` | `PolicyService.set` and `activate` | `RowsProofs` |
| `TestRuns` | `TestRunService.start` and the event loop it runs on | `ServicesProofs` |
| `FeedbackCases` | feedback rows, the case file, promotion to the dataset, the weekly review | `FilesProofs` |
| `ToolRuns` | `ToolRouter.invoke` around a runner and its process | `ServicesProofs` |
| `ExternalIssues` | `create_or_reuse`, `sync_from_provider`, a tracker and its webhooks | `RowsProofs` |
| `ModelLifecycle`, `PromptPins`, `Workspaces` | services that read, check and update by primary key | `RowsProofs`, the types of `ModelLifecycle` in `StoresProofs` |
| `Schema`, `Models` (extends it) | the statements of all revisions; the ORM metadata | |
| `Migrations` (extends `Models`) | `alembic upgrade` and `downgrade` | |
| `Retention` (extends `Schema`), `MCRetention` | the sweep, over the columns and foreign keys of a database | `RulesProofs` |
| `Caches`, `Reliability` | lock-protected primitives in several threads | `PrimitivesProofs` |
| `EvalTrend` | the nightly run, the regression gate, trend and alerts | `RulesProofs` |
| `TestGeneration`, `FailureTriage`, `EvidenceReports` | requests that await a model or a store with a transaction open | `RowsProofs`, the last in `FilesProofs` |
| `ReleaseRisk`, `ErrorBudgets`, `PerfBudgets` (extends `ErrorBudgets`) | what may hold a release back | `RulesProofs` |
| `PromptExperiments` | `PromptRegistry` and `ExperimentSelector` | `RulesProofs` |
| `MCServices` | `TestRuns`, `FeedbackCases`, `CircuitBreaker`, `LlmGateway`, `ToolRuns` | `ServicesProofs` |
| `MCStores` | `PolicyVersions`, everything from `ExternalIssues` to `PromptExperiments`, and the review of `FeedbackCases` | `StoresProofs` |
| `MCApprovals`, `MCWorkflow`, `MCTools`, `MCTrend`, `MCRisk` | symmetry; the constants TLC uses | |

`MCServices` and `MCStores` put components that share nothing but the database server into one
run: `service` and `store` pick one of them at the start, and the others stay as they are. The
states add up, and every property is stated of its own component. `MCServices` has the liveness
properties, `MCStores` what is kept.

Definitions named `X_Mutant` are `X` with one plausible slip; they are part of no
specification. Each property of a passing run is known to fail when one of them
takes the place of its original (`PROJECT.json`, "mutants").

| run | module | shows |
|---|---|---|
| `approvals` | `MCApprovals` | two requests, two overlapping transactions; refinement of `ApprovalBook` |
| `workflow` | `MCWorkflow` | one pass at a time over five steps, with crashes |
| `services` | `MCServices` | what has to end |
| `stores` | `MCStores` | what is kept |
| `approvals_race`, `workflow_repause`, `workflow_shared_key`, `breaker_trial`, `llm_total`, `tool_orphan`, `trend_boundary`, `risk_critical` | | one refuted statement each, see Findings |

### Approvals

A session is a transaction: `Begin` is everything up to the first flush (load,
check, read of the clock), `Flush` one UPDATE under its row lock, `Commit`
publishes the columns the session changed and the audit events, `Rollback` drops
them. That is where the service's atomicity really ends: `_decide`
checks the state it loaded (`approval.py:251`) and the UPDATE that follows
applies to whatever the row holds by then. A late approval sets the row
to expired, flushes, and raises; the router turns that into a 409
and `tenant_scoped_session` rolls back, so session kind `late` never commits and the row stays pending until a sweep.
What still holds under every interleaving:

- `DecidedInTime`: `approved` only with a decision before expiry, `expired` only with one at or after.
- `AuditExplainsRow`: the last audit entry gives state and time; decider and comment come from the
  last entries that set them. Columns are merged, as SQLAlchemy writes only changed ones.
- `OverwrittenOnlyByRacers`: a request has at most one decision per session that
  can be open at the same time.
- `ImplementsBook`: refinement of `ApprovalBook` (`status <- state`, `history` read off the trail).

What does not hold is `DecidedOnce` (`approvals_race`), nor that the first late approval expires the row, as the comment on the auto-expiry and its
test have it (the test's session never rolls back).

Bounds: two requests, two sessions, lifetimes 0 and 1, clock to 1, sweep limit 1. Two
sessions make a race, a third adds only another of the same kind; the limit of 1 with two
requests leaves an overdue row behind; the clock lets a decision fall before, at and after expiry.

### WorkflowRunner

`Load` is the start of `run()` up to the rebuilt `shared` (there is no suspension
point in between), `MarkExecuting` the first write, `StartAttempt` / `Work`, `GateAsk`, `GateLookup` /
`RecordError`, `RecordResult` one attempt, `Proceed`, `Pause`, `Fail`, `Finish` the
writes of the workflow row. `Crash` is possible before each of them, and `Load`
drives a workflow again. The store is taken as durable, as
`WorkflowStore` requires, and rows are copied on the way in. `shared` is kept as
the request ids by key and the set of outputs present. Caller-supplied `initial_shared` is empty.
Reviewers act through `ApprovalBook`, so that a decision may also be
overwritten, as `Approvals` shows it can.

- `WorkBehindGates`: no work step is entered before every gate ahead of it had a request *it
  made itself* approved. It needs gates with keys of their own (`OwnKeys`);
  `workflow_shared_key` shows what the default key does.
- `RowExplained`: with no pass active, done / failed / paused rows are what the step rows say.
- `FinishedStays`: a terminal workflow and a succeeded step stay so (one pass at a time).
- `PassEnds`: every pass ends, under weak fairness of the pass's own steps:
  `run()` is a coroutine that is scheduled until it returns; no fairness is assumed of
  reviewers, crashes, or anybody who starts a pass.
- `workflow_repause` refutes `AsksOnce`, the "Idempotent" of `runtime/approval.py:24`.

Bounds: five steps (work, gate, work, gate, work) put work before, between and behind
gates; the first step has two attempts; three request ids let one gate ask again;
one pass in the run, any number in the proof of `WorkBehindGates`; `RowExplained` and `FinishedStays` are
proved for one pass at a time, whatever keys the gates share.
`MaxDecisions` bounds how often reviewers overwrite a decision.

### CircuitBreaker

`before_call`, `after_success` and `after_failure` have no suspension point and are actions; the
wrapped call is awaited between them. Times are ages up to `recovery_timeout`. A refused call changes
nothing and is a stutter. `Cancel` is `CancelledError`, which `except Exception` does not see.

- `FieldsAgree`: `opened_at` is set exactly when not closed (the code's two assertions), a
  closed breaker is below the threshold, the slot is taken in half-open only.
- `SingleTrial` (with `FieldsAgree`: `BreakerKept`): one trial per half-open phase.
- `Quarantine`: nobody starts within `recovery_timeout` of the failure that opened it, late results included.
- `AdmitsAgain`: infinitely often the breaker would admit a call, or a trial call has been
  cancelled (`lost`): that one leaves it refusing for ever. Fairness: time passes, and wrapped
  calls return (the SDK's timeout ends a provider call, see `R/llm/providers/anthropic.py:94`).
- `breaker_trial` refutes "one trial call decides": a late result decides too.

Bounds: four callers, threshold 2, timeout 2: two failures that open, a trial, and a caller whose
result is late.

### LlmGateway

`Start` runs from the pre-flight check to the first request, `ProviderFails` one provider error
with the retry or failover it causes, `ProviderAnswers` a response up to the return or
exception. `Flush`, `Commit`, `Rollback` are the recorder's.

- `BudgetKept`: for calls that do not overlap, the total is what the charged calls cost, and those
  that were let through keep to the cap together. `llm_total` shows the overlap and the
  uncharged invalid response.
- `FailsOver`: candidates in order, each until it refuses for good or has had `MaxAttempts`;
  giving up only when all configured ones are exhausted.
- `RecordedOnce`: a charge is in the buffer, the open transaction or the table, once, unless a
  rollback after the flush lost it (`lost`).
- `UsageKept` is the three together.
- `CallEnds`: under weak fairness of the provider's answer.

Bounds: two calls, three candidates of which the middle one has no adapter, two attempts, costs
0 and 2 against a cap of 3: the second charge goes over it.

### PolicyVersions

One step per statement. The UPDATE that clears the flag is two: it picks rows from its snapshot
(`FindActive`), waits, and tests them again (`ClearActive`). An INSERT enters the version index
(`TakeKey`) and then the index on the active row (`RaiseFlag`), waiting at each for
transactions that may conflict (`WaitsFor`); a violated index leaves only `Rollback`.

- `ActiveIsAudited`: exactly one version is active from the first activation on, the one the last
  audited change names.
- `VersionsDense`: versions are 1..n, one per committed INSERT.
- `DeadlockNeedsEmptyUpdate`: a circle of waiting transactions needs one whose UPDATE cleared
  nothing because its snapshot was overtaken. PostgreSQL breaks it by a rollback.

`PoliciesKept` is the three together.

Bounds: three sessions (a deadlock, and a third that overtakes), two versions.

### TestRuns

`Check` is the SELECT by key, `Insert` the flush of the new row, `StepDone` and `PassOver` the
runner's pass over its in-memory store with the mirroring that follows, `Commit` what
`tenant_scoped_session` does after the answer, `Lost` a broken connection or a killed process. The session is
synchronous, so between the SELECT and the INSERT's return the event loop runs nothing else
(`LoopFree`), also while the INSERT waits at the unique index for another transaction (`Waits`).
A pass whose runner raises, or that pauses (`AgentTaskState` has no "paused"), ends in a
rollback: nothing is kept of failed and paused runs, though `TestRunState` names both.

- `OnePassPerKey`: at most one pass of a key is under way, none once it has a run.
- `KeptRunsAreDone`: a kept run is done, with a succeeded task per step.
- `DuplicateMeansKept`: a client told 409 finds the run; the rival of a rolled-back call is not refused.
- `RunsKept` is the three together.
- `StartEnds`: a call ends, or calls wait for each other in a circle through an event loop
  (`Frozen`). Two calls with one key in one process suffice: the second one's INSERT holds the
  loop that the first needs to go on, and PostgreSQL sees only one of them wait. Fairness is strong for each call's
  steps, because a call may be held back again and again by others, and the loop's ready queue and the
  database's lock queue serve first come, first served.

Bounds: three calls, two in one process and one in another, two keys, two steps: a circle in one
process, a wait across processes, and a bystander. `Frozen` is defined for circles of any length.

### ExternalIssues

A filing is `Begin` (the moment), `LookUp`, `File` (the provider call, which no rollback undoes),
`CommitLink`, or `CreateFails`: the Jira and GitHub clients have the same control, and the provider refuses, cannot be reached, or
has made an issue whose answer is lost. A webhook is `LoadLink` for any event sent so far (late, repeated, reordered; one that is never
loaded is lost) and `CommitSync`, which writes the columns that differ from the loaded ones.

- `FiledApart`: two links of a signal lie more than the window apart unless the calls overlapped. The docstring
  has it without that exception, but nothing stands between the SELECT and the INSERT: calls that overlap give the tracker two issues.
- `SyncedAsTold` (with `FiledApart`: `IssuesKept`): a link whose UPDATEs never overlapped shows status and date of the event written last.
  That may be an old one: nothing in the code compares dates, so no property says it is the newest.

Bounds: two transactions, one signal, two issues and events, window 1, clock to 2: links within, at
and beyond the window, and a status set, reverted and delivered out of order.

### FeedbackCases

A conversion is `Scan`, `AppendCase`, `CommitConversion` or `FailConversion`; a promotion `ReadCases`, `Choose`,
`WriteCase` per line, `Promoted`, or `KillPromotion` at any point. Lines are appended whole.

- `ConvertedOnFile`: a converted row has its line, only thumbs-down rows have one, the dataset
  holds nothing that is not on file.
- `ScoredOnce`: the dataset holds no case twice, with one promotion at a time (two could
  double lines); overlapping conversions do double lines of the case file.
- `ReviewTells` (in `stores`): the weekly review is two statements, `CountRatings` (the newest `ReviewLimit` rows of its window, of either rating)
  and `ListPending` (the oldest `PendingLimit` that are not converted), read by `ReviewRead`, with ratings and conversions committing between
  them. It lists none that it counted as converted, none from before its window and no more than the limit; a thumbs-down it counted and neither
  saw converted nor lists has been converted since, or as many as the limit that are no younger are listed in its place. Above the
  limit, then, a thumbs-down may be in no list: the review promises the oldest, not all.
- `ScoredEventually`: a line on file reaches the dataset. Weak fairness of promotions stands for the scheduled
  command of `EV/cli.py`; at most `MaxCrashes` of them are killed. Conversions are users' calls and get no fairness.

`FeedbackKept` is the first two together. Bounds: two feedback ids, two conversions, one promotion, one kill;
for the
review three ids at two moments, before and in its window, one conversion and no promotion, two rows counted and one listed, so that both limits
cut something off and a row may be listed that was not counted.

`services` and `stores` have no deadlock check: calls, keys and ids run out, a cancelled trial
closes a breaker for good, and a circle of `TestRuns` is a state `StartEnds` allows.

### ModelLifecycle, PromptPins, Workspaces

Three services that load a row, look at it and send an UPDATE of the changed columns by primary key,
with nothing held in between. `ModelLifecycle` merges columns as SQLAlchemy does, and keeps a trail of
what each transaction had seen; the check for overdue decisions is an action.

- `RegistryKept`: pinned, rejected and deprecated are always backed by decisions on record, whatever
  overlaps; unless transactions overlapped a model is decided once. The overdue list misses nobody and
  pages about nobody that was decided.
- `PinAsAudited`: the pin is what the audit log says last, up to a set that sent nothing because it
  had read the version it asked for; a set does not revive a pin that was deleted under it.
- `LinksKept`: a workspace has two active links only if they were looked for at the same time (no index
  stands behind the check), and never two to one repository; a link whose installation was revoked
  and that is still active shares the installation with one that was unlinked.
- A PATCH ends in a rollback when it left a field out (`Written`, `update`): the default of the field is an Ellipsis and `update()` asks for a sentinel
  of another class.

Bounds: two models, two curators, four audited operations (register, decide, decide, deprecate overlap);
three transactions and three operations on one pin; two transactions, one workspace, two repositories
through one installation, two links.

### Schema, Models, Migrations

`Schema` has `upgrade()` and `downgrade()` of all sixteen revisions as sequences of statements, and
PostgreSQL's conditions and effects of a statement. `Models` has the metadata of the ORM. `Migrations`
runs a command from any revision to any other, one statement at a time in one transaction, and may be killed
between any two. Column types, widths and sort orders are left out; of a CHECK the list of labels is kept.

- `SchemaKept`: no statement ever fails; the revision on record always says which schema there is, so each
  downgrade takes back its upgrade and nothing else; each table with a tenant has row security enabled,
  forced and with a policy; at the head every model lives on its table, as far as that has the model's columns: it gives what the table
  needs, the table has no column the model does not know, keys are the same, and what the model believes unique is.
- `MigrationsDrift.cfg` refutes the "drift" check of `docs/dev/migrations.md`: labels that the models store fail
  the CHECK of their column, `external_issues` has no `created_at`, and the unique versions of a workspace's policies are in no model.

Bounds: none but the sixteen revisions; there are no data in the tables. A downgrade that drops a table drops its rows.

### Caches, Reliability

A step is one critical section. `get_or_compute` is a get, a computation outside the lock, and a set; an
owner edits a source and invalidates afterwards. The clock of a call is read before its lock is taken, so
that moments and locks may come in different orders.

- `CacheKept`: a live value is missing only if `Capacity` other keys have been used since; a stale one
  was computed before its `invalidate()` and set after it.
- `ReliabilityKept`: slots in use are the threads inside; a letter is drained once, in order; two answers to
  one idempotency key are the same response or a TTL apart, and the answer is one to the caller's body.

Bounds: three keys for two places, two clients, one edit; two threads, one slot per workspace, three letters
drained by two, one key with two bodies and a clock that passes its expiry once.

### EvalTrend

A night evaluates every agent, compares with the baseline, appends to the trend agent by agent and then raises the
alerts; the process may stop between any two of these, and the report may be consumed again.

- `AlertsTold`: what the code does. After a night whose alerts went out, the agents reported as regressed are those that are
  worse than their baseline in a dimension both have; a decline over the window is reported if every night in it was
  consumed in one go. A repeated entry hides a decline (`trend.py:195`), and a dimension that the new scorecard lacks is no regression.
- `trend_boundary` refutes `DropExceeds`, the "by more than `decline_threshold`" of the docstrings: line 226 lets a drop pass only below the
  threshold, so one that is exactly as large is told.

Bounds: two agents, one without a baseline; three scorecards with overall rates 4, 3 and 1 against a threshold of 2, so that a drop is below it, at
it or beyond it; three nights, window 2.

### TestGeneration, FailureTriage, EvidenceReports

`TestGeneration`: `ingest`, `plan` and the two generators over a requirement, its plans and their cases. A
generation reads the cases' metadata, awaits the model and writes it back whole; a statement that waits for a row
lock holds the event loop, and with it the commits of its process.

- `GeneratedCodeKept`: a case has the code of the last generation of its kind, or a writer overlapped with
  that; nothing of a rolled-back generation is on any case. Overlapping API and UI generations do lose each other's code.

`FailureTriage`: results of one test are recorded, some late; a client asks for the flip rate, puts it on a signal
and has it classified by status, text rule, flip rate, or a model.

- `FlakyNotBlamed`: the heuristic says flaky only if both verdicts were on record in the last 90 days when the client
  asked; it blames the product for no test known to alternate; 401, 403 and 408 stay the environment's.

`EvidenceReports`: `created_at` is fixed when the transaction begins, the report shows what is committed when it is
rendered, the object is put in a dictionary of the process, the answer goes out before the commit.

- `ReportsKept`: a committed row has its object until its process restarts, and no two rows the same bytes; the
  report that is fetched as newest shows every failure another one showed, except one that was opened first and rendered later.

Bounds: three generating calls in two processes, one plan of two cases; three results over windows of 0, 1 and 2 days
with a clock that goes one day past the longest; two reports, two processes, one restart, two seconds.

### Retention

One transaction through the classes in the order of the registry, and of each class through its buckets: one statement counts
(`CountBucket`) and another deletes (`DeleteBucket`), and each sees what was committed by then. Other transactions insert rows,
observations also with a day that is long past, and activate policies with other windows meanwhile; deletes reach other tables by the `ON DELETE`
of the database. That is a constant, since there are two: the tables of the ORM models and those of the migrations.

- `SweepsByRule`: only what is past its own window by the policies the sweep began with goes, and what the foreign keys take along; all that was
  past it when the sweep began does; `audit_events` never; no reference dangles; a dry run deletes nothing.
  A row that hangs on a deleted one goes however long its own retention is, and is not counted. An observation of long ago that
  is inserted meanwhile may go or stay, by where the sweep has come to.
- `MCRetentionMigrated.cfg` refutes that each class is pruned on schedule: the migrations give `external_issues` no `created_at`, so that on a
  migrated database every sweep, dry or not, fails at that class and rolls back what it has deleted in the others.

Bounds: five rows (a run, a verdict and a usage record that refer to it, an observation, an audit event), windows 0, 1, 2, days 0 to 2. A day of the
model stands for many and a window is rounded down to it: a row of a window of 0 goes a day later. The run is over the tables of the models, where a sweep
comes to its end.

### ReleaseRisk, ErrorBudgets, PerfBudgets

Fractions are exact: thousandths for objectives, 1/10000 for contributions. For the default objectives that agrees
with the code's floats (tried for .95 and .999 up to 3000 samples).

- `RiskNeverEased`: a candidate that is no better in any input has no lower score and no easier recommendation.
- `ReleaseRiskThreeSignals.cfg` and `risk_critical` refute two statements about the score: three signals that are to land in HIGH or CRITICAL alone weigh 40 of
  100, and a critical failure is to mean NO_GO whatever the band, which the code does not look at.
- `BudgetsKept`: a freeze of an SLO eases and tightens only for samples of its own, needs a bad one in the
  window, and is hard exactly when the budget is used up; a load test fails exactly if one of its samples
  would use up the SLO of the same capability.

Bounds: nine of the ten drivers of the score between the ends of their range, in any combination; two SLOs with
different indicators and objectives, batches of 1 and 25 samples (a miss that counts and one that drowns), days 0, 8 and 31, on either side
of the 7-day and 30-day windows.

### PromptExperiments

A deploy brings another registry, an experiment is made anew, ramped or switched off, and callers ask for a variant in
between. A variant whose version the registry lacks falls back to the selector's own version or the latest. The
hash of experiment and key is the constant `Bucket`, a hundredth of [0, 1), and weights are hundredths.

- `AssignmentsKept`: when the same variants are weighed anew a caller moves only with the weight, so that a
  ramp that takes from the variants in front moves nobody back to them; of a hundred callers spread evenly each variant
  gets its weight, up to the hundredth by which the weights may miss the whole.

Bounds: two registries, a ramp from 10 to 50, three variants whose weights sum up to 99 or 101 (the tolerance) or are refused
beyond it, one caller whose bucket is at a border, two selections.

### ToolRuns

A step is what the event loop does between two suspension points: spawning, `communicate()`, the `wait()` after a
kill. Time is what is left of the router's timer and the runner's.

- `ToolsKept`: every invocation whose end its caller saw is on the ledger once, as what it was, and no verdict
  is one of a killed or running process; a process without its directory had its run cancelled before the runner's timer ended.
- `InvokeEnds`: under weak fairness of the clock and of the router's timer, which the event loop serves; nothing
  is assumed of processes.
- `tool_orphan` refutes that "a misbehaving tool cannot exceed declared ... wallclock": the cancelled run leaves its process.

Bounds: two invocations, timers of one or two seconds: either timer first, both at once, and neither.

## Proofs

TLAPS proves, for all values of the constants under the named `ASSUME`s:

- `ApprovalsProofs`: `TypeCorrect`, `DecisionsInTime`, `Refinement`, `AuditExplains`, `RacersBound`. The inductive invariant says
  what an open session has in hand: a request holds one row that is not there yet, the others hold
  rows that are; a session about to approve read the clock before the expiry of the row it loaded,
  one about to expire read it at or after, and that comparison keeps standing because an expiry
  never changes; a row lock has one holder. Without it the UPDATE by id could not be shown to be in time.
  `AuditExplains` states "the last who gave one" as a relation (`Tells`) that appending an entry keeps or moves on, in place of a
  CHOOSE over the trail. `RacersBound` (finite `Sessions`): a request has at most one decision more than there are sessions no
  longer at it, since nobody loads a row that is not pending any more.
- `WorkflowProofs`: `TypeCorrect` and `GatesHold` under `OwnKeys`. The invariant follows a request id
  on its way: every id found in a row, in a pass's `shared`, or returned by a gate
  under gate g's key is a request g owns; a gate recorded or seen as succeeded is cleared; a pass
  at step i has cleared all gates before i. Histories only grow, so cleared stays cleared.
  Least-element reasoning for `NextFrom` comes from well-foundedness of the natural numbers.
  `RowTellsTrue` and `ResumeIdempotent` need no keys but one pass at a time (`OnePass`), as their runs do: what the
  pass skips or has left behind is recorded as succeeded with its output in hand, nothing ahead of it has succeeded since
  it began, its attempts are within the step's, and while it is active the row is not terminal. It holds at every crash.
- `PrimitivesProofs`: `ReliablePrimitives`, `CacheTypeCorrect`, `CacheRemembers`. A slot counter is the number of threads inside, which
  is finite; a stored response that replaced another was made when that one had ended, so answers given from any two are a TTL apart,
  although clocks are read before the lock. The entries of the cache stand in the order of their last use, so that one that
  falls out at the front has seen `Capacity` other keys used; a value that is no longer its source's is known to be late.
- `ServicesProofs`, the services that end. *The gateway* (`GatewayTypeCorrect`, `GatewayAccounts`): a waiting call
  has exhausted all configured candidates before its own and tried none after it; unless calls have overlapped, one waits at most and what it
  read of the total still stands. *Tools* (`ToolTypeCorrect`, `ToolRunsTell`): an invocation with an end to tell has one ledger entry, another
  none, and what a process can be follows from where its invocation is (finitely many invocations, for the count of the ledger).
  *Test runs* (`RunTypeCorrect`, `RunsBacked`, by `OnePass`, `OnlyDoneKept`, `RefusedForKept`): a key is
  held by one call and has no run as long as it is, and a pass under way has only
  successes behind it, an answered one a success for every step. `OnePass` rests on the index alone, not
  on the event loop: `LoopFree` is used nowhere in the proof. *The breaker* (`BreakerSound`, `Quarantined`, by `FieldsCorrect`, `OneTrial`):
  a trial call exists in half-open only, with the slot taken, and there is at most one; the
  age of the last opening failure is `opened_at`'s while open, and at least `recovery_timeout` otherwise.
- `FilesProofs`: `FeedbackScored`, `ReviewKept`, `ReportsBacked` and the types of both modules. A conversion or promotion under way carries
  only lines of the case file, and a promotion none that is in the dataset (one promotion at a time, any number
  of conversions). What a review counted as converted stays so until it is read, rows keep their rating and time, and one that is
  left out of a list of the oldest is no older than any in it.
  Report transactions are numbered as they begin, and what one rendered before another began shows no more than the other will; the row
  that is fetched exists by well-foundedness.
- `RowsProofs`: `IssuesTold`, `PinsAudited`, `LinksStayApart`, `RegistryBacked`, `CodeAsAudited`, `BlamesByRecord`, the services that load rows and write them later. Each invariant
  says what a transaction holds against what has become of the row: links a filing saw are still there, further back
  than the window; a pin that was read is the pin, or something was audited since; what a `link()` did not see active never
  gets active again; a model's row that was loaded is the row as it was after as many entries of its trail; an open
  generation holds, for each case it read, what the log told of its code when it was read, and `CodeAsAudited` follows when that is written back;
  a signal's flip rate tells of the results it was computed from, which later ones leave as they were. A positive rate means both
  verdicts, and a rate of 100 an alternating test, because the order of a window is a bijection, so neighbours have nothing between them.
  *Policies* (`PolicyTypeCorrect`, `OneActivePolicy`): a version in the index is the next one after those
  committed (`PickInv`); locks are disjoint and on active rows (`LockInv`); one session at a time is in the index on the active
  row, and whoever is has cleared every other (`FlagInv`). Two sessions that wait for each other therefore cannot both
  have cleared something. The type theorems (`IssueTypeCorrect`, `PinTypeCorrect`, `WorkspaceTypeCorrect`, `GenerationTypeCorrect`,
  `TriageTypeCorrect`) add the locals: of a `link()` that its name is that of a repository, of a generation that the cases it means to
  write are among those it read, so that what is written back has the shape of what was there.
- `RulesProofs`: what the system tells or decides by rule, for every value of what it is made with.
  - *Sums.* What a fold comes to is proved by descent. If a claim about the sum over a finite set fails, it fails for a set with the fewest
    elements; unfolding the fold there once leads to a smaller one. From that come sums term by term, bounds and splits.
    What a recursive function over numbers computes is proved the same way from the least number at which it fails.
  - *Nightly* (`TrendTypeCorrect`, `AlertsTellTheTrend`): the entries of an agent are those of nights in their order, with one of each
    night that was consumed in one go; what is raised is so, and what is so is raised once its agent was consumed and told once the night
    has ended, wherever the process died. The last entries of such a history are the window itself, and then the pairwise comparison
    of the code is the decline.
  - *Experiments* (`ExperimentsKeepAssignments`): of cumulated weights that never go down a bucket falls to the first end
    beyond it. Of two ways to weigh the same variants the one with no later ends gives no bucket an earlier variant, which is
    that nobody moves back; and the buckets of a variant are the numbers between two ends, as many as its weight.
  - *SLOs* (`FreezesAreEarned`, `PerfMirrors`, `BudgetsBacked`): each level of a freeze begins at a line in the plane of good and bad samples, so
    fewer good and more bad ones never cross one backwards; the last line is the objective itself.
  - *Risk* (`RiskIsNeverEased`): rounding keeps the order of fractions, so no driver and no sum of them gets less for an input that
    is no better; the bands are in the order of the scores.
  - *Retention* (`RetentionTypeCorrect`, `SweptByRule`), for every database: what is gone is closed under the cascade, and in every closed
    set that has the rows past their window; the due rows of the buckets that are done are gone. Rows that others insert refer to none that
    is, so what is gone stays closed; what is due is fixed by the policies at the start and by dates that no one changes.
- `StoresProofs` and the end of `ServicesProofs`: a behaviour of `MCStores` or `MCServices` is one of every part (`StoresAreParts`,
  `ServicesAreParts`: the part that runs takes its own steps, the others none; of the feedback, whose fairness the services ask only while it runs,
  the safety part). So what was proved of each holds of the composition: `StoresTypeCorrect` and
  `ServicesTypeCorrect`, `StoresKeep` and `ServicesKeep`, the latter for one promotion of feedback at a time. `LifecycleTypeCorrect` is here because the
  bound on the trails of all models is a sum.

The assumptions say what the constants stand for: times, bounds, windows and thresholds are numbers; a null or a "no row" is no value of its
column; a scorecard has means and rates between nothing and the whole, an agent is a target once; buckets are hundredths and a registry has
finitely many versions, none of which is the word for the newest; the rows of a sweep and the models of the registry are finitely many; the windows of
a class are days. `Feedback # {}` and `Signals # {}` are there because a call that is not under way is about an arbitrary one. None of them bounds
the size of anything but by finiteness.

Model-checked only:

- Liveness (`PassEnds`, `AdmitsAgain`, `CallEnds`, `StartEnds`, `ScoredEventually`, `InvokeEnds`): it rests on fairness and so on ENABLED, which
  is out of the prover's reach.
- `SchemaKept`, and with it the part of `StoresTypeOK` about the migrations. The schema and its revisions have no parameter and TLC visits
  every state of them, so that a proof could say nothing more; and the statements are functions written with `:>` and `@@`, which the
  provers do not know. `StoresTypeCorrect` therefore says `store # "migrations"`.

## Findings

Eight runs refute what a docstring or a document says; `PROJECT.json`, "findings", quotes the lines: a second
decision overwrites the first (`approvals_race`), a gate asks twice (`workflow_repause`), a gate does not ask at all (`workflow_shared_key`),
a late result decides the half-open phase (`breaker_trial`), the budget does not accumulate every call (`llm_total`), a tool outlives its
invocation (`tool_orphan`), a drop of exactly the threshold is a decline (`trend_boundary`), critical failures do not block a release (`risk_critical`).

Three more configurations, beside the runs that `PROJECT.json` lists, each have TLC find one definition violated:

- `MigrationsDrift.cfg` (`Migrations`), `NoDrift`. The enum columns of the models are declared without `values_callable` (`workspace.py:54`,
  `requirement.py:51`, `test_plan.py:68`, `test_run.py:84`, `failure_classification.py:66`), so they store the names of the members, and the CHECKs of the
  migrations list the values: an INSERT that passes on the tests' schema fails on a migrated one. `external_issues` has no `created_at` there, and the
  unique versions of a workspace's policies are in no model. `docs/dev/migrations.md:55-57` has the build fail on drift.
- `MCRetentionMigrated.cfg` (`MCRetention`), `EachClassPruned`. That column is the one the sweep selects by (`retention.py:126-130`): on a migrated database
  every sweep fails, and takes back what it did to the eight classes before.
- `ReleaseRiskThreeSignals.cfg` (`MCRisk`), `ThreeSignalsAreHigh`. All tests failed, high sensitivity and recent incidents weigh 40 of 100, a medium risk
  (`scorer.py:94-97`).

Seen while modelling, without a configuration of their own, and kept in the models as the code has it:

- The fields of `WorkspaceUpdate` default to `...` (`routers/workspaces.py:74`) and `update()` asks for a `_Sentinel` (`workspace.py:176`): a PATCH writes
  an Ellipsis to what it left out, and the request fails, though `routers/workspaces.py:140-141` has it not touch the field (`Workspaces`).
- The expiry that a late approval flushes is rolled back by the exception that follows it (`approval.py:272`), though line 261 has a stale row expire on the
  first attempt (`Approvals`); two filings that overlap give one signal two issues (`external_issue.py:92`), which its docstring rules out (`ExternalIssues`).
- Revisions make no `updated_at` trigger for `approval_requests`, `prompt_pins` and `model_registry`, so raw SQL leaves the column alone (`Schema`).
- A rename in `WorkspaceService.update` onto a taken name ends in the unique index, an unhandled error rather than the 409 of
  `create`; `unlink()` keeps its row locked while it waits for GitHub (`Workspaces`).
- Two report requests of one run in one process and one second render the same key, and the second INSERT waits on
  the event loop that the first one's commit needs, as in `TestRuns` (`EvidenceReports`).
- `http_timeout_status` in `heuristic.py` cannot match 504, since the rule before it takes all of 5xx; classifying a signal twice
  stores two rows (`FailureTriage`).
- A requirement whose parsing failed can be planned; which of two cases of one title a generated test goes to is arbitrary (`TestGeneration`).
- An SLO with no sample in its window is at 100 %; a sample from the future counts; one sample without its
  field makes the whole evaluation raise (`ErrorBudgets`).
- Agents whose names become the same directory name share a trend (`trend.py`).

## What is left

Every safety property a run checks is proved, but for `SchemaKept`. Left are extensions: torn lines after a crash in
`FeedbackCases`; issue numbers of several repositories in `ExternalIssues`; snapshot comparison of the database validator.

## Not modelled

Text processing (parsers, redaction, prompts, renderers, the guard of the database validator), pure lookups (permissions,
feature flags, incident severity, pricing), reads (list, query and access-review services), the inside of external programs
(newman, playwright, pytest), signing, the web console, SDKs and deployment files: no state whose order of
change matters, or pure input and output. `tenant_scoped_session` is modelled by its commit and rollback; the tenant it
sets is not, the row security of every table is part of `SchemaKept`. The full list with reasons is in `PROJECT.json`, "components".

## Running

`tlc -config MCApprovals.cfg MCApprovals`, and likewise for every `.cfg` with the module named in
`PROJECT.json`; `tlapm ApprovalsProofs.tla` and likewise for the other proof modules.
