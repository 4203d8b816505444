------------------------------ MODULE MCStores ------------------------------
(***************************************************************************)
(* The parts of the system that keep something: rows, caches, the schema,  *)
(* tests, verdicts and reports.                                            *)
(* As in MCServices a behaviour is one of a single part, chosen at the     *)
(* start.                                                                  *)
(***************************************************************************)
EXTENDS PolicyVersions, ModelLifecycle, PromptPins, Workspaces, ExternalIssues,
        Caches, Reliability, MCTrend, Migrations, MCRetention,
        TestGeneration, FailureTriage, EvidenceReports, MCRisk,
        PerfBudgets, FeedbackCases, PromptExperiments, TLC

CONSTANTS
  r1, r2,                 \* repositories, of the same installation
  q1, q2, q3              \* calls that generate tests: two in one process, one in another

VARIABLE store

MCInstallation == (r1 :> "i") @@ (r2 :> "i")

MCHome == (q1 :> 1) @@ (q2 :> 1) @@ (q3 :> 2)
Case(title, type) == [title |-> title, type |-> type]
MCOutlines == {<<Case("login", "smoke"), Case("login", "api")>>, <<Case("pay", "regression")>>}

MCTexts == {{}, {"assertion_failure", "python_traceback"}}

(* Two registries, of which the newer one has given up a version and has a *)
(* pre-release; a ramp of two variants, and three whose weights miss the   *)
(* whole on either side.                                                   *)
v1_0 == <<10, 9>>
v1_1 == <<11, 9>>
MCBuilds  == {{v1_0, v1_1}, {v1_1, <<12, 1>>}}
Arm(name, version, share) == [name |-> name, version |-> version, weight |-> share]
MCDesigns ==
  {<<Arm("control", v1_1, 100 - n), Arm("treatment", v1_0, n)>> : n \in {10, 50}} \cup
  {<<Arm("a", v1_0, 33), Arm("b", v1_1, n), Arm("c", v1_1, 33)>> : n \in {33, 35, 36}}
MCBucket  == "w1" :> 66

gateVars   == <<riskVars, budgetVars, perfVars>>
rowVars    == <<policyVars, lifecycleVars, pinVars, workspaceVars, issueVars>>
memoryVars == <<cacheVars, reliabilityVars, trendVars, migrationVars, retentionVars>>
resultVars == <<generationVars, triageVars, evidenceVars, gateVars>>
agentVars  == <<feedbackVars, experimentVars>>
storeVars  == <<store, rowVars, memoryVars, resultVars, agentVars>>

StoresInit ==
  /\ store \in {"policies", "models", "pins", "workspaces", "issues", "caches", "reliability",
                "trend", "migrations", "retention", "tests", "triage", "reports", "risk",
                "budgets", "perf", "review", "experiments"}
  /\ PolicyInit /\ LifecycleInit /\ PinInit /\ WorkspaceInit /\ IssueInit
  /\ CacheInit /\ ReliabilityInit /\ TrendInit /\ MigrationInit /\ RetentionInit
  /\ GenerationInit /\ TriageInit /\ ReportInit
  /\ RiskInit /\ BudgetInit /\ PerfInit /\ FeedbackInit /\ ExperimentInit

RowsStep ==
  \/ /\ store = "policies" /\ PolicyNext
     /\ UNCHANGED <<lifecycleVars, pinVars, workspaceVars, issueVars>>
  \/ /\ store = "models" /\ LifecycleNext
     /\ UNCHANGED <<policyVars, pinVars, workspaceVars, issueVars>>
  \/ /\ store = "pins" /\ PinNext
     /\ UNCHANGED <<policyVars, lifecycleVars, workspaceVars, issueVars>>
  \/ /\ store = "workspaces" /\ WorkspaceNext
     /\ UNCHANGED <<policyVars, lifecycleVars, pinVars, issueVars>>
  \/ /\ store = "issues" /\ IssueNext
     /\ UNCHANGED <<policyVars, lifecycleVars, pinVars, workspaceVars>>

MemoryStep ==
  \/ /\ store = "caches" /\ CacheNext
     /\ UNCHANGED <<reliabilityVars, trendVars, migrationVars, retentionVars>>
  \/ /\ store = "reliability" /\ ReliabilityNext
     /\ UNCHANGED <<cacheVars, trendVars, migrationVars, retentionVars>>
  \/ /\ store = "trend" /\ TrendNext
     /\ UNCHANGED <<cacheVars, reliabilityVars, migrationVars, retentionVars>>
  \/ /\ store = "migrations" /\ MigrationNext
     /\ UNCHANGED <<cacheVars, reliabilityVars, trendVars, retentionVars>>
  \/ /\ store = "retention" /\ RetentionNext
     /\ UNCHANGED <<cacheVars, reliabilityVars, trendVars, migrationVars>>

ResultStep ==
  \/ store = "tests"   /\ GenerationNext /\ UNCHANGED <<triageVars, evidenceVars, gateVars>>
  \/ store = "triage"  /\ TriageNext     /\ UNCHANGED <<generationVars, evidenceVars, gateVars>>
  \/ store = "reports" /\ ReportNext     /\ UNCHANGED <<generationVars, triageVars, gateVars>>
  \/ /\ UNCHANGED <<generationVars, triageVars, evidenceVars>>
     /\ \/ store = "risk"    /\ RiskNext   /\ UNCHANGED <<budgetVars, perfVars>>
        \/ store = "budgets" /\ BudgetNext /\ UNCHANGED <<riskVars, perfVars>>
        \/ store = "perf"    /\ PerfNext   /\ UNCHANGED <<riskVars, budgetVars>>

(* The review reads no file: promotions have no part in it. *)
AgentStep ==
  \/ /\ store = "review" /\ UNCHANGED <<dataset, promoteVars, experimentVars>>
     /\ FeedbackNext
  \/ store = "experiments" /\ ExperimentNext /\ UNCHANGED feedbackVars

StoresNext ==
  /\ UNCHANGED store
  /\ \/ RowsStep   /\ UNCHANGED <<memoryVars, resultVars, agentVars>>
     \/ MemoryStep /\ UNCHANGED <<rowVars, resultVars, agentVars>>
     \/ ResultStep /\ UNCHANGED <<rowVars, memoryVars, agentVars>>
     \/ AgentStep  /\ UNCHANGED <<rowVars, memoryVars, resultVars>>

StoresSpec == StoresInit /\ [][StoresNext]_storeVars

(* Every column and every local of the part that runs keeps its type; the  *)
(* others stay as they begin.                                              *)
StoresTypeOK ==
  CASE store = "policies"    -> PolicyTypeOK
    [] store = "models"      -> LifecycleTypeOK
    [] store = "pins"        -> PinTypeOK
    [] store = "workspaces"  -> WorkspaceTypeOK
    [] store = "issues"      -> IssueTypeOK
    [] store = "caches"      -> CacheTypeOK
    [] store = "reliability" -> ReliabilityTypeOK
    [] store = "trend"       -> TrendTypeOK
    [] store = "migrations"  -> MigrationTypeOK
    [] store = "retention"   -> RetentionTypeOK
    [] store = "tests"       -> GenerationTypeOK
    [] store = "triage"      -> TriageTypeOK
    [] store = "reports"     -> ReportTypeOK
    [] store = "risk"        -> RiskTypeOK
    [] store = "budgets"     -> BudgetTypeOK
    [] store = "perf"        -> PerfTypeOK
    [] store = "review"      -> FeedbackTypeOK
    [] store = "experiments" -> ExperimentTypeOK
=============================================================================
