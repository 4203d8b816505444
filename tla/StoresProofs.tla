---------------------------- MODULE StoresProofs ----------------------------
(***************************************************************************)
(* The stores together: the type of the model registry, whose trail is     *)
(* bounded by a sum, and what the proofs about the parts say of a          *)
(* behaviour that is one of a single part.                                 *)
(***************************************************************************)
EXTENDS MCStores, RowsProofs, FilesProofs, PrimitivesProofs, RulesProofs

-----------------------------------------------------------------------------
(* The registry of models: no trail gets longer than all of them may be.   *)

TrailsBounded == \A m \in Releases : Len(trail[m]) <= MaxTrail

LEMMA RoomIs ==
  ASSUME MInv, Room, NEW m \in Releases
  PROVE  Len(trail[m]) < MaxTrail
<1> DEFINE f == [r \in Releases |-> Len(trail[r])]
<1>1. IsFiniteSet(Releases) /\ MaxTrail \in Nat
  BY LifecycleAssumption
<1>2. f \in [Releases -> Nat] /\ f[m] = Len(trail[m])
  BY LenProperties DEF MInv
<1>3. SumFunctionOnSet(f, Releases) < MaxTrail
  BY DEF Room, SumFunction, SumFunctionOnSet, FoldFunction, FoldFunctionOnSet
<1> HIDE DEF f
<1>4. SumFunctionOnSet(f, Releases) = f[m] + SumFunctionOnSet(f, Releases \ {m})
  BY <1>1, <1>2, SumAdd
<1>5. SumFunctionOnSet(f, Releases \ {m}) \in Nat
  BY <1>1, <1>2, FS_Subset, SumNat
<1>. QED
  BY <1>1, <1>2, <1>3, <1>4, <1>5

LEMMA TrailsStep ==
  MInv /\ TrailsBounded /\ [LifecycleNext]_lifecycleVars => TrailsBounded'
<1> SUFFICES ASSUME MInv, TrailsBounded, [LifecycleNext]_lifecycleVars PROVE TrailsBounded'
  OBVIOUS
<1>1. CASE trail' = trail
  BY <1>1 DEF TrailsBounded
<1>2. ASSUME NEW s \in Curators, CuratorCommits(s) PROVE TrailsBounded'
  <2>1. PICK m, e : trail' = [trail EXCEPT ![m] = Append(trail[m], e)] /\ Room
    BY <1>2 DEF CuratorCommits
  <2>2. ASSUME NEW r \in Releases PROVE Len(trail'[r]) <= MaxTrail
    <3>1. CASE r = m
      <4>1. trail[r] \in Seq(TrailEntry) /\ DOMAIN trail = Releases
        BY DEF MInv
      <4>2. Len(trail[r]) < MaxTrail /\ Len(trail[r]) \in Nat
        BY <2>1, <4>1, RoomIs, LenProperties
      <4>3. Len(trail'[r]) = Len(trail[r]) + 1
        BY <2>1, <3>1, <4>1
      <4>. QED
        BY <4>2, <4>3, LifecycleAssumption
    <3>2. CASE r # m
      <4>1. trail'[r] = trail[r]
        BY <2>1, <3>2 DEF MInv
      <4>. QED
        BY <4>1 DEF TrailsBounded
    <3>. QED
      BY <3>1, <3>2
  <2>. QED
    BY <2>2 DEF TrailsBounded
<1>3. ASSUME NEW s \in Curators, NEW m \in Releases,
             \/ \E date \in 0..ReleaseTime :
                  Load(s, "register", m, date) \/ Load(s, "deprecate", m, date)
             \/ \E c \in Scorecards : Load(s, "scorecard", m, c)
             \/ \E d \in Verdicts : Load(s, d, m, Null)
      PROVE  TrailsBounded'
  BY <1>1, <1>3 DEF Load, registryVars
<1>4. ASSUME NEW s \in Curators, CuratorFails(s) PROVE TrailsBounded'
  BY <1>1, <1>4 DEF CuratorFails, registryVars
<1>5. CASE DayPasses \/ UNCHANGED lifecycleVars
  BY <1>1, <1>5 DEF DayPasses, lifecycleVars, registryVars
<1>. QED
  BY <1>2, <1>3, <1>4, <1>5 DEF LifecycleNext

(* Rows, trails and transactions of the registry keep their types.         *)
THEOREM LifecycleTypeCorrect == LifecycleSpec => []LifecycleTypeOK
<1>1. LifecycleInit => TrailsBounded
  BY LifecycleAssumption DEF LifecycleInit, TrailsBounded
<1>2. MInv /\ TrailsBounded => LifecycleTypeOK
  BY DEF MInv, TrailsBounded, LifecycleTypeOK
<1>. QED
  BY MInit, MNext, TrailsStep, <1>1, <1>2, PTL DEF LifecycleSpec

-----------------------------------------------------------------------------
(* A part moves by its own steps or not at all. *)

LEMMA RowsMove ==
  ASSUME [StoresNext]_storeVars
  PROVE  /\ [PolicyNext]_policyVars /\ [LifecycleNext]_lifecycleVars /\ [PinNext]_pinVars
         /\ [WorkspaceNext]_workspaceVars /\ [IssueNext]_issueVars
<1>1. RowsStep \/ UNCHANGED rowVars
  BY DEF StoresNext, storeVars
<1>. QED
  BY <1>1 DEF RowsStep, rowVars

LEMMA MemoryMoves ==
  ASSUME [StoresNext]_storeVars
  PROVE  /\ [CacheNext]_cacheVars /\ [ReliabilityNext]_reliabilityVars /\ [TrendNext]_trendVars
         /\ [MigrationNext]_migrationVars /\ [RetentionNext]_retentionVars
<1>1. MemoryStep \/ UNCHANGED memoryVars
  BY DEF StoresNext, storeVars
<1>. QED
  BY <1>1 DEF MemoryStep, memoryVars

LEMMA ResultsMove ==
  ASSUME [StoresNext]_storeVars
  PROVE  /\ [GenerationNext]_generationVars /\ [TriageNext]_triageVars /\ [ReportNext]_evidenceVars
         /\ [RiskNext]_riskVars /\ [BudgetNext]_budgetVars /\ [PerfNext]_perfVars
<1>1. ResultStep \/ UNCHANGED resultVars
  BY DEF StoresNext, storeVars
<1>. QED
  BY <1>1 DEF ResultStep, resultVars, gateVars

LEMMA AgentsMove ==
  ASSUME [StoresNext]_storeVars
  PROVE  [FeedbackNext]_feedbackVars /\ [ExperimentNext]_experimentVars
<1>1. AgentStep \/ UNCHANGED agentVars
  BY DEF StoresNext, storeVars
<1>. QED
  BY <1>1 DEF AgentStep, agentVars

(* A behaviour of the stores is one of each of them, of the feedback but   *)
(* for its fairness.                                                       *)
THEOREM StoresAreParts ==
  StoresSpec => /\ PolicySpec /\ LifecycleSpec /\ PinSpec /\ WorkspaceSpec /\ IssueSpec
                /\ CacheSpec /\ ReliabilitySpec /\ TrendSpec /\ MigrationSpec /\ RetentionSpec
                /\ GenerationSpec /\ TriageSpec /\ ReportSpec
                /\ RiskSpec /\ BudgetSpec /\ PerfSpec /\ ExperimentSpec
                /\ FeedbackInit /\ [][FeedbackNext]_feedbackVars
<1>1. StoresInit =>
        /\ PolicyInit /\ LifecycleInit /\ PinInit /\ WorkspaceInit /\ IssueInit
        /\ CacheInit /\ ReliabilityInit /\ TrendInit /\ MigrationInit /\ RetentionInit
        /\ GenerationInit /\ TriageInit /\ ReportInit
        /\ RiskInit /\ BudgetInit /\ PerfInit /\ FeedbackInit /\ ExperimentInit
  BY DEF StoresInit
<1>2. StoresSpec => PolicySpec /\ LifecycleSpec /\ PinSpec /\ WorkspaceSpec /\ IssueSpec
  BY <1>1, RowsMove, PTL DEF StoresSpec, PolicySpec, LifecycleSpec, PinSpec, WorkspaceSpec, IssueSpec
<1>3. StoresSpec => CacheSpec /\ ReliabilitySpec /\ TrendSpec /\ MigrationSpec /\ RetentionSpec
  BY <1>1, MemoryMoves, PTL
     DEF StoresSpec, CacheSpec, ReliabilitySpec, TrendSpec, MigrationSpec, RetentionSpec
<1>4. StoresSpec => /\ GenerationSpec /\ TriageSpec /\ ReportSpec
                    /\ RiskSpec /\ BudgetSpec /\ PerfSpec
  BY <1>1, ResultsMove, PTL
     DEF StoresSpec, GenerationSpec, TriageSpec, ReportSpec, RiskSpec, BudgetSpec, PerfSpec
<1>5. StoresSpec => ExperimentSpec /\ FeedbackInit /\ [][FeedbackNext]_feedbackVars
  BY <1>1, AgentsMove, PTL DEF StoresSpec, ExperimentSpec
<1>. QED
  BY <1>2, <1>3, <1>4, <1>5

(* Every column and every local of the part that runs keeps its type, but  *)
(* for the migrations, whose statements are data.                          *)
THEOREM StoresTypeCorrect == StoresSpec => [](store # "migrations" => StoresTypeOK)
<1> DEFINE IsPart == store \in {"policies", "models", "pins", "workspaces", "issues", "caches",
              "reliability", "trend", "migrations", "retention", "tests", "triage", "reports",
              "risk", "budgets", "perf", "review", "experiments"}
           Types == /\ PolicyTypeOK /\ LifecycleTypeOK /\ PinTypeOK /\ WorkspaceTypeOK /\ IssueTypeOK
                    /\ CacheTypeOK /\ ReliabilityTypeOK /\ TrendTypeOK /\ RetentionTypeOK
                    /\ GenerationTypeOK /\ TriageTypeOK /\ ReportTypeOK
                    /\ RiskTypeOK /\ BudgetTypeOK /\ PerfTypeOK /\ FeedbackTypeOK /\ ExperimentTypeOK
<1>1. StoresInit => IsPart
  BY DEF StoresInit
<1>2. IsPart /\ [StoresNext]_storeVars => IsPart'
  BY DEF StoresNext, storeVars
<1>3. IsPart /\ Types => (store # "migrations" => StoresTypeOK)
  BY DEF StoresTypeOK
<1>4. StoresSpec => []IsPart
  BY <1>1, <1>2, PTL DEF StoresSpec
<1>5. StoresSpec => [](PolicyTypeOK /\ LifecycleTypeOK /\ PinTypeOK /\ WorkspaceTypeOK /\ IssueTypeOK)
  BY StoresAreParts, PolicyTypeCorrect, LifecycleTypeCorrect, PinTypeCorrect, WorkspaceTypeCorrect,
     IssueTypeCorrect, PTL
<1>6. StoresSpec => [](CacheTypeOK /\ ReliabilityTypeOK /\ TrendTypeOK /\ RetentionTypeOK)
  BY StoresAreParts, CacheTypeCorrect, ReliabilityTypeCorrect, TrendTypeCorrect,
     RetentionTypeCorrect, PTL
<1>7. StoresSpec => [](GenerationTypeOK /\ TriageTypeOK /\ ReportTypeOK)
  BY StoresAreParts, GenerationTypeCorrect, TriageTypeCorrect, ReportTypeCorrect, PTL
<1>8. StoresSpec => [](RiskTypeOK /\ BudgetTypeOK /\ PerfTypeOK /\ FeedbackTypeOK /\ ExperimentTypeOK)
  BY StoresAreParts, RiskIsNeverEased, FreezesAreEarned, PerfMirrors, FTypes,
     ExperimentsKeepAssignments, PTL
<1>9. StoresSpec => []Types
  BY <1>5, <1>6, <1>7, <1>8, PTL DEF Types
<1> HIDE DEF IsPart, Types
<1>. QED
  BY <1>3, <1>4, <1>9, PTL

(* What the run of the stores checks of all of them, but for the schema    *)
(* after a migration.                                                      *)
THEOREM StoresKeep ==
  StoresSpec =>
    /\ [](PoliciesKept /\ RegistryKept /\ PinAsAudited /\ LinksKept /\ IssuesKept)
    /\ [](CacheKept /\ ReliabilityKept /\ AlertsTold)
    /\ [](GeneratedCodeKept /\ FlakyNotBlamed /\ ReportsKept)
    /\ [](RiskNeverEased /\ BudgetsKept /\ ReviewTells /\ AssignmentsKept)
    /\ SweepsByRule
<1>1. StoresSpec => [](PoliciesKept /\ RegistryKept /\ PinAsAudited /\ LinksKept /\ IssuesKept)
  BY StoresAreParts, OneActivePolicy, RegistryBacked, PinsAudited, LinksStayApart, IssuesTold, PTL
<1>2. StoresSpec => [](CacheKept /\ ReliabilityKept /\ AlertsTold)
  BY StoresAreParts, CacheRemembers, ReliablePrimitives, AlertsTellTheTrend, PTL
<1>3. StoresSpec => [](GeneratedCodeKept /\ FlakyNotBlamed /\ ReportsKept)
  BY StoresAreParts, CodeAsAudited, BlamesByRecord, ReportsBacked, PTL
<1>4. StoresSpec => [](RiskNeverEased /\ BudgetsKept /\ ReviewTells /\ AssignmentsKept)
  BY StoresAreParts, RiskIsNeverEased, BudgetsBacked, FReviewed, ExperimentsKeepAssignments, PTL
<1>5. StoresSpec => SweepsByRule
  BY StoresAreParts, SweptByRule
<1>. QED
  BY <1>1, <1>2, <1>3, <1>4, <1>5
=============================================================================
