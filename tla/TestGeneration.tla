--------------------------- MODULE TestGeneration ---------------------------
(***************************************************************************)
(* A requirement is ingested, planned into test cases by the planner, and  *)
(* API and UI tests are generated for the cases of a plan.  A request      *)
(* reads in one READ COMMITTED transaction, awaits the model with it open, *)
(* and writes what it answered to a JSON column of the cases as it was     *)
(* before the await.  A statement that waits for a row lock keeps the      *)
(* event loop of its process, and with it the commit of its neighbours.    *)
(***************************************************************************)
EXTENDS Naturals, Sequences, FiniteSetsExt

CONSTANTS
  Requests,            \* calls of the generating endpoints
  Home,                \* the process that serves a call
  Outlines,            \* plans a model answers with: sequences of [title, type]
  MaxPlans,            \* bound: plans of the requirement
  Missing              \* no row, no code

ASSUME GenerationAssumption ==
  /\ Home \in [Requests -> Nat] /\ MaxPlans \in Nat
  /\ \A o \in Outlines : o \in Seq([title : STRING, type : STRING])

VARIABLES
  requirement,         \* the row of the requirement
  plans,               \* its plans: sequences of cases, each with the code it has
  progress,            \* how far a call is
  draft,               \* its locals: kind, plan, the cases it has read, those it writes
  genLog               \* history: audited generations, each with the cases it has
                       \* written and the length of the log when it had read them

generationVars == <<requirement, plans, progress, draft, genLog>>

Kinds == {"api", "ui"}
Stages == {"new", "planning", "asking", "flushing", "flushed", "done"}
RequirementRow == [type : {"openapi", "user_story"}, status : {"parsed", "failed"}]
NoCodeYet == [k \in Kinds |-> Missing]
CaseRow == [title : STRING, type : STRING, code : [Kinds -> Requests \cup {Missing}]]
DraftRow == [kind : Kinds, plan : Nat, read : Seq(CaseRow), writes : SUBSET Nat, after : Nat]

ASSUME MissingAssumption == Missing \notin DraftRow

Titles == {c.title : c \in UNION {{o[i] : i \in DOMAIN o} : o \in Outlines}}

(* filter_relevant_cases() of ApiTesterAgent and of UiTesterAgent. *)
OfTier(types, cases) == {i \in DOMAIN cases : cases[i].type \in types}
ApiCases(cases) == OfTier({"api", "integration", "negative", "regression", "smoke"}, cases)
UiCases(cases)  == OfTier({"ui", "smoke", "regression", "integration"}, cases)

GenerationInit ==
  /\ requirement = Missing /\ plans = <<>> /\ genLog = <<>>
  /\ progress = [q \in Requests |-> "new"]
  /\ draft  = [q \in Requests |-> Missing]

(* A requirement that does not parse is stored too, as failed. *)
Ingest(type, parses) ==
  /\ requirement = Missing
  /\ requirement' = [type |-> type, status |-> IF parses THEN "parsed" ELSE "failed"]
  /\ UNCHANGED <<plans, progress, draft, genLog>>

(* The event loop of the process is not in a statement of another call. *)
LoopFree(q) == \A r \in Requests : Home[r] = Home[q] => progress[r] # "flushing"

LeaveGeneration(q) ==
  /\ progress' = [progress EXCEPT ![q] = "done"]
  /\ draft'  = [draft  EXCEPT ![q] = Missing]

(* Nothing asks whether the requirement has been parsed. *)
BeginPlan(q) ==
  /\ progress[q] = "new" /\ LoopFree(q)
  /\ requirement # Missing
  /\ progress' = [progress EXCEPT ![q] = "planning"]
  /\ UNCHANGED <<requirement, plans, draft, genLog>>

(* The plan and all its cases, in one transaction. *)
Persist(q, outline) ==
  /\ progress[q] = "planning" /\ LoopFree(q)
  /\ Len(plans) < MaxPlans
  /\ plans' = Append(plans, [i \in DOMAIN outline |->
                [title |-> outline[i].title, type |-> outline[i].type, code |-> NoCodeYet]])
  /\ LeaveGeneration(q)
  /\ UNCHANGED <<requirement, genLog>>

AskModel(q, kind, p) ==
  /\ progress[q] = "new" /\ LoopFree(q)
  /\ progress' = [progress EXCEPT ![q] = "asking"]
  /\ draft' = [draft EXCEPT ![q] = [kind |-> kind, plan |-> p, read |-> plans[p],
                                   writes |-> {}, after |-> Len(genLog)]]
  /\ UNCHANGED <<requirement, plans, genLog>>

(* generate() of the two services, up to the await: API tests need an      *)
(* OpenAPI requirement, and either kind a case of its own tier.            *)
BeginApiTests(q, p) == requirement.type = "openapi" /\ ApiCases(plans[p]) # {} /\ AskModel(q, "api", p)
BeginUiTests(q, p)  == UiCases(plans[p]) # {} /\ AskModel(q, "ui", p)

(* by_title: the last case of a title is the one that gets the code.  The  *)
(* cases of a plan have one created_at, by which they are ordered, so that *)
(* any of them may be the last.                                            *)
ByTitle(cases) ==
  {f \in [{cases[i].title : i \in DOMAIN cases} -> DOMAIN cases] :
     \A t \in DOMAIN f : cases[f[t]].title = t}

(* The model has answered with tests for some titles: of cases that were   *)
(* sent to it, were not, or do not exist.                                  *)
Attach(q, titles) ==
  /\ \E by_title \in ByTitle(draft[q].read) :
       draft' = [draft EXCEPT ![q].writes = {by_title[t] : t \in titles \cap DOMAIN by_title}]
  /\ progress' = [progress EXCEPT ![q] = "flushing"]
  /\ UNCHANGED <<requirement, plans, genLog>>

(* generate() of the two agents: source that parses, as Python or as a     *)
(* Playwright spec.                                                        *)
Awaits(q, kind) == progress[q] = "asking" /\ draft[q].kind = kind /\ LoopFree(q)
ApiTestsAnswered(q, titles) == Awaits(q, "api") /\ Attach(q, titles)
UiTestsAnswered(q, titles)  == Awaits(q, "ui") /\ Attach(q, titles)

(* The UPDATEs lock the rows, by primary key, until the transaction ends. *)
Flush(q) ==
  /\ progress[q] = "flushing"
  /\ \A r \in Requests : progress[r] = "flushed" /\ draft[r].plan = draft[q].plan
                           => draft[r].writes \cap draft[q].writes = {}
  /\ progress' = [progress EXCEPT ![q] = "flushed"]
  /\ UNCHANGED <<requirement, plans, draft, genLog>>

(* metadata_json of a case: what was read, with the entry of this kind.    *)
(* (A definition whose name ends in _Mutant is the next one with a slip in *)
(* it and no part of the model.)                                           *)
generated_code(q, i) == [draft[q].read[i].code EXCEPT !["api"] = q]

generated_ui_spec_Mutant(q, i) == [NoCodeYet EXCEPT !["ui"] = q]
generated_ui_spec(q, i) == [draft[q].read[i].code EXCEPT !["ui"] = q]

metadata_json(q, i) ==
  IF draft[q].kind = "api" THEN generated_code(q, i) ELSE generated_ui_spec(q, i)

CommitTests(q, kind) ==
  /\ progress[q] = "flushed" /\ draft[q].kind = kind /\ LoopFree(q)
  /\ plans' = [plans EXCEPT ![draft[q].plan] = [i \in DOMAIN @ |->
                IF i \in draft[q].writes THEN [@[i] EXCEPT !.code = metadata_json(q, i)] ELSE @[i]]]
  /\ genLog' = Append(genLog, [request |-> q, kind |-> kind, plan |-> draft[q].plan,
                               cases |-> draft[q].writes, after |-> draft[q].after])
  /\ LeaveGeneration(q)
  /\ UNCHANGED requirement

(* The audit event of a service, and the commit. *)
CommitApiTests(q) == CommitTests(q, "api")
CommitUiTests(q)  == CommitTests(q, "ui")

(* The model fails, or answers with no plan or no source that parses; or   *)
(* the commit fails: the transaction is rolled back.                       *)
Abandon(q) ==
  LoopFree(q) /\ LeaveGeneration(q) /\ UNCHANGED <<requirement, plans, genLog>>
PlanFails(q)     == progress[q] = "planning" /\ Abandon(q)
ApiTestsFail(q)  == progress[q] \in {"asking", "flushed"} /\ draft[q].kind = "api" /\ Abandon(q)
UiTestsFail(q)   == progress[q] \in {"asking", "flushed"} /\ draft[q].kind = "ui" /\ Abandon(q)

GenerationNext ==
  \/ \E type \in {"openapi", "user_story"}, parses \in BOOLEAN : Ingest(type, parses)
  \/ \E q \in Requests :
       \/ BeginPlan(q) \/ PlanFails(q)
       \/ \E o \in Outlines : Persist(q, o)
       \/ \E p \in DOMAIN plans : BeginApiTests(q, p) \/ BeginUiTests(q, p)
       \/ \E titles \in SUBSET Titles : ApiTestsAnswered(q, titles) \/ UiTestsAnswered(q, titles)
       \/ Flush(q)
       \/ CommitApiTests(q) \/ CommitUiTests(q) \/ ApiTestsFail(q) \/ UiTestsFail(q)

GenerationSpec == GenerationInit /\ [][GenerationNext]_generationVars

-----------------------------------------------------------------------------
GenerationTypeOK ==
  /\ requirement \in RequirementRow \cup {Missing}
  /\ Len(plans) <= MaxPlans
  /\ \A p \in DOMAIN plans : \A i \in DOMAIN plans[p] :
       plans[p][i].code \in [Kinds -> Requests \cup {Missing}]
  /\ progress \in [Requests -> Stages]
  /\ \A q \in Requests :
       (draft[q] # Missing) <=> (progress[q] \in {"asking", "flushing", "flushed"})

Wrote(n, p, i) == genLog[n].plan = p /\ i \in genLog[n].cases

(* The code of a case is that of the last audited generation of its kind   *)
(* that attached some to it, whatever the other kind has done, unless a    *)
(* later writer of the case had read it before that generation ended: its  *)
(* metadata, of before, is written back whole.  What a rolled-back         *)
(* generation made is on no case.                                          *)
GeneratedCodeKept ==
  \A p \in DOMAIN plans : \A i \in DOMAIN plans[p] : \A k \in Kinds :
    LET own  == {n \in DOMAIN genLog : Wrote(n, p, i) /\ genLog[n].kind = k}
        code == plans[p][i].code[k]
    IN  /\ code # Missing => \E n \in own : genLog[n].request = code
        /\ own # {} =>
             LET last == Max(own)
             IN  \/ code = genLog[last].request
                 \/ \E n \in DOMAIN genLog : Wrote(n, p, i) /\ last < n /\ genLog[n].after < last
=============================================================================
