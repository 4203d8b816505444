------------------------------ MODULE TestRuns ------------------------------
(***************************************************************************)
(* TestRunService.start() behind POST /api/v1/test-runs: one transaction   *)
(* around a whole pass of the workflow runner over an in-memory store.     *)
(*                                                                         *)
(* The handler and its session run on the event loop of their process, and *)
(* the session is synchronous: a statement that waits in the database      *)
(* holds the loop, and every other call of that process, with it.  The     *)
(* loop is let go only while a step of the graph is awaited and while the  *)
(* answer is sent; tenant_scoped_session commits after that.               *)
(***************************************************************************)
EXTENDS Integers, Sequences, FiniteSets

CONSTANTS
  RunKeys,             \* idempotency keys clients use in one workspace
  Starts,              \* calls of start() that may be open at the same time
  Home,                \* the process, hence the event loop, each call runs in
  GraphLength,         \* steps of the graph
  NoRun                \* no row under a key

ASSUME TestRunAssumption ==
  /\ GraphLength \in Nat \ {0}
  /\ RunKeys # {}
  /\ \A s \in Starts : s \in DOMAIN Home

VARIABLES
  runs,                \* test_runs by key, each with its agent_tasks
  phase,               \* where a call is
  wants,               \* the key it was made with
  progress,            \* how the steps of its pass ended so far
  answer               \* what its client was told last

runVars == <<runs, phase, wants, progress, answer>>

AgentTaskState == {"pending", "running", "succeeded", "failed", "skipped"}
StepResults    == {"succeeded", "failed", "paused"}   \* how the store records a step
Answers        == {"none", "accepted", "duplicate", "error"}
Run            == [state : {"done", "paused_for_approval"}, tasks : Seq(AgentTaskState)]

RunInit ==
  /\ runs     = [k \in RunKeys |-> NoRun]
  /\ phase    = [s \in Starts |-> "idle"]
  /\ wants    = [s \in Starts |-> CHOOSE k \in RunKeys : TRUE]
  /\ progress = [s \in Starts |-> <<>>]
  /\ answer   = [s \in Starts |-> "none"]

-----------------------------------------------------------------------------
(* What a call holds.  (A definition whose name ends in _Mutant is the     *)
(* next one with a slip in it and no part of the model.)                   *)

(* An uncommitted row keeps its entry in uq_test_runs_workspace_idempotency. *)
Enters(s, k) == phase[s] \in {"driving", "answered"} /\ wants[s] = k

(* Between the SELECT and the INSERT's return nothing else runs on the loop. *)
LoopFree(s) ==
  \A o \in Starts \ {s} : Home[o] = Home[s] => phase[o] # "checked"

(* The transaction is over and its client has been told. *)
Leave_Mutant(s, told) ==
  /\ answer' = [answer EXCEPT ![s] = told]
  /\ UNCHANGED <<phase, progress>>
Leave(s, told) ==
  /\ phase'    = [phase    EXCEPT ![s] = "idle"]
  /\ progress' = [progress EXCEPT ![s] = <<>>]
  /\ answer'   = [answer   EXCEPT ![s] = told]

-----------------------------------------------------------------------------
(* The SELECT by key: a committed run refuses the call. *)
Check(s, k) ==
  /\ phase[s] = "idle"
  /\ LoopFree(s)
  /\ wants' = [wants EXCEPT ![s] = k]
  /\ IF runs[k] # NoRun
       THEN Leave(s, "duplicate")
       ELSE /\ phase'  = [phase  EXCEPT ![s] = "checked"]
            /\ answer' = [answer EXCEPT ![s] = "none"]
            /\ UNCHANGED progress
  /\ UNCHANGED runs

(* The INSERT waits for any transaction that has entered the key; if that  *)
(* one committed, IntegrityError becomes the same refusal.                 *)
Waits_Mutant(s) == FALSE
Waits(s) == \E o \in Starts \ {s} : Enters(o, wants[s])

Refused_Mutant(s) ==
  \/ runs[wants[s]] # NoRun
  \/ \E o \in Starts \ {s} : phase[o] # "idle" /\ wants[o] = wants[s]
Refused(s) == runs[wants[s]] # NoRun

Insert(s) ==
  /\ phase[s] = "checked"
  /\ ~Waits(s)
  /\ IF Refused(s)
       THEN Leave(s, "duplicate")
       ELSE phase' = [phase EXCEPT ![s] = "driving"] /\ UNCHANGED <<progress, answer>>
  /\ UNCHANGED <<runs, wants>>

(* A step that is not the last one succeeds, and the next is awaited. *)
StepDone(s) ==
  /\ phase[s] = "driving"
  /\ LoopFree(s)
  /\ Len(progress[s]) + 1 < GraphLength
  /\ progress' = [progress EXCEPT ![s] = Append(@, "succeeded")]
  /\ UNCHANGED <<runs, phase, wants, answer>>

(* Mirroring the steps: AgentTaskState(stored_step.state) knows no "paused". *)
Storable_Mutant(tasks) == TRUE
Storable(tasks) == \A i \in DOMAIN tasks : tasks[i] \in AgentTaskState

(* A step that used up its attempts makes the runner raise. *)
Raises_Mutant(result) == FALSE
Raises(result) == result = "failed"

(* The pass is over.  If the runner raises, or the mirror because a step   *)
(* paused, the transaction is rolled back, and with it the test_runs row   *)
(* and any request of an approval gate.  Otherwise the client is told 202, *)
(* before the commit.                                                      *)
PassOver(s, result) ==
  LET tasks == Append(progress[s], result)
  IN  /\ phase[s] = "driving"
      /\ LoopFree(s)
      /\ result = "succeeded" => Len(tasks) = GraphLength
      /\ IF Raises(result) \/ ~Storable(tasks)
           THEN Leave(s, "error")
           ELSE /\ phase'    = [phase    EXCEPT ![s] = "answered"]
                /\ progress' = [progress EXCEPT ![s] = tasks]
                /\ answer'   = [answer   EXCEPT ![s] = "accepted"]
      /\ UNCHANGED <<runs, wants>>

Commit(s) ==
  /\ phase[s] = "answered"
  /\ LoopFree(s)
  /\ runs' = [runs EXCEPT ![wants[s]] =
       [state |-> IF "paused" \in {progress[s][i] : i \in DOMAIN progress[s]}
                    THEN "paused_for_approval" ELSE "done",
        tasks |-> progress[s]]]
  /\ Leave(s, "accepted")
  /\ UNCHANGED wants

(* A lost connection or a killed process, at any point of the call. *)
Lost(s) ==
  /\ phase[s] # "idle"
  /\ Leave(s, IF phase[s] = "answered" THEN "accepted" ELSE "error")
  /\ UNCHANGED <<runs, wants>>

Drive(s) == Insert(s) \/ StepDone(s) \/ (\E r \in StepResults : PassOver(s, r)) \/ Commit(s)

RunNext ==
  \E s \in Starts :
    \/ \E k \in RunKeys : Check(s, k)
    \/ Drive(s)
    \/ Lost(s)

(* A step of the graph returns, and a call that could go on again and again *)
(* does: the ready queue of an event loop and the lock queue of PostgreSQL *)
(* are first come, first served.                                           *)
RunFairness == \A s \in Starts : SF_runVars(Drive(s))

RunSpec == RunInit /\ [][RunNext]_runVars /\ RunFairness

-----------------------------------------------------------------------------
RunTypeOK ==
  /\ runs \in [RunKeys -> Run \cup {NoRun}]
  /\ phase \in [Starts -> {"idle", "checked", "driving", "answered"}]
  /\ wants \in [Starts -> RunKeys]
  /\ progress \in [Starts -> Seq(StepResults)]
  /\ answer \in [Starts -> Answers]

(* One idempotency key drives one pass at a time, and none once it has a   *)
(* run: the work of a graph is not done twice side by side, though both    *)
(* calls found no run when they looked.                                    *)
OnePassPerKey ==
  \A k \in RunKeys :
    LET driving == {s \in Starts : phase[s] \in {"driving", "answered"} /\ wants[s] = k}
    IN  /\ Cardinality(driving) <= 1
        /\ runs[k] # NoRun => driving = {}

(* Only runs that ended well are kept, with one succeeded agent_task per   *)
(* step: a failed or a paused pass leaves nothing behind, although both    *)
(* states have a name in TestRunState.                                     *)
KeptRunsAreDone ==
  \A k \in RunKeys : runs[k] # NoRun =>
    /\ runs[k].state = "done"
    /\ runs[k].tasks = [i \in 1..GraphLength |-> "succeeded"]

(* A client that is told 409 finds the run: a call whose rival is rolled   *)
(* back is not refused.                                                    *)
DuplicateMeansKept ==
  \A s \in Starts : answer[s] = "duplicate" => runs[wants[s]] # NoRun

RunsKept == OnePassPerKey /\ KeptRunsAreDone /\ DuplicateMeansKept

(* s cannot go on before o does: its INSERT waits for o's transaction, or  *)
(* o's INSERT waits while holding the loop s needs.                        *)
StuckBehind(s, o) ==
  \/ phase[s] = "checked" /\ Enters(o, wants[s])
  \/ /\ phase[s] \in {"driving", "answered"} /\ phase[o] = "checked"
     /\ Home[s] = Home[o]

Frozen ==
  \E S \in (SUBSET Starts) \ {{}} : \A s \in S : \E o \in S \ {s} : StuckBehind(s, o)

(* Every call ends, or calls wait for each other in a circle that runs     *)
(* through an event loop, where PostgreSQL does not see it: two calls with *)
(* the same key in one process are enough.                                 *)
StartEnds == \A s \in Starts : phase[s] # "idle" ~> phase[s] = "idle" \/ Frozen
=============================================================================
