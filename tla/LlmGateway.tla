----------------------------- MODULE LlmGateway -----------------------------
(***************************************************************************)
(* The model calls of one workflow run: BudgetEnforcer.complete around     *)
(* LLMClient.complete, and the DbUsageRecorder that stores what they used. *)
(*                                                                         *)
(* The calls are tasks of an event loop.  The only suspension point is the *)
(* provider's own complete(); what comes before it and after it, up to the *)
(* return or the exception, is one action.  EnforcerStats.calls_made and   *)
(* calls_blocked are counted and never read, and are left out.             *)
(***************************************************************************)
EXTENDS Integers, FiniteSets, FiniteSetsExt

CONSTANTS
  Calls,               \* the calls of the run, each made once
  K,                   \* the tier's candidates are 1..K, in order of preference
  Configured,          \* candidates whose provider has an adapter
  MaxAttempts,         \* max_attempts_per_candidate
  Costs,               \* what a response may cost (0: its model has no pricing)
  Cap,                 \* effective_cap: budget_usd times slack
  Estimates,           \* the estimates callers may pass
  NoEstimate,          \* ... or leave out
  MayCancel            \* whether a call's task may be cancelled

ASSUME GatewayAssumption ==
  /\ K \in Nat
  /\ Configured \subseteq 1..K
  /\ MaxAttempts \in Nat \ {0}
  /\ Costs \subseteq Nat
  /\ Cap \in Nat \ {0}
  /\ Estimates \subseteq Nat
  /\ NoEstimate \notin Nat
  /\ MayCancel \in BOOLEAN

VARIABLES
  running_total,       \* EnforcerStats.running_total
  outcome,             \* how a call ended; "ready" and "waiting" before that
  running,             \* the running total it read before it awaited
  candidate, attempts, \* the candidate it is trying, for the n-th time
  records,             \* the recorder's buffer: calls with a usage record in it
  added,               \* rows of the open transaction: how often a call is in it
  rows,                \* usage_records: how often a call is in it
  paid,                \* history: what the provider charged, by how the call ended
  tries, refused,      \* history: dispatches, and candidates that failed for good
  overlap, lost        \* history: whether calls overlapped; records rolled back

callVars == <<outcome, running, candidate, attempts>>
dbVars   == <<added, rows, lost>>
llmVars  == <<running_total, callVars, records, dbVars, paid, tries, refused, overlap>>

Candidates == 1..K
Ended == {"ok", "over", "blocked", "invalid", "unavailable", "cancelled"}
Waiting == {c \in Calls : outcome[c] = "waiting"}

LlmInit ==
  /\ running_total = 0
  /\ outcome   = [c \in Calls |-> "ready"]
  /\ running   = [c \in Calls |-> 0]
  /\ candidate = [c \in Calls |-> 0]
  /\ attempts  = [c \in Calls |-> 0]
  /\ records = {}
  /\ added = [c \in Calls |-> 0]
  /\ rows  = [c \in Calls |-> 0]
  /\ paid = [how \in Ended |-> 0]
  /\ tries   = [c \in Calls |-> [k \in Candidates |-> 0]]
  /\ refused = [c \in Calls |-> {}]
  /\ overlap = FALSE
  /\ lost = {}

-----------------------------------------------------------------------------
(* Sending a request to candidate k for the n-th time.  The history stops  *)
(* counting one above MaxAttempts, which bounds the state space.           *)
Dispatch(c, k, n) ==
  /\ candidate' = [candidate EXCEPT ![c] = k]
  /\ attempts'  = [attempts  EXCEPT ![c] = n]
  /\ tries'     = [tries     EXCEPT ![c][k] = Min({@ + 1, MaxAttempts + 1})]
  /\ outcome'   = [outcome   EXCEPT ![c] = "waiting"]

(* The loop over the candidates goes on after k, past those without an     *)
(* adapter, and raises when there is none left.                            *)
Later_Mutant(k) == {j \in Configured : j > k + 1}
Later_CycleMutant(k) == Configured \ {k}
Later(k) == {j \in Configured : j > k}

TryAfter(c, k) ==
  IF Later(k) # {} THEN Dispatch(c, Min(Later(k)), 1)
  ELSE /\ outcome' = [outcome EXCEPT ![c] = "unavailable"]
       /\ UNCHANGED <<candidate, attempts, tries>>

(* The pre-flight check, with an estimate only; then the first candidate.  *)
TooDear(est) == est # NoEstimate /\ running_total + est > Cap

StartCall(c, est) ==
  /\ outcome[c] = "ready"
  /\ running' = [running EXCEPT ![c] = running_total]
  /\ IF TooDear(est)
       THEN /\ outcome' = [outcome EXCEPT ![c] = "blocked"]
            /\ UNCHANGED <<candidate, attempts, tries, overlap>>
       ELSE /\ TryAfter(c, 0)
            /\ overlap' = (overlap \/ Waiting # {})
  /\ UNCHANGED <<running_total, records, dbVars, paid, refused>>

(* A provider error: a transient one is retried on the same candidate      *)
(* while there are attempts left, every other one moves on.                *)
MayRetry_Mutant(c, transient) == transient
MayRetry(c, transient) == transient /\ attempts[c] < MaxAttempts

ProviderFails(c, transient) ==
  /\ outcome[c] = "waiting"
  /\ IF MayRetry(c, transient)
       THEN Dispatch(c, candidate[c], attempts[c] + 1)
       ELSE TryAfter(c, candidate[c])
  /\ refused' = IF transient THEN refused
                ELSE [refused EXCEPT ![c] = @ \cup {candidate[c]}]
  /\ UNCHANGED <<running_total, running, records, dbVars, paid, overlap>>

(* A response: its usage is recorded; then, unless it fails the schema and *)
(* StructuredOutputError passes through everything, its cost is added to   *)
(* what the enforcer read before the call.                                 *)
Total_Mutant(c, usd) == usd
Total(c, usd) == running[c] + usd

(* ... and the kill switch fires if that goes over the cap. *)
Outcome(valid, total) ==
  CASE ~valid -> "invalid"
    [] valid /\ total > Cap -> "over"
    [] OTHER -> "ok"

ProviderAnswers(c, usd, valid) ==
  /\ outcome[c] = "waiting"
  /\ records' = records \cup {c}
  /\ running_total' = IF valid THEN Total(c, usd) ELSE running_total
  /\ outcome' = [outcome EXCEPT ![c] = Outcome(valid, running_total')]
  /\ paid' = [paid EXCEPT ![outcome'[c]] = @ + usd]
  /\ UNCHANGED <<running, candidate, attempts, dbVars, tries, refused, overlap>>

CancelCall(c) ==
  /\ MayCancel
  /\ outcome[c] = "waiting"
  /\ outcome' = [outcome EXCEPT ![c] = "cancelled"]
  /\ UNCHANGED <<running_total, running, candidate, attempts, records, dbVars, paid,
                 tries, refused, overlap>>

-----------------------------------------------------------------------------
(* flush(): one row per record; the buffer is cleared if the database took *)
(* them.  If it did not, the exception rolls the transaction back.         *)
Left_Mutant == records
Left == {}

Flush ==
  /\ records # {}
  /\ added' = [c \in Calls |-> IF c \in records THEN added[c] + 1 ELSE added[c]]
  /\ records' = Left
  /\ UNCHANGED <<running_total, callVars, rows, paid, tries, refused, overlap, lost>>

CommitUsage ==
  /\ rows'  = [c \in Calls |-> rows[c] + added[c]]
  /\ added' = [c \in Calls |-> 0]
  /\ \E c \in Calls : added[c] > 0
  /\ UNCHANGED <<running_total, callVars, records, paid, tries, refused, overlap, lost>>

Rollback ==
  /\ \E c \in Calls : added[c] > 0
  /\ lost'  = lost \cup {c \in Calls : added[c] > 0}
  /\ added' = [c \in Calls |-> 0]
  /\ UNCHANGED <<running_total, callVars, records, rows, paid, tries, refused, overlap>>

Provider(c) ==
  \/ \E transient \in BOOLEAN : ProviderFails(c, transient)
  \/ \E usd \in Costs, valid \in BOOLEAN : ProviderAnswers(c, usd, valid)

LlmNext ==
  \/ \E c \in Calls :
       \/ \E est \in Estimates \cup {NoEstimate} : StartCall(c, est)
       \/ Provider(c)
       \/ CancelCall(c)
  \/ Flush
  \/ CommitUsage
  \/ Rollback

LlmSpec == LlmInit /\ [][LlmNext]_llmVars

(* A provider answers or fails in the end: its adapter has a timeout. *)
LlmFairSpec == LlmSpec /\ \A c \in Calls : WF_llmVars(Provider(c))

-----------------------------------------------------------------------------
LlmTypeOK ==
  /\ running_total \in Nat
  /\ outcome \in [Calls -> {"ready", "waiting"} \cup Ended]
  /\ running \in [Calls -> Nat]
  /\ candidate \in [Calls -> 0..K]
  /\ attempts \in [Calls -> 0..MaxAttempts]
  /\ records \subseteq Calls
  /\ added \in [Calls -> Nat]
  /\ rows \in [Calls -> Nat]
  /\ paid \in [Ended -> Nat]
  /\ tries \in [Calls -> [Candidates -> Nat]]
  /\ refused \in [Calls -> SUBSET Configured]
  /\ overlap \in BOOLEAN
  /\ lost \subseteq Calls

(* Where calls do not overlap, the enforcer knows what the calls it        *)
(* charges have paid, and the calls it lets pass keep to the cap together: *)
(* only the one call that tips the total over may exceed it ("the kill     *)
(* switch fires after a call returns").                                    *)
BudgetKept ==
  ~overlap =>
    /\ running_total = paid["ok"] + paid["over"]
    /\ paid["ok"] <= Cap

(* A call gives up only when every configured candidate has refused it for *)
(* good or failed it MaxAttempts times, never tries one more often or one  *)
(* without an adapter, and never a candidate before those ahead of it.     *)
Exhausted(c, k) == k \in refused[c] \/ tries[c][k] = MaxAttempts

FailsOver ==
  \A c \in Calls :
    /\ outcome[c] = "unavailable" => \A k \in Configured : Exhausted(c, k)
    /\ \A k \in Candidates :
         /\ tries[c][k] <= MaxAttempts
         /\ tries[c][k] > 0 => /\ k \in Configured
                               /\ \A j \in Configured : j < k => Exhausted(c, j)

(* Everything the provider charged for is recorded exactly once, also when *)
(* the response is refused for its schema or its price: in the buffer, in  *)
(* the open transaction or in the table - unless the transaction was       *)
(* rolled back after the flush, which then loses the record for good.      *)
Copies(c) == (IF c \in records THEN 1 ELSE 0) + added[c] + rows[c]

RecordedOnce ==
  \A c \in Calls :
    Copies(c) = IF outcome[c] \in {"ok", "over", "invalid"} /\ c \notin lost
                THEN 1 ELSE 0

(* The budget, the order of failover and the records of usage.             *)
UsageKept == BudgetKept /\ FailsOver /\ RecordedOnce

(* No retry or failover goes on for ever. *)
CallEnds == \A c \in Calls : outcome[c] = "waiting" ~> outcome[c] \in Ended

(* "accumulates the USD cost of every LLM call issued through it": with no *)
(* call under way, the total is what the calls have cost.  Calls that      *)
(* overlap write back stale totals, and a response that fails its schema   *)
(* is not charged.                                                         *)
TotalIsSpent == Waiting = {} => running_total = paid["ok"] + paid["over"] + paid["invalid"]
=============================================================================
