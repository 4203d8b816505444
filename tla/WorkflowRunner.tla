--------------------------- MODULE WorkflowRunner ---------------------------
(***************************************************************************)
(* WorkflowRunner.run over a durable WorkflowStore, with the steps of the  *)
(* graph - plain work and ApprovalGateStep - and the approval table.       *)
(*                                                                         *)
(* One pass of run() is a runner.  Every store call is an action, so that  *)
(* a pass can die between any two of them and the workflow be re-driven    *)
(* from what the store holds.  A step's effect (Execute) and the row that  *)
(* records it (Record) are two actions for the same reason.                *)
(*                                                                         *)
(* Of the dictionaries steps exchange, the model keeps what decisions      *)
(* depend on: the approval ids, by the shared_key they travel under, and   *)
(* which steps' output is there.                                           *)
(***************************************************************************)
EXTENDS ApprovalBook, Integers, FiniteSets

CONSTANTS
  N,                   \* the graph is steps 1..N, in order
  Gates,               \* the steps that are ApprovalGateSteps
  Keys,                \* names under which gates share request ids
  KeyOf,               \* KeyOf[g]: the shared_key of gate g
  MaxAttempts,         \* MaxAttempts[i]: attempts of step i in one pass
  NextStates,          \* the next_state a work step may ask for
  Runners,             \* passes that may be active at the same time
  MayCrash,            \* whether a pass may die half way
  MaxDecisions,        \* bound: decisions a request collects (see ApprovalBook)
  NoRequest            \* an absent id

Steps    == 1..N
Terminal == {"done", "failed"}
WfStates == {"absent", "planned", "executing", "paused"} \cup Terminal \cup NextStates

ASSUME RunnerAssumption ==
  /\ N \in Nat
  /\ Gates \subseteq Steps
  /\ KeyOf \in [Gates -> Keys]
  /\ MaxAttempts \in [Steps -> Nat \ {0}]
  /\ \A g \in Gates : MaxAttempts[g] = 1
  /\ NextStates \subseteq {"classifying", "reporting"}
  /\ MayCrash \in BOOLEAN
  /\ MaxDecisions \in Nat
  /\ NoRequest \notin Requests

(* Gates that do not share a key: what ApprovalGateStep's shared_key is    *)
(* for, though its default is the same for every gate.                     *)
OwnKeys == \A g, h \in Gates : KeyOf[g] = KeyOf[h] => g = h

VARIABLES
  wf, summary,                          \* the StoredWorkflow row
  stepState, stepTry, stepIds, stepOut, \* the StoredStep rows, by step index
  owner,               \* gate_context of a request: the gate that asked, 0 for none
  pc, idx, try,        \* where a runner is, in which step and attempt
  seen,                \* steps a runner found succeeded when it loaded the rows
  ids, outs,           \* its shared dictionary
  result, newId,       \* what the step's run() came back with
  ran                  \* history: work steps whose function was entered

wfVars    == <<wf, summary>>
stepVars  == <<stepState, stepTry, stepIds, stepOut>>
tableVars == <<bookVars, owner>>
localVars == <<pc, idx, try, seen, ids, outs, result, newId>>
vars      == <<wfVars, stepVars, tableVars, localVars, ran>>

Ids     == Requests \cup {NoRequest}
NoIds   == [k \in Keys |-> NoRequest]
Results == {"none", "ok", "pause", "error"}

Init ==
  /\ BookInit
  /\ wf = "absent" /\ summary = {}
  /\ stepState = [i \in Steps |-> "pending"]
  /\ stepTry   = [i \in Steps |-> 0]
  /\ stepIds   = [i \in Steps |-> NoIds]
  /\ stepOut   = [i \in Steps |-> FALSE]
  /\ owner  = [r \in Requests |-> 0]
  /\ pc     = [p \in Runners |-> "idle"]
  /\ idx    = [p \in Runners |-> 0]
  /\ try    = [p \in Runners |-> 0]
  /\ seen   = [p \in Runners |-> {}]
  /\ ids    = [p \in Runners |-> NoIds]
  /\ outs   = [p \in Runners |-> {}]
  /\ result = [p \in Runners |-> "none"]
  /\ newId  = [p \in Runners |-> NoRequest]
  /\ ran = {}

-----------------------------------------------------------------------------
(* Starting a pass.  As elsewhere, a definition whose name ends in _Mutant *)
(* is the next one with a slip in it and no part of the model.             *)

(* Rows whose output the pass puts back into shared. *)
Restored_Mutant == {i \in Steps : stepState[i] = "paused"}
Restored == {i \in Steps : stepState[i] \in {"succeeded", "paused"}}

(* shared.update(), row by row in step order: the last row that carries an *)
(* id under k gives its value.                                             *)
RestoredIds ==
  [k \in Keys |->
     LET with == {i \in Restored : stepIds[i][k] # NoRequest}
     IN  IF with = {} THEN NoRequest
         ELSE stepIds[CHOOSE i \in with : \A j \in with : j <= i][k]]

(* The bound of the model: a pass starts while an unused request id is     *)
(* left for every active pass (a pass asks for one approval at most).      *)
IdLeft ==
  Cardinality({r \in Requests : status[r] = "none"})
    > Cardinality({p \in Runners : pc[p] # "idle"})

(* _load_or_create, the terminal early return, list_steps and shared. *)
Startable_Mutant == TRUE
Startable == wf \notin Terminal

Load(p) ==
  /\ pc[p] = "idle"
  /\ Startable
  /\ IdLeft
  /\ pc'   = [pc   EXCEPT ![p] = "begin"]
  /\ seen' = [seen EXCEPT ![p] = {i \in Steps : stepState[i] = "succeeded"}]
  /\ ids'  = [ids  EXCEPT ![p] = RestoredIds]
  /\ outs' = [outs EXCEPT ![p] = {i \in Restored : stepOut[i]}]
  /\ wf'   = IF wf = "absent" THEN "planned" ELSE wf
  /\ UNCHANGED <<summary, stepVars, tableVars, idx, try, result, newId, ran>>

(* The first step from i on that the pass does not skip, N + 1 for none. *)
NextFrom_Mutant(i, skip) == i + Cardinality(skip)
NextFrom(i, skip) ==
  CHOOSE j \in i..(N + 1) :
    /\ j \notin skip
    /\ \A h \in i..(j - 1) : h \in skip

MarkExecuting(p) ==
  /\ pc[p] = "begin"
  /\ wf'  = "executing"
  /\ pc'  = [pc  EXCEPT ![p] = "loop"]
  /\ idx' = [idx EXCEPT ![p] = NextFrom(1, seen[p])]
  /\ try' = [try EXCEPT ![p] = 0]
  /\ UNCHANGED <<summary, stepVars, tableVars, seen, ids, outs, result, newId, ran>>

-----------------------------------------------------------------------------
(* One step: attempts until it succeeds, pauses or its budget is spent. *)

(* upsert_step replaces the whole row. *)
WriteStep(i, st, n, carried, out) ==
  /\ stepState' = [stepState EXCEPT ![i] = st]
  /\ stepTry'   = [stepTry   EXCEPT ![i] = n]
  /\ stepIds'   = [stepIds   EXCEPT ![i] = carried]
  /\ stepOut'   = [stepOut   EXCEPT ![i] = out]

NextTry_Mutant(p) == 1
NextTry(p) == try[p] + 1

StartAttempt(p) ==
  /\ pc[p] = "loop" /\ idx[p] <= N
  /\ WriteStep(idx[p], "running", NextTry(p), NoIds, FALSE)
  /\ try' = [try EXCEPT ![p] = NextTry(p)]
  /\ pc'  = [pc  EXCEPT ![p] = "run"]
  /\ UNCHANGED <<wfVars, tableVars, idx, seen, ids, outs, result, newId, ran>>

Return(p, res, id) ==
  /\ pc'     = [pc     EXCEPT ![p] = "record"]
  /\ result' = [result EXCEPT ![p] = res]
  /\ newId'  = [newId  EXCEPT ![p] = id]
  /\ UNCHANGED <<wfVars, stepVars, idx, try, seen, ids, outs>>

(* A work step does what it does, and returns or raises. *)
Work(p) ==
  /\ pc[p] = "run" /\ idx[p] \in Steps \ Gates
  /\ ran' = ran \cup {idx[p]}
  /\ \E res \in {"ok", "error"} : Return(p, res, NoRequest)
  /\ UNCHANGED tableVars

(* The id a gate finds in shared. *)
Known(p) == ids[p][KeyOf[idx[p]]]

(* ApprovalGateStep.run without an id: ask, and pause with the new id. *)
GateAsk(p, r) ==
  /\ pc[p] = "run" /\ idx[p] \in Gates
  /\ Known(p) = NoRequest
  /\ Open(r)
  /\ owner' = [owner EXCEPT ![r] = idx[p]]
  /\ Return(p, "pause", r)
  /\ UNCHANGED ran

(* ... with an id: pause again while it is pending, go on when approved,   *)
(* raise ApprovalDenied for anything else.                                 *)
Verdict_Mutant(s) == IF s = "pending" THEN "pause"
                     ELSE IF s \in {"rejected", "cancelled"} THEN "error" ELSE "ok"
Verdict(s) == IF s = "pending" THEN "pause"
              ELSE IF s = "approved" THEN "ok" ELSE "error"

GateLookup(p) ==
  /\ pc[p] = "run" /\ idx[p] \in Gates
  /\ Known(p) # NoRequest
  /\ Return(p, Verdict(status[Known(p)]), NoRequest)
  /\ UNCHANGED <<tableVars, ran>>

(* The row of the attempt.  A pause keeps the id only if this very run     *)
(* asked for it: a second pause has no output.                             *)
PausedIds(p) ==
  IF newId[p] = NoRequest THEN NoIds ELSE [NoIds EXCEPT ![KeyOf[idx[p]]] = newId[p]]

RecordError(p) ==
  /\ pc[p] = "record" /\ result[p] = "error"
  /\ WriteStep(idx[p], "failed", try[p], NoIds, FALSE)
  /\ pc' = [pc EXCEPT ![p] = IF try[p] < MaxAttempts[idx[p]] THEN "loop" ELSE "fail"]
  /\ result' = [result EXCEPT ![p] = "none"]
  /\ UNCHANGED <<wfVars, tableVars, idx, try, seen, ids, outs, newId, ran>>

RecordResult(p) ==
  /\ pc[p] = "record" /\ result[p] \in {"ok", "pause"}
  /\ IF result[p] = "pause"
       THEN /\ WriteStep(idx[p], "paused", try[p], PausedIds(p), FALSE)
            /\ ids'  = [ids EXCEPT ![p] = [k \in Keys |-> IF PausedIds(p)[k] = NoRequest
                                                       THEN @[k] ELSE PausedIds(p)[k]]]
            /\ outs' = outs
       ELSE /\ WriteStep(idx[p], "succeeded", try[p], NoIds, TRUE)
            /\ outs' = [outs EXCEPT ![p] = @ \cup {idx[p]}]
            /\ ids'  = ids
  /\ pc' = [pc EXCEPT ![p] = "advance"]
  /\ UNCHANGED <<wfVars, tableVars, idx, try, seen, result, newId, ran>>

-----------------------------------------------------------------------------
(* The workflow row, and the end of a pass. *)

(* After a success: the row takes the next_state the step asked for, if    *)
(* any, and the loop goes to the next step the pass does not skip.         *)
Proceed(p) ==
  /\ pc[p] = "advance" /\ result[p] = "ok"
  /\ \/ wf' = wf
     \/ idx[p] \notin Gates /\ wf' \in NextStates
  /\ idx' = [idx EXCEPT ![p] = NextFrom(idx[p] + 1, seen[p])]
  /\ try' = [try EXCEPT ![p] = 0]
  /\ pc'  = [pc  EXCEPT ![p] = "loop"]
  /\ result' = [result EXCEPT ![p] = "none"]
  /\ UNCHANGED <<summary, stepVars, tableVars, seen, ids, outs, newId, ran>>

(* Nothing of a pass outlives it. *)
Leave(p) ==
  /\ pc'     = [pc     EXCEPT ![p] = "idle"]
  /\ idx'    = [idx    EXCEPT ![p] = 0]
  /\ try'    = [try    EXCEPT ![p] = 0]
  /\ seen'   = [seen   EXCEPT ![p] = {}]
  /\ ids'    = [ids    EXCEPT ![p] = NoIds]
  /\ outs'   = [outs   EXCEPT ![p] = {}]
  /\ result' = [result EXCEPT ![p] = "none"]
  /\ newId'  = [newId  EXCEPT ![p] = NoRequest]
  /\ UNCHANGED <<stepVars, tableVars, ran>>

Pause(p) ==
  /\ pc[p] = "advance" /\ result[p] = "pause"
  /\ wf' = "paused"
  /\ UNCHANGED summary
  /\ Leave(p)

Fail(p) ==
  /\ pc[p] = "fail"
  /\ wf' = "failed"
  /\ UNCHANGED summary
  /\ Leave(p)

Finish(p) ==
  /\ pc[p] = "loop" /\ idx[p] = N + 1
  /\ wf' = "done"
  /\ summary' = outs[p]
  /\ Leave(p)

(* The process is killed, the task cancelled, or a store call raises. *)
Crash(p) ==
  /\ MayCrash
  /\ pc[p] # "idle"
  /\ UNCHANGED wfVars
  /\ Leave(p)

(* Reviewers and the sweep, seen through ApprovalBook. *)
Review(r, d) ==
  /\ Len(history[r]) <= MaxDecisions
  /\ Settle({r}, d)
  /\ UNCHANGED <<wfVars, stepVars, owner, localVars, ran>>

PassStep(p) ==
  \/ MarkExecuting(p) \/ StartAttempt(p)
  \/ Work(p) \/ (\E r \in Requests : GateAsk(p, r)) \/ GateLookup(p)
  \/ RecordError(p) \/ RecordResult(p)
  \/ Proceed(p) \/ Pause(p) \/ Fail(p) \/ Finish(p)

Next ==
  \/ \E p \in Runners : Load(p) \/ PassStep(p) \/ Crash(p)
  \/ \E r \in Requests, d \in Decisions : Review(r, d)

Spec     == Init /\ [][Next]_vars
FairSpec == Spec /\ \A p \in Runners : WF_vars(PassStep(p))

-----------------------------------------------------------------------------
TypeOK ==
  /\ status \in [Requests -> States]
  /\ history \in [Requests -> Seq(States)]
  /\ wf \in WfStates
  /\ summary \subseteq Steps
  /\ stepState \in [Steps -> {"pending", "running", "succeeded", "failed", "paused"}]
  /\ stepTry \in [Steps -> Nat]
  /\ stepIds \in [Steps -> [Keys -> Ids]]
  /\ stepOut \in [Steps -> BOOLEAN]
  /\ owner \in [Requests -> Gates \cup {0}]
  /\ pc \in [Runners -> {"idle", "begin", "loop", "run", "record", "advance", "fail"}]
  /\ idx \in [Runners -> 0..(N + 1)]
  /\ try \in [Runners -> Nat]
  /\ seen \in [Runners -> SUBSET Steps]
  /\ ids \in [Runners -> [Keys -> Ids]]
  /\ outs \in [Runners -> SUBSET Steps]
  /\ result \in [Runners -> Results]
  /\ newId \in [Runners -> Ids]
  /\ ran \subseteq Steps

(* A gate is cleared once a request it made itself has been approved. *)
Cleared(g) ==
  \E r \in Requests :
    owner[r] = g /\ \E n \in DOMAIN history[r] : history[r][n] = "approved"

(* No work step is entered before every gate ahead of it has been cleared  *)
(* by an approval of its own request - across crashes, re-drives, lost ids,*)
(* expired and overwritten decisions, and overlapping passes.  Gates have  *)
(* to use different keys.                                                  *)
WorkBehindGates ==
  \A i \in ran, g \in Gates : g < i => Cleared(g)

(* What the workflow row says is what the step rows say, whenever no pass  *)
(* is active: done means every step succeeded and the summary has all      *)
(* their output; failed means that one step has used up its attempts after *)
(* all earlier ones succeeded; paused that a gate is waiting.  A pass that *)
(* died leaves the row in a state that is not terminal, so the workflow    *)
(* can be driven again.                                                    *)
Succeeded(i) == stepState[i] = "succeeded" /\ stepOut[i]

RowExplained ==
  (\A p \in Runners : pc[p] = "idle") =>
    /\ wf = "done" => (\A i \in Steps : Succeeded(i)) /\ summary = Steps
    /\ wf = "failed" =>
         \E i \in Steps : /\ stepState[i] = "failed" /\ stepTry[i] = MaxAttempts[i]
                          /\ \A j \in 1..(i - 1) : Succeeded(j)
    /\ wf = "paused" =>
         \E g \in Gates : /\ stepState[g] = "paused"
                          /\ \A j \in 1..(g - 1) : Succeeded(j)

(* With one pass at a time, what is finished stays finished: a terminal    *)
(* workflow is never driven again and a step recorded as succeeded is      *)
(* never run again ("idempotent resume").                                  *)
FinishedStays ==
  [][ /\ wf \in Terminal => wf' = wf
      /\ \A i \in Steps : stepState[i] = "succeeded" => stepState'[i] = "succeeded" ]_vars

(* Every pass comes to its end: it pauses, fails, finishes or dies.  The   *)
(* attempts of a step are bounded, and so are the steps.                   *)
PassEnds == \A p \in Runners : pc[p] # "idle" ~> pc[p] = "idle"

(* "pending -> pauses again. Idempotent.": while the request a gate made   *)
(* is pending, re-driving the workflow makes no second one.                *)
AsksOnce ==
  \A r, q \in Requests :
    owner[r] \in Gates /\ owner[r] = owner[q] /\ status[r] = "pending"
      /\ status[q] = "pending" => r = q

(* "First execution - there is no approval row yet for this workflow +     *)
(* gate": a gate that has succeeded has made a request of its own.         *)
EveryGateAsks ==
  \A g \in Gates : stepState[g] = "succeeded" => \E r \in Requests : owner[r] = g
=============================================================================
