--------------------------- MODULE WorkflowProofs ---------------------------
(***************************************************************************)
(* Work stays behind its gates, for every graph whose gates have keys of   *)
(* their own, every number of overlapping passes, and any crashes.  For    *)
(* every graph driven by one pass at a time, whatever the keys, the row of *)
(* the workflow tells the truth about its steps, and what is finished      *)
(* stays finished.                                                         *)
(***************************************************************************)
EXTENDS WorkflowRunner, TLAPS, WellFoundedInduction

(* A dictionary of ids names, under a gate's key, only requests that gate  *)
(* asked for, by the owners o.                                             *)
Honest(o, d) ==
  \A g \in Gates : d[KeyOf[g]] # NoRequest => o[d[KeyOf[g]]] = g

(* The table: a request has an owner from the moment it is opened, and its *)
(* state is in its history.                                                *)
TableInv ==
  \A r \in Requests :
    /\ owner[r] = 0 <=> status[r] = "none"
    /\ status[r] # "none" => \E n \in DOMAIN history[r] : history[r][n] = status[r]

(* What the store holds. *)
StoreInv ==
  /\ \A i \in Steps : Honest(owner, stepIds[i])
  /\ \A g \in Gates : stepState[g] = "succeeded" => Cleared(g)

(* What a pass holds: its ids are honest, the gates it skips or has left   *)
(* behind are cleared, and so is the one whose success it is recording.    *)
PassInvOf(p) ==
  /\ Honest(owner, ids[p])
  /\ pc[p] = "record" /\ newId[p] # NoRequest => owner[newId[p]] = idx[p]
  /\ \A g \in Gates : g \in seen[p] => Cleared(g)
  /\ pc[p] \in {"loop", "run", "record", "advance", "fail"} =>
       /\ idx[p] > 0
       /\ \A g \in Gates : g < idx[p] => Cleared(g)
  /\ pc[p] \in {"run", "record", "advance", "fail"} => idx[p] \in Steps
  /\ pc[p] \in {"record", "advance"} /\ result[p] = "ok" /\ idx[p] \in Gates
       => Cleared(idx[p])

PassInv == \A p \in Runners : PassInvOf(p)

(* Where a pass may be; a part of the above that its types rest on. *)
PlacedOf(p) ==
  /\ pc[p] \in {"loop", "run", "record", "advance", "fail"} => idx[p] > 0
  /\ pc[p] \in {"run", "record", "advance", "fail"} => idx[p] \in Steps

Placed == \A p \in Runners : PlacedOf(p)

IInv == TypeOK /\ TableInv /\ StoreInv /\ PassInv /\ WorkBehindGates

-----------------------------------------------------------------------------
(* The two choices the model makes among indexes. *)

LEMMA LeastNat ==
  ASSUME NEW T \in SUBSET Nat, T # {}
  PROVE  \E x \in T : \A y \in T : x <= y
<1> DEFINE Below == {ss \in Nat \X Nat : ss[1] < ss[2]}
<1>1. IsWellFoundedOn(Below, Nat)
  BY NatLessThanWellFounded DEF OpToRel
<1>2. PICK x \in T : \A y \in T : ~ (<<y, x>> \in Below)
  BY <1>1, WFMin
<1>3. \A y \in T : ~ (y < x)
  BY <1>2
<1>. QED
  BY <1>3

LEMMA GreatestStep ==
  ASSUME NEW T \in SUBSET Steps, T # {}
  PROVE  \E x \in T : \A y \in T : y <= x
<1> DEFINE Mirror == {N - i : i \in T}
<1>1. N \in Nat /\ T \subseteq 1..N
  BY RunnerAssumption DEF Steps
<1>2. Mirror \in SUBSET Nat /\ Mirror # {}
  <2>1. \A i \in T : N - i \in Nat
    BY <1>1
  <2>. QED
    BY <2>1
<1>3. PICK m \in Mirror : \A y \in Mirror : m <= y
  BY <1>2, LeastNat
<1>4. PICK x \in T : m = N - x
  OBVIOUS
<1>5. \A y \in T : N - x <= N - y
  BY <1>3, <1>4
<1>6. \A y \in T : y <= x
  BY <1>1, <1>5
<1>. QED
  BY <1>6

(* NextFrom is total: N + 1 is never skipped. *)
LEMMA NextFromStep ==
  ASSUME NEW i \in 1..(N + 1), NEW skip \in SUBSET Steps
  PROVE  /\ NextFrom(i, skip) \in i..(N + 1)
         /\ NextFrom(i, skip) \notin skip
         /\ \A h \in i..(NextFrom(i, skip) - 1) : h \in skip
<1> DEFINE Left == {j \in i..(N + 1) : j \notin skip}
           P(j) == j \notin skip /\ \A h \in i..(j - 1) : h \in skip
<1>1. N \in Nat /\ Left \in SUBSET Nat /\ N + 1 \in Left
  BY RunnerAssumption DEF Steps
<1>2. PICK j \in Left : \A y \in Left : j <= y
  BY <1>1, LeastNat
<1>3. j \in i..(N + 1) /\ P(j)
  BY <1>1, <1>2
<1>4. NextFrom(i, skip) = CHOOSE x \in i..(N + 1) : P(x)
  BY DEF NextFrom
<1>5. \E x \in i..(N + 1) : P(x)
  BY <1>3
<1> HIDE DEF P
<1>6. NextFrom(i, skip) \in i..(N + 1) /\ P(NextFrom(i, skip))
  BY <1>4, <1>5
<1>. QED
  BY <1>6 DEF P

(* What a pass puts back into shared under k is some restored row's id. *)
LEMMA RestoredFrom ==
  ASSUME NEW k \in Keys, RestoredIds[k] # NoRequest
  PROVE  \E i \in Steps : RestoredIds[k] = stepIds[i][k]
<1> DEFINE with == {i \in Restored : stepIds[i][k] # NoRequest}
<1>1. with \in SUBSET Steps
  BY DEF Restored
<1>2. RestoredIds[k] = IF with = {} THEN NoRequest
                       ELSE stepIds[CHOOSE i \in with : \A j \in with : j <= i][k]
  BY DEF RestoredIds
<1>3. with # {}
  BY <1>2
<1>4. \E i \in with : \A j \in with : j <= i
  BY <1>1, <1>3, GreatestStep
<1>5. (CHOOSE i \in with : \A j \in with : j <= i) \in with
  BY <1>4
<1>. QED
  BY <1>1, <1>2, <1>3, <1>5

-----------------------------------------------------------------------------
(* Every variable keeps its type through every step. *)

LEMMA TypeInit == Init => TypeOK
  BY RunnerAssumption DEF Init, BookInit, TypeOK, WfStates, Terminal, States, Results,
     Ids, NoIds, Steps

LEMMA TypeLeave ==
  ASSUME TypeOK, NEW p \in Runners, Leave(p), wf' \in WfStates,
         summary' \subseteq Steps
  PROVE  TypeOK'
  BY RunnerAssumption, SMTT(40) DEF Leave, TypeOK, stepVars, tableVars, bookVars, Ids, NoIds,
     Results, Steps

LEMMA TypeReturn ==
  ASSUME TypeOK, NEW p \in Runners, NEW res \in Results, NEW id \in Ids,
         Return(p, res, id), ran' \subseteq Steps,
         status' \in [Requests -> States], history' \in [Requests -> Seq(States)],
         owner' \in [Requests -> Gates \cup {0}]
  PROVE  TypeOK'
  BY DEF Return, TypeOK, wfVars, stepVars

LEMMA TypeWrite ==
  ASSUME TypeOK, NEW i \in Steps, NEW n \in Nat, NEW carried \in [Keys -> Ids],
         NEW out \in BOOLEAN,
         NEW st \in {"pending", "running", "succeeded", "failed", "paused"},
         WriteStep(i, st, n, carried, out)
  PROVE  /\ stepState' \in [Steps -> {"pending", "running", "succeeded", "failed", "paused"}]
         /\ stepTry' \in [Steps -> Nat]
         /\ stepIds' \in [Steps -> [Keys -> Ids]]
         /\ stepOut' \in [Steps -> BOOLEAN]
  BY DEF WriteStep, TypeOK

LEMMA TypeMove ==
  ASSUME TypeOK, NEW R, NEW d \in States, Move(R, d)
  PROVE  status' \in [Requests -> States] /\ history' \in [Requests -> Seq(States)]
<1>1. \A r \in Requests : Append(history[r], d) \in Seq(States) /\ history[r] \in Seq(States)
  BY DEF TypeOK
<1>. QED
  BY <1>1 DEF Move, TypeOK

LEMMA TypeLoad ==
  ASSUME TypeOK, NEW p \in Runners, Load(p)
  PROVE  TypeOK'
<1>1. RestoredIds \in [Keys -> Ids]
  <2>1. RestoredIds = [k \in Keys |-> RestoredIds[k]]
    BY DEF RestoredIds
  <2>2. \A k \in Keys : RestoredIds[k] \in Ids
    BY RestoredFrom DEF TypeOK, Ids
  <2>. QED
    BY <2>1, <2>2
<1>2. wf' \in WfStates
  BY DEF Load, TypeOK, WfStates
<1>3. {i \in Restored : stepOut[i]} \subseteq Steps
  BY DEF Restored
<1>. QED
  BY <1>1, <1>2, <1>3 DEF Load, TypeOK, stepVars, tableVars, bookVars

LEMMA TypeMarkExecuting ==
  ASSUME TypeOK, NEW p \in Runners, MarkExecuting(p)
  PROVE  TypeOK'
<1>1. NextFrom(1, seen[p]) \in 0..(N + 1)
  BY NextFromStep, RunnerAssumption DEF TypeOK
<1>2. "executing" \in WfStates
  BY DEF WfStates
<1>. QED
  BY <1>1, <1>2 DEF MarkExecuting, TypeOK, stepVars, tableVars, bookVars

LEMMA TypeProceed ==
  ASSUME TypeOK, Placed, NEW p \in Runners, Proceed(p)
  PROVE  TypeOK'
<1>1. idx[p] \in Steps
  BY DEF Placed, PlacedOf, Proceed
<1>2. NextFrom(idx[p] + 1, seen[p]) \in 0..(N + 1)
  BY <1>1, NextFromStep, RunnerAssumption DEF TypeOK, Steps
<1>3. wf' \in WfStates
  BY DEF Proceed, TypeOK, WfStates
<1>. QED
  BY <1>2, <1>3 DEF Proceed, TypeOK, stepVars, tableVars, bookVars, Results

LEMMA TypeStartAttempt ==
  ASSUME TypeOK, Placed, NEW p \in Runners, StartAttempt(p)
  PROVE  TypeOK'
<1>1. idx[p] \in Steps /\ NextTry(p) \in Nat /\ NoIds \in [Keys -> Ids]
  BY RunnerAssumption
     DEF Placed, PlacedOf, StartAttempt, TypeOK, Steps, NextTry, NoIds, Ids
<1>2. WriteStep(idx[p], "running", NextTry(p), NoIds, FALSE)
  BY DEF StartAttempt
<1>3. /\ stepState' \in [Steps -> {"pending", "running", "succeeded", "failed", "paused"}]
      /\ stepTry' \in [Steps -> Nat]
      /\ stepIds' \in [Steps -> [Keys -> Ids]]
      /\ stepOut' \in [Steps -> BOOLEAN]
  BY <1>1, <1>2, TypeWrite
<1>. QED
  BY <1>1, <1>3 DEF StartAttempt, TypeOK, wfVars, tableVars, bookVars

LEMMA PausedIdsType ==
  ASSUME TypeOK, NEW p \in Runners
  PROVE  PausedIds(p) \in [Keys -> Ids] /\ NoIds \in [Keys -> Ids]
  BY DEF PausedIds, TypeOK, NoIds, Ids

LEMMA TypeRecordError ==
  ASSUME TypeOK, Placed, NEW p \in Runners, RecordError(p)
  PROVE  TypeOK'
<1>1. idx[p] \in Steps /\ try[p] \in Nat /\ NoIds \in [Keys -> Ids]
  BY PausedIdsType DEF Placed, PlacedOf, RecordError, TypeOK
<1>2. WriteStep(idx[p], "failed", try[p], NoIds, FALSE)
  BY DEF RecordError
<1>3. /\ stepState' \in [Steps -> {"pending", "running", "succeeded", "failed", "paused"}]
      /\ stepTry' \in [Steps -> Nat]
      /\ stepIds' \in [Steps -> [Keys -> Ids]]
      /\ stepOut' \in [Steps -> BOOLEAN]
  BY <1>1, <1>2, TypeWrite
<1>. QED
  BY <1>3 DEF RecordError, TypeOK, wfVars, tableVars, bookVars, Results

LEMMA TypeRecordResult ==
  ASSUME TypeOK, Placed, NEW p \in Runners, RecordResult(p)
  PROVE  TypeOK'
<1>1. /\ idx[p] \in Steps /\ try[p] \in Nat
      /\ NoIds \in [Keys -> Ids] /\ PausedIds(p) \in [Keys -> Ids]
  BY PausedIdsType DEF Placed, PlacedOf, RecordResult, TypeOK
<1>2. \/ WriteStep(idx[p], "paused", try[p], PausedIds(p), FALSE)
      \/ WriteStep(idx[p], "succeeded", try[p], NoIds, TRUE)
  BY DEF RecordResult
<1>3. /\ stepState' \in [Steps -> {"pending", "running", "succeeded", "failed", "paused"}]
      /\ stepTry' \in [Steps -> Nat]
      /\ stepIds' \in [Steps -> [Keys -> Ids]]
      /\ stepOut' \in [Steps -> BOOLEAN]
  BY <1>1, <1>2, TypeWrite
<1>4. ids' \in [Runners -> [Keys -> Ids]]
  <2> DEFINE merged == [k \in Keys |-> IF PausedIds(p)[k] = NoRequest
                                     THEN ids[p][k] ELSE PausedIds(p)[k]]
  <2>1. merged \in [Keys -> Ids]
    BY <1>1 DEF TypeOK
  <2>2. ids' = ids \/ ids' = [ids EXCEPT ![p] = merged]
    BY DEF RecordResult
  <2>. QED
    BY <2>1, <2>2 DEF TypeOK
<1>5. outs' \in [Runners -> SUBSET Steps]
  <2>1. outs' = outs \/ outs' = [outs EXCEPT ![p] = @ \cup {idx[p]}]
    BY DEF RecordResult
  <2>2. outs[p] \cup {idx[p]} \in SUBSET Steps
    BY <1>1 DEF TypeOK
  <2>. QED
    BY <2>1, <2>2 DEF TypeOK
<1>. QED
  BY <1>3, <1>4, <1>5 DEF RecordResult, TypeOK, wfVars, tableVars, bookVars

LEMMA TypeNext == TypeOK /\ Placed /\ [Next]_vars => TypeOK'
<1> SUFFICES ASSUME TypeOK, Placed, [Next]_vars PROVE TypeOK'
  OBVIOUS
<1>1. ASSUME NEW p \in Runners, Work(p) PROVE TypeOK'
  <2>1. PICK res \in Results : Return(p, res, NoRequest)
    BY <1>1 DEF Work, Results
  <2>2. /\ status' \in [Requests -> States] /\ history' \in [Requests -> Seq(States)]
        /\ owner' \in [Requests -> Gates \cup {0}] /\ ran' \subseteq Steps
        /\ NoRequest \in Ids
    BY <1>1 DEF Work, TypeOK, tableVars, bookVars, Ids
  <2>. QED
    BY <2>1, <2>2, TypeReturn
<1>2. ASSUME NEW p \in Runners, NEW r \in Requests, GateAsk(p, r) PROVE TypeOK'
  <2>1. status' \in [Requests -> States] /\ history' \in [Requests -> Seq(States)]
    BY <1>2, TypeMove DEF GateAsk, Open, States
  <2>2. owner' \in [Requests -> Gates \cup {0}]
    BY <1>2 DEF GateAsk, TypeOK
  <2>3. "pause" \in Results /\ r \in Ids
    BY DEF Results, Ids
  <2>4. Return(p, "pause", r) /\ ran' \subseteq Steps
    BY <1>2 DEF GateAsk, TypeOK
  <2>. QED
    BY <2>1, <2>2, <2>3, <2>4, TypeReturn
<1>3. ASSUME NEW p \in Runners, GateLookup(p) PROVE TypeOK'
  <2>1. Verdict(status[Known(p)]) \in Results
    BY DEF Verdict, Results
  <2>2. /\ status' \in [Requests -> States] /\ history' \in [Requests -> Seq(States)]
        /\ owner' \in [Requests -> Gates \cup {0}] /\ ran' \subseteq Steps
        /\ NoRequest \in Ids
    BY <1>3 DEF GateLookup, TypeOK, tableVars, bookVars, Ids
  <2>3. Return(p, Verdict(status[Known(p)]), NoRequest)
    BY <1>3 DEF GateLookup
  <2>. QED
    BY <2>1, <2>2, <2>3, TypeReturn
<1>4. ASSUME NEW p \in Runners, Pause(p) \/ Fail(p) \/ Finish(p) \/ Crash(p) PROVE TypeOK'
  <2>1. Leave(p) /\ wf' \in WfStates /\ summary' \subseteq Steps
    BY <1>4 DEF Pause, Fail, Finish, Crash, TypeOK, WfStates, Terminal, wfVars
  <2>. QED
    BY <2>1, TypeLeave
<1>5. ASSUME NEW r \in Requests, NEW d \in Decisions, Review(r, d) PROVE TypeOK'
  <2>1. status' \in [Requests -> States] /\ history' \in [Requests -> Seq(States)]
    BY <1>5, TypeMove DEF Review, Settle, States
  <2>. QED
    BY <1>5, <2>1 DEF Review, TypeOK, wfVars, stepVars, localVars
<1>6. ASSUME UNCHANGED vars PROVE TypeOK'
  BY <1>6 DEF vars, wfVars, stepVars, tableVars, bookVars, localVars, TypeOK
<1>. QED
  BY <1>1, <1>2, <1>3, <1>4, <1>5, <1>6, TypeLoad, TypeMarkExecuting, TypeProceed,
     TypeStartAttempt, TypeRecordError, TypeRecordResult DEF Next, PassStep

-----------------------------------------------------------------------------
(* What no step takes back: a request keeps its owner, an approval stays   *)
(* in its history, and what was shown from them stays shown.               *)

Grows ==
  /\ \A r \in Requests : owner[r] # 0 => owner'[r] = owner[r]
  /\ \A r \in Requests : \A n \in DOMAIN history[r] :
       n \in DOMAIN history'[r] /\ history'[r][n] = history[r][n]

LEMMA HistoryAppend ==
  ASSUME NEW h \in Seq(States), NEW d \in States
  PROVE  /\ \A n \in DOMAIN h : n \in DOMAIN Append(h, d) /\ Append(h, d)[n] = h[n]
         /\ \E n \in DOMAIN Append(h, d) : Append(h, d)[n] = d
<1>1. Len(h) + 1 \in DOMAIN Append(h, d) /\ Append(h, d)[Len(h) + 1] = d
  OBVIOUS
<1>2. \A n \in DOMAIN h : n \in DOMAIN Append(h, d) /\ Append(h, d)[n] = h[n]
  OBVIOUS
<1>. QED
  BY <1>1, <1>2

LEMMA MoveGrows ==
  ASSUME TypeOK, TableInv, NEW r \in Requests, NEW d \in States \ {"none"},
         NEW g \in Steps, Move({r}, d),
         \/ status[r] # "none" /\ owner' = owner
         \/ status[r] = "none" /\ owner' = [owner EXCEPT ![r] = g]
  PROVE  Grows /\ TableInv'
<1>1. history[r] \in Seq(States) /\ d \in States
  BY DEF TypeOK
<1>2. \A q \in Requests \ {r} : /\ status'[q] = status[q] /\ history'[q] = history[q]
                               /\ owner'[q] = owner[q]
  BY DEF Move, TypeOK
<1>3. status'[r] = d /\ history'[r] = Append(history[r], d)
  BY DEF Move
<1>4. /\ \A n \in DOMAIN history[r] : n \in DOMAIN history'[r] /\ history'[r][n] = history[r][n]
      /\ \E n \in DOMAIN history'[r] : history'[r][n] = d
  BY <1>1, <1>3, HistoryAppend
<1>5. owner'[r] # 0 /\ (owner[r] # 0 => owner'[r] = owner[r])
  BY DEF TypeOK, TableInv, Steps
<1>6. Grows
  BY <1>2, <1>4, <1>5 DEF Grows
<1>7. TableInv'
  BY <1>2, <1>3, <1>4, <1>5 DEF TableInv
<1>. QED
  BY <1>6, <1>7

LEMMA TableStep ==
  ASSUME IInv, [Next]_vars
  PROVE  Grows /\ TableInv'
<1> USE DEF IInv
<1>1. ASSUME UNCHANGED tableVars PROVE Grows /\ TableInv'
  BY <1>1 DEF tableVars, bookVars, Grows, TableInv
<1>2. ASSUME NEW p \in Runners, NEW r \in Requests, GateAsk(p, r)
      PROVE  Grows /\ TableInv'
  <2>1. "pending" \in States \ {"none"} /\ idx[p] \in Steps
    BY <1>2, RunnerAssumption DEF States, GateAsk
  <2>2. Move({r}, "pending") /\ status[r] = "none" /\ owner' = [owner EXCEPT ![r] = idx[p]]
    BY <1>2 DEF GateAsk, Open
  <2>. QED
    BY <2>1, <2>2, MoveGrows
<1>3. ASSUME NEW r \in Requests, NEW d \in Decisions, Review(r, d)
      PROVE  Grows /\ TableInv'
  <2>1. d \in States \ {"none"}
    BY DEF States, Decisions
  <2>2. Move({r}, d) /\ status[r] # "none" /\ owner' = owner
    BY <1>3 DEF Review, Settle
  <2>3. CASE Steps = {}
    <3>1. owner[r] = 0
      BY <2>3, RunnerAssumption DEF TypeOK
    <3>. QED
      BY <2>2, <3>1 DEF TableInv
  <2>4. CASE Steps # {}
    BY <2>1, <2>2, <2>4, MoveGrows
  <2>. QED
    BY <2>3, <2>4
<1>4. \/ UNCHANGED tableVars
      \/ \E p \in Runners, r \in Requests : GateAsk(p, r)
      \/ \E r \in Requests, d \in Decisions : Review(r, d)
  BY DEF Next, PassStep, Load, MarkExecuting, StartAttempt, Work, GateLookup, RecordError,
     RecordResult, Proceed, Pause, Fail, Finish, Crash, Leave, vars
<1>. QED
  BY <1>1, <1>2, <1>3, <1>4

LEMMA Stable ==
  ASSUME TypeOK, Grows
  PROVE  /\ \A g \in Gates : Cleared(g) => Cleared(g)'
         /\ \A d \in [Keys -> Ids] : Honest(owner, d) => Honest(owner', d)
<1>1. \A g \in Gates : g \in Nat /\ g # 0 /\ KeyOf[g] \in Keys
  BY RunnerAssumption DEF Steps
<1>2. \A g \in Gates : Cleared(g) => Cleared(g)'
  BY <1>1 DEF Grows, Cleared
<1>3. \A d \in [Keys -> Ids] : Honest(owner, d) => Honest(owner', d)
  BY <1>1 DEF Grows, Honest, Ids
<1>. QED
  BY <1>2, <1>3

LEMMA StoreKept ==
  ASSUME IInv, Grows, UNCHANGED stepVars
  PROVE  StoreInv'
<1> USE DEF IInv
<1>1. \A i \in Steps : stepIds[i] \in [Keys -> Ids] /\ stepIds'[i] = stepIds[i]
  BY DEF TypeOK, stepVars
<1>2. \A i \in Steps : Honest(owner', stepIds'[i])
  BY <1>1, Stable DEF StoreInv
<1>3. \A g \in Gates : stepState'[g] = "succeeded" => Cleared(g)'
  BY Stable DEF StoreInv, stepVars
<1>. QED
  BY <1>2, <1>3 DEF StoreInv

LEMMA WorkKept ==
  ASSUME IInv, Grows, UNCHANGED ran
  PROVE  WorkBehindGates'
  BY Stable DEF IInv, WorkBehindGates

(* A pass that does not move keeps its invariant while others do. *)
LEMMA PassKept ==
  ASSUME IInv, Grows, NEW q \in Runners,
         pc'[q] = pc[q], idx'[q] = idx[q], seen'[q] = seen[q], ids'[q] = ids[q],
         result'[q] = result[q], newId'[q] = newId[q]
  PROVE  PassInvOf(q)'
<1> USE DEF IInv
<1>1. PassInvOf(q)
  BY DEF PassInv
<1>2. Honest(owner', ids'[q])
  BY <1>1, Stable DEF TypeOK, PassInvOf
<1>3. pc'[q] = "record" /\ newId'[q] # NoRequest => owner'[newId'[q]] = idx'[q]
  <2> SUFFICES ASSUME pc[q] = "record", newId[q] # NoRequest
               PROVE  owner'[newId[q]] = idx[q]
    OBVIOUS
  <2>1. owner[newId[q]] = idx[q] /\ idx[q] \in Steps /\ newId[q] \in Requests
    BY <1>1 DEF PassInvOf, TypeOK, Ids
  <2>. QED
    BY <2>1 DEF Grows, Steps
<1>4. \A g \in Gates : Cleared(g) => Cleared(g)'
  BY Stable
<1>. QED
  BY <1>1, <1>2, <1>3, <1>4 DEF PassInvOf

-----------------------------------------------------------------------------
(* One lemma per action that can disturb the invariant: what the pass that *)
(* moves may claim afterwards, and what it may write.                      *)

LEMMA InvLoad ==
  ASSUME IInv, Grows, NEW p \in Runners, Load(p)
  PROVE  PassInvOf(p)'
<1> USE DEF IInv
<1>1. pc'[p] = "begin" /\ seen'[p] = {i \in Steps : stepState[i] = "succeeded"}
      /\ ids'[p] = RestoredIds
  BY DEF Load, TypeOK
<1>2. Honest(owner', RestoredIds)
  <2> SUFFICES ASSUME NEW g \in Gates, RestoredIds[KeyOf[g]] # NoRequest
               PROVE  owner'[RestoredIds[KeyOf[g]]] = g
    BY DEF Honest
  <2>1. KeyOf[g] \in Keys
    BY RunnerAssumption
  <2>2. PICK i \in Steps : RestoredIds[KeyOf[g]] = stepIds[i][KeyOf[g]]
    BY <2>1, RestoredFrom
  <2>3. Honest(owner', stepIds[i])
    BY Stable DEF StoreInv, TypeOK
  <2>. QED
    BY <2>2, <2>3 DEF Honest
<1>3. \A g \in Gates : g \in seen'[p] => Cleared(g)'
  BY <1>1, Stable DEF StoreInv
<1>. QED
  BY <1>1, <1>2, <1>3 DEF PassInvOf

LEMMA InvMarkExecuting ==
  ASSUME IInv, Grows, NEW p \in Runners, MarkExecuting(p)
  PROVE  PassInvOf(p)'
<1> USE DEF IInv
<1>1. /\ pc'[p] = "loop" /\ idx'[p] = NextFrom(1, seen[p]) /\ seen'[p] = seen[p]
      /\ ids'[p] = ids[p]
  BY DEF MarkExecuting, TypeOK
<1>2. PassInvOf(p) /\ seen[p] \in SUBSET Steps /\ 1 \in 1..(N + 1)
  BY RunnerAssumption DEF PassInv, TypeOK
<1>3. /\ NextFrom(1, seen[p]) \in 1..(N + 1)
      /\ \A h \in 1..(NextFrom(1, seen[p]) - 1) : h \in seen[p]
  BY <1>2, NextFromStep
<1>4. \A g \in Gates : g < idx'[p] => g \in seen[p]
  BY <1>1, <1>3, RunnerAssumption DEF Steps
<1>5. /\ \A g \in Gates : Cleared(g) => Cleared(g)'
      /\ Honest(owner', ids[p])
  BY <1>2, Stable DEF PassInvOf, TypeOK
<1>6. idx'[p] > 0
  BY <1>1, <1>3
<1>. QED
  BY <1>1, <1>2, <1>4, <1>5, <1>6 DEF PassInvOf

LEMMA InvProceed ==
  ASSUME IInv, Grows, NEW p \in Runners, Proceed(p)
  PROVE  PassInvOf(p)'
<1> USE DEF IInv
<1>1. /\ pc'[p] = "loop" /\ idx'[p] = NextFrom(idx[p] + 1, seen[p])
      /\ seen'[p] = seen[p] /\ ids'[p] = ids[p]
      /\ pc[p] = "advance" /\ result[p] = "ok"
  BY DEF Proceed, TypeOK
<1>2. PassInvOf(p) /\ idx[p] \in Steps /\ seen[p] \in SUBSET Steps
  BY <1>1 DEF PassInv, PassInvOf, TypeOK
<1>3. idx[p] + 1 \in 1..(N + 1)
  BY <1>2, RunnerAssumption DEF Steps
<1>4. /\ idx'[p] \in (idx[p] + 1)..(N + 1)
      /\ \A h \in (idx[p] + 1)..(idx'[p] - 1) : h \in seen[p]
  BY <1>1, <1>2, <1>3, NextFromStep
<1>5. \A g \in Gates : g < idx'[p] => g < idx[p] \/ g = idx[p] \/ g \in seen[p]
  BY <1>2, <1>4, RunnerAssumption, SMTT(40) DEF Steps
<1>6. \A g \in Gates : g < idx'[p] => Cleared(g)
  BY <1>1, <1>2, <1>5 DEF PassInvOf
<1>7. /\ \A g \in Gates : Cleared(g) => Cleared(g)'
      /\ Honest(owner', ids[p])
  BY <1>2, Stable DEF PassInvOf, TypeOK
<1>8. idx'[p] > 0
  BY <1>2, <1>4 DEF Steps
<1>. QED
  BY <1>1, <1>2, <1>6, <1>7, <1>8 DEF PassInvOf

(* A step that has returned: its success is backed by an approval of its   *)
(* own request if it is a gate.                                            *)
LEMMA InvReturn ==
  ASSUME IInv, Grows, NEW p \in Runners, NEW res, NEW id \in Ids, pc[p] = "run",
         Return(p, res, id), id # NoRequest => owner'[id] = idx[p],
         res = "ok" /\ idx[p] \in Gates => Cleared(idx[p])
  PROVE  PassInvOf(p)' /\ StoreInv'
<1> USE DEF IInv
<1>1. /\ pc'[p] = "record" /\ result'[p] = res /\ newId'[p] = id
      /\ idx'[p] = idx[p] /\ seen'[p] = seen[p] /\ ids'[p] = ids[p]
  BY DEF Return, TypeOK
<1>2. PassInvOf(p) /\ idx[p] \in Steps
  BY DEF PassInv, PassInvOf
<1>3. /\ \A g \in Gates : Cleared(g) => Cleared(g)'
      /\ Honest(owner', ids[p])
  BY <1>2, Stable DEF PassInvOf, TypeOK
<1>4. PassInvOf(p)'
  BY <1>1, <1>2, <1>3 DEF PassInvOf
<1>5. StoreInv'
  BY StoreKept DEF Return
<1>. QED
  BY <1>4, <1>5

(* The approval a gate goes on with is an approval of its own request.     *)
LEMMA InvGateLookup ==
  ASSUME IInv, NEW p \in Runners, GateLookup(p), Verdict(status[Known(p)]) = "ok"
  PROVE  Cleared(idx[p])
<1> USE DEF IInv
<1>1. /\ idx[p] \in Gates /\ KeyOf[idx[p]] \in Keys
      /\ Known(p) = ids[p][KeyOf[idx[p]]] /\ Known(p) # NoRequest
  BY RunnerAssumption DEF GateLookup, Known
<1>2. Known(p) \in Requests /\ owner[Known(p)] = idx[p]
  BY <1>1 DEF TypeOK, Ids, PassInv, PassInvOf, Honest
<1>3. status[Known(p)] = "approved"
  BY DEF Verdict
<1>. QED
  BY <1>2, <1>3 DEF TableInv, Cleared

(* Rows other than the one written keep what StoreInv says of them. *)
LEMMA InvWrite ==
  ASSUME IInv, Grows, NEW i \in Steps, NEW st, NEW n, NEW carried, NEW out,
         WriteStep(i, st, n, carried, out), Honest(owner', carried),
         st = "succeeded" /\ i \in Gates => Cleared(i)
  PROVE  StoreInv'
<1> USE DEF IInv
<1>1. \A j \in Steps : /\ stepIds'[j] = IF j = i THEN carried ELSE stepIds[j]
                       /\ stepState'[j] = IF j = i THEN st ELSE stepState[j]
  BY DEF WriteStep, TypeOK
<1>2. \A j \in Steps : Honest(owner', stepIds[j])
  BY Stable DEF StoreInv, TypeOK
<1>3. \A j \in Steps : Honest(owner', stepIds'[j])
  BY <1>1, <1>2
<1>4. \A g \in Gates : stepState'[g] = "succeeded" => Cleared(g)'
  BY <1>1, Stable, RunnerAssumption DEF StoreInv
<1>. QED
  BY <1>3, <1>4 DEF StoreInv

LEMMA NoIdsHonest == Honest(owner', NoIds)
  BY RunnerAssumption DEF Honest, NoIds

LEMMA InvStartAttempt ==
  ASSUME IInv, Grows, NEW p \in Runners, StartAttempt(p)
  PROVE  PassInvOf(p)' /\ StoreInv'
<1> USE DEF IInv
<1>1. /\ pc[p] = "loop" /\ idx[p] <= N /\ pc'[p] = "run"
      /\ idx'[p] = idx[p] /\ seen'[p] = seen[p] /\ ids'[p] = ids[p]
  BY DEF StartAttempt, TypeOK
<1>2. PassInvOf(p) /\ idx[p] \in Steps
  BY <1>1, RunnerAssumption DEF PassInv, PassInvOf, TypeOK, Steps
<1>3. /\ \A g \in Gates : Cleared(g) => Cleared(g)'
      /\ Honest(owner', ids[p])
  BY <1>2, Stable DEF PassInvOf, TypeOK
<1>4. PassInvOf(p)'
  BY <1>1, <1>2, <1>3 DEF PassInvOf
<1>5. WriteStep(idx[p], "running", NextTry(p), NoIds, FALSE)
  BY DEF StartAttempt
<1>6. StoreInv'
  BY <1>2, <1>5, NoIdsHonest, InvWrite
<1>. QED
  BY <1>4, <1>6

LEMMA InvRecordError ==
  ASSUME IInv, Grows, NEW p \in Runners, RecordError(p)
  PROVE  PassInvOf(p)' /\ StoreInv'
<1> USE DEF IInv
<1>1. /\ pc[p] = "record" /\ pc'[p] \in {"loop", "fail"}
      /\ idx'[p] = idx[p] /\ seen'[p] = seen[p] /\ ids'[p] = ids[p]
  BY DEF RecordError, TypeOK
<1>2. PassInvOf(p) /\ idx[p] \in Steps
  BY <1>1 DEF PassInv, PassInvOf
<1>3. /\ \A g \in Gates : Cleared(g) => Cleared(g)'
      /\ Honest(owner', ids[p])
  BY <1>2, Stable DEF PassInvOf, TypeOK
<1>4. PassInvOf(p)'
  BY <1>1, <1>2, <1>3 DEF PassInvOf
<1>5. WriteStep(idx[p], "failed", try[p], NoIds, FALSE)
  BY DEF RecordError
<1>6. StoreInv'
  BY <1>2, <1>5, NoIdsHonest, InvWrite
<1>. QED
  BY <1>4, <1>6

(* The id a pause stores, and merges into the pass's own dictionary, is    *)
(* the paused gate's: under its key there is no other gate's.              *)
LEMMA InvRecordResult ==
  ASSUME OwnKeys, IInv, Grows, NEW p \in Runners, RecordResult(p), UNCHANGED owner
  PROVE  PassInvOf(p)' /\ StoreInv'
<1> USE DEF IInv
<1> DEFINE merged == [k \in Keys |-> IF PausedIds(p)[k] = NoRequest
                                   THEN ids[p][k] ELSE PausedIds(p)[k]]
<1>1. /\ pc[p] = "record" /\ pc'[p] = "advance" /\ result'[p] = result[p]
      /\ idx'[p] = idx[p] /\ seen'[p] = seen[p] /\ ids'[p] \in {ids[p], merged}
  BY DEF RecordResult, TypeOK
<1>2. PassInvOf(p) /\ idx[p] \in Steps
  BY <1>1 DEF PassInv, PassInvOf
<1>3. /\ \A g \in Gates : Cleared(g) => Cleared(g)'
      /\ Honest(owner', ids[p])
  BY <1>2, Stable DEF PassInvOf, TypeOK
<1>4. Honest(owner', PausedIds(p))
  <2>1. CASE newId[p] = NoRequest
    BY <2>1, NoIdsHonest DEF PausedIds
  <2>2. CASE newId[p] # NoRequest
    <3>1. owner[newId[p]] = idx[p] /\ idx[p] \in Gates
      BY <1>1, <1>2, <2>2 DEF PassInvOf, TypeOK, Ids, Steps
    <3>2. PausedIds(p) = [k \in Keys |-> IF k = KeyOf[idx[p]] THEN newId[p] ELSE NoRequest]
      BY <2>2, <3>1, RunnerAssumption DEF PausedIds, NoIds
    <3>3. \A g \in Gates : KeyOf[g] = KeyOf[idx[p]] => g = idx[p]
      BY <3>1 DEF OwnKeys
    <3>. QED
      BY <3>1, <3>2, <3>3, RunnerAssumption DEF Honest
  <2>. QED
    BY <2>1, <2>2
<1>5. Honest(owner', merged)
  BY <1>3, <1>4, RunnerAssumption DEF Honest
<1>6. PassInvOf(p)'
  BY <1>1, <1>2, <1>3, <1>5 DEF PassInvOf
<1>7. CASE result[p] = "pause"
  <2>1. WriteStep(idx[p], "paused", try[p], PausedIds(p), FALSE)
    BY <1>7 DEF RecordResult
  <2>. QED
    BY <1>2, <1>4, <1>6, <2>1, InvWrite
<1>8. CASE result[p] = "ok"
  <2>1. WriteStep(idx[p], "succeeded", try[p], NoIds, TRUE)
    BY <1>8 DEF RecordResult
  <2>2. idx[p] \in Gates => Cleared(idx[p])
    BY <1>1, <1>2, <1>8 DEF PassInvOf
  <2>. QED
    BY <1>2, <1>6, <2>1, <2>2, NoIdsHonest, InvWrite
<1>. QED
  BY <1>7, <1>8 DEF RecordResult

(* A pass that is over claims nothing. *)
LEMMA InvLeave ==
  ASSUME IInv, Grows, NEW p \in Runners, Leave(p)
  PROVE  PassInvOf(p)' /\ StoreInv'
<1>1. pc'[p] = "idle" /\ ids'[p] = NoIds /\ seen'[p] = {}
  BY DEF Leave, IInv, TypeOK
<1>2. Honest(owner', NoIds)
  BY NoIdsHonest
<1>3. StoreInv'
  BY StoreKept DEF Leave
<1>. QED
  BY <1>1, <1>2, <1>3 DEF PassInvOf

-----------------------------------------------------------------------------
(* The theorems. *)

LEMMA InvInit == Init => IInv
<1> SUFFICES ASSUME Init PROVE IInv
  OBVIOUS
<1>1. TypeOK
  BY TypeInit
<1>2. TableInv
  BY DEF Init, BookInit, TableInv
<1>3. StoreInv
  BY RunnerAssumption DEF Init, StoreInv, Honest, NoIds
<1>4. PassInv
  BY RunnerAssumption DEF Init, PassInv, PassInvOf, Honest, NoIds
<1>5. WorkBehindGates
  BY DEF Init, WorkBehindGates
<1>. QED
  BY <1>1, <1>2, <1>3, <1>4, <1>5 DEF IInv

(* What a pass's own step leaves to show: its own claims and the rows.     *)
LEMMA InvPassStep ==
  ASSUME OwnKeys, IInv, Grows, [Next]_vars, NEW p \in Runners,
         Load(p) \/ PassStep(p) \/ Crash(p)
  PROVE  PassInvOf(p)' /\ StoreInv'
<1> USE DEF IInv
<1>1. CASE Load(p)
  BY <1>1, InvLoad, StoreKept DEF Load
<1>2. CASE MarkExecuting(p)
  BY <1>2, InvMarkExecuting, StoreKept DEF MarkExecuting
<1>3. CASE StartAttempt(p)
  BY <1>3, InvStartAttempt
<1>4. CASE Work(p)
  <2>1. PICK res \in {"ok", "error"} : Return(p, res, NoRequest)
    BY <1>4 DEF Work
  <2>2. pc[p] = "run" /\ idx[p] \notin Gates /\ NoRequest \in Ids
    BY <1>4 DEF Work, Ids
  <2>. QED
    BY <2>1, <2>2, InvReturn
<1>5. ASSUME NEW r \in Requests, GateAsk(p, r) PROVE PassInvOf(p)' /\ StoreInv'
  <2>1. pc[p] = "run" /\ Return(p, "pause", r) /\ owner'[r] = idx[p] /\ r \in Ids
    BY <1>5 DEF GateAsk, TypeOK, Ids
  <2>. QED
    BY <2>1, InvReturn
<1>6. CASE GateLookup(p)
  <2> DEFINE res == Verdict(status[Known(p)])
  <2>1. pc[p] = "run" /\ Return(p, res, NoRequest) /\ NoRequest \in Ids
    BY <1>6 DEF GateLookup, Ids
  <2>2. res = "ok" => Cleared(idx[p])
    BY <1>6, InvGateLookup
  <2> HIDE DEF res
  <2>. QED
    BY <2>1, <2>2, InvReturn
<1>7. CASE RecordError(p)
  BY <1>7, InvRecordError
<1>8. CASE RecordResult(p)
  BY <1>8, InvRecordResult DEF RecordResult, tableVars
<1>9. CASE Proceed(p)
  BY <1>9, InvProceed, StoreKept DEF Proceed
<1>10. CASE Pause(p) \/ Fail(p) \/ Finish(p) \/ Crash(p)
  BY <1>10, InvLeave DEF Pause, Fail, Finish, Crash
<1>. QED
  BY <1>1, <1>2, <1>3, <1>4, <1>5, <1>6, <1>7, <1>8, <1>9, <1>10 DEF PassStep

LEMMA OthersKept ==
  ASSUME IInv, Grows, NEW p \in Runners, Load(p) \/ PassStep(p) \/ Crash(p),
         NEW q \in Runners, q # p
  PROVE  PassInvOf(q)'
<1>1. /\ pc'[q] = pc[q] /\ idx'[q] = idx[q] /\ seen'[q] = seen[q]
      /\ ids'[q] = ids[q] /\ result'[q] = result[q] /\ newId'[q] = newId[q]
  <2> DEFINE Same == /\ pc'[q] = pc[q] /\ idx'[q] = idx[q] /\ seen'[q] = seen[q]
                     /\ ids'[q] = ids[q] /\ result'[q] = result[q] /\ newId'[q] = newId[q]
  <2>1. /\ DOMAIN pc = Runners /\ DOMAIN idx = Runners /\ DOMAIN seen = Runners
        /\ DOMAIN ids = Runners /\ DOMAIN result = Runners /\ DOMAIN newId = Runners
    BY DEF IInv, TypeOK
  <2>2. CASE Load(p) \/ MarkExecuting(p) \/ StartAttempt(p)
    BY <2>1, <2>2 DEF Load, MarkExecuting, StartAttempt
  <2>3. CASE Work(p) \/ (\E r \in Requests : GateAsk(p, r)) \/ GateLookup(p)
    <3>1. PICK res, id : Return(p, res, id)
      BY <2>3 DEF Work, GateAsk, GateLookup
    <3>. QED
      BY <2>1, <3>1 DEF Return
  <2>4. CASE RecordError(p) \/ RecordResult(p) \/ Proceed(p)
    BY <2>1, <2>4 DEF RecordError, RecordResult, Proceed
  <2>5. CASE Pause(p) \/ Fail(p) \/ Finish(p) \/ Crash(p)
    <3>1. Leave(p)
      BY <2>5 DEF Pause, Fail, Finish, Crash
    <3>. QED
      BY <2>1, <3>1 DEF Leave
  <2>. QED
    BY <2>2, <2>3, <2>4, <2>5 DEF PassStep
<1>. QED
  BY <1>1, PassKept

LEMMA InvWork ==
  ASSUME IInv, Grows, NEW p \in Runners, Load(p) \/ PassStep(p) \/ Crash(p)
  PROVE  WorkBehindGates'
<1> USE DEF IInv
<1>1. CASE Work(p)
  <2>1. ran' = ran \cup {idx[p]} /\ \A g \in Gates : g < idx[p] => Cleared(g)
    BY <1>1 DEF Work, PassInv, PassInvOf
  <2>. QED
    BY <2>1, Stable DEF WorkBehindGates
<1>2. CASE ~Work(p)
  <2>1. UNCHANGED ran
    BY <1>2 DEF Load, PassStep, MarkExecuting, StartAttempt, GateAsk, GateLookup,
       RecordError, RecordResult, Proceed, Pause, Fail, Finish, Crash, Leave
  <2>. QED
    BY <2>1, WorkKept
<1>. QED
  BY <1>1, <1>2

LEMMA InvNext == OwnKeys /\ IInv /\ [Next]_vars => IInv'
<1> SUFFICES ASSUME OwnKeys, IInv, [Next]_vars PROVE IInv'
  OBVIOUS
<1>1. TypeOK'
  <2>1. Placed
    BY DEF IInv, PassInv, PassInvOf, Placed, PlacedOf
  <2>. QED
    BY <2>1, TypeNext DEF IInv
<1>2. Grows /\ TableInv'
  BY TableStep
<1>3. ASSUME NEW p \in Runners, Load(p) \/ PassStep(p) \/ Crash(p) PROVE IInv'
  <2>1. PassInvOf(p)' /\ StoreInv'
    BY <1>2, <1>3, InvPassStep
  <2>2. \A q \in Runners : q # p => PassInvOf(q)'
    BY <1>2, <1>3, OthersKept
  <2>3. WorkBehindGates'
    BY <1>2, <1>3, InvWork
  <2>. QED
    BY <1>1, <1>2, <2>1, <2>2, <2>3 DEF IInv, PassInv
<1>4. ASSUME \/ UNCHANGED vars
             \/ \E r \in Requests, d \in Decisions : Review(r, d)
      PROVE  IInv'
  <2>1. UNCHANGED <<stepVars, localVars, ran>>
    BY <1>4 DEF Review, vars
  <2>2. StoreInv' /\ WorkBehindGates'
    BY <1>2, <2>1, StoreKept, WorkKept
  <2>3. \A q \in Runners : PassInvOf(q)'
    BY <1>2, <2>1, PassKept DEF localVars
  <2>. QED
    BY <1>1, <1>2, <2>2, <2>3 DEF IInv, PassInv
<1>. QED
  BY <1>3, <1>4 DEF Next

(* The invariant holds for any number of overlapping passes over one       *)
(* graph, with or without crashes, if gates do not share keys.             *)
THEOREM InvCorrect == OwnKeys => (Spec => []IInv)
<1> SUFFICES ASSUME OwnKeys PROVE Spec => []IInv
  OBVIOUS
<1>1. IInv /\ [Next]_vars => IInv'
  BY InvNext
<1>. QED
  BY <1>1, InvInit, PTL DEF Spec

(* Every variable of the runner keeps its type.                            *)
THEOREM TypeCorrect == OwnKeys => (Spec => []TypeOK)
<1>1. IInv => TypeOK
  BY DEF IInv
<1>. QED
  BY <1>1, InvCorrect, PTL

(* No work step is ever entered before each gate ahead of it has been      *)
(* approved by a decision on a request of its own.                         *)
THEOREM GatesHold == OwnKeys => (Spec => []WorkBehindGates)
<1>1. IInv => WorkBehindGates
  BY DEF IInv
<1>. QED
  BY <1>1, InvCorrect, PTL
-----------------------------------------------------------------------------
(* One pass at a time.  The keys no longer matter: a pass that is alone    *)
(* may trust what it found when it loaded the rows.                        *)

OnePass == \A p, q \in Runners : p = q

Inside == {"loop", "run", "record", "advance", "fail"}

Has(p, i) == Succeeded(i) /\ i \in outs[p]

(* The steps to skip have succeeded, and their output is at hand; before   *)
(* the first attempt they are all that have.                               *)
FoundOf(p) ==
  /\ \A i \in seen[p] : Has(p, i)
  /\ pc[p] = "begin" => \A i \in Steps : stepState[i] = "succeeded" => i \in seen[p]

(* So have those behind the pass, and none ahead that it will not skip.    *)
BehindOf(p) ==
  pc[p] \in Inside =>
    /\ \A i \in Steps : i < idx[p] => Has(p, i)
    /\ \A i \in Steps : i > idx[p] /\ stepState[i] = "succeeded" => i \in seen[p]

(* The step it is at has not succeeded until its success is recorded, and  *)
(* has used no more attempts than it has.                                  *)
AtOf(p) ==
  /\ pc[p] \in Inside \ {"advance"} /\ idx[p] \in Steps => stepState[idx[p]] # "succeeded"
  /\ pc[p] = "loop" /\ idx[p] \in Steps => try[p] < MaxAttempts[idx[p]]
  /\ pc[p] \in {"run", "record"} => try[p] <= MaxAttempts[idx[p]]
  /\ pc[p] = "fail" => stepState[idx[p]] = "failed" /\ stepTry[idx[p]] = MaxAttempts[idx[p]]
  /\ pc[p] = "record" /\ result[p] = "pause" => idx[p] \in Gates
  /\ pc[p] = "advance" /\ result[p] = "pause" => idx[p] \in Gates /\ stepState[idx[p]] = "paused"
  /\ pc[p] = "advance" /\ result[p] = "ok" => Has(p, idx[p])

(* An active pass keeps the workflow row away from what only its end may   *)
(* write there.                                                            *)
RowOf(p) ==
  /\ pc[p] # "idle" => wf \notin Terminal
  /\ pc[p] \in Inside => wf # "paused"

WalkOf(p) == PlacedOf(p) /\ FoundOf(p) /\ BehindOf(p) /\ AtOf(p) /\ RowOf(p)

RowsInv == \A i \in Steps : stepState[i] = "succeeded" => stepOut[i]

DoneTold   == wf = "done" => (\A i \in Steps : Succeeded(i)) /\ summary = Steps
FailedTold == wf = "failed" =>
  \E i \in Steps : /\ stepState[i] = "failed" /\ stepTry[i] = MaxAttempts[i]
                   /\ \A j \in 1..(i - 1) : Succeeded(j)
PausedTold == wf = "paused" =>
  \E g \in Gates : stepState[g] = "paused" /\ \A j \in 1..(g - 1) : Succeeded(j)
Explained  == DoneTold /\ FailedTold /\ PausedTold

SInv == TypeOK /\ RowsInv /\ Explained /\ \A p \in Runners : WalkOf(p)

(* What a step must keep, in its own pass and in the store. *)
Keeps(p) ==
  /\ WalkOf(p)' /\ RowsInv' /\ Explained'
  /\ wf \in Terminal => wf' = wf
  /\ \A i \in Steps : stepState[i] = "succeeded" => stepState'[i] = "succeeded"

(* A pass that wrote no row may say of the rows what it said before. *)
LEMMA RowsStay ==
  ASSUME UNCHANGED stepVars
  PROVE  /\ \A i : /\ stepState'[i] = stepState[i] /\ stepTry'[i] = stepTry[i]
                   /\ stepOut'[i] = stepOut[i] /\ Succeeded(i)' = Succeeded(i)
         /\ RowsInv => RowsInv'
         /\ wf' = wf /\ summary' = summary /\ Explained => Explained'
  BY DEF stepVars, Succeeded, RowsInv, Explained, DoneTold, FailedTold, PausedTold

(* A row that is written is the only one that changes. *)
LEMMA RowWritten ==
  ASSUME TypeOK, NEW i \in Steps, NEW st, NEW n, NEW carried, NEW out,
         WriteStep(i, st, n, carried, out)
  PROVE  /\ stepState'[i] = st /\ stepTry'[i] = n /\ stepOut'[i] = out
         /\ \A j \in Steps \ {i} : /\ stepState'[j] = stepState[j]
                                   /\ Succeeded(j)' = Succeeded(j)
                                   /\ stepOut'[j] = stepOut[j]
  BY DEF WriteStep, TypeOK, Succeeded

(* The row of a workflow a pass is at work on tells nothing yet. *)
LEMMA NothingToTell ==
  ASSUME wf' \notin Terminal, wf' # "paused"
  PROVE  Explained'
  BY DEF Explained, DoneTold, FailedTold, PausedTold, Terminal

LEMMA AloneLoad ==
  ASSUME SInv, NEW p \in Runners, Load(p)
  PROVE  Keeps(p)
<1> USE DEF SInv
<1>1. /\ pc'[p] = "begin" /\ seen'[p] = {i \in Steps : stepState[i] = "succeeded"}
      /\ outs'[p] = {i \in Restored : stepOut[i]} /\ UNCHANGED <<stepVars, summary>>
      /\ wf \notin Terminal /\ (wf' = wf \/ wf' = "planned")
  BY DEF Load, Startable, TypeOK
<1>2. RowsInv' /\ \A i : stepState'[i] = stepState[i] /\ Succeeded(i)' = Succeeded(i)
  BY <1>1, RowsStay
<1>3. Explained' /\ wf' \notin Terminal
  <2>1. CASE wf' = wf
    BY <1>1, <2>1, RowsStay
  <2>2. CASE wf' = "planned"
    BY <2>2, NothingToTell DEF Terminal
  <2>. QED
    BY <1>1, <2>1, <2>2
<1>4. \A i \in seen'[p] : Has(p, i)'
  BY <1>1, <1>2 DEF Has, Succeeded, Restored, RowsInv
<1>5. FoundOf(p)'
  BY <1>1, <1>2, <1>4 DEF FoundOf
<1>6. PlacedOf(p)' /\ BehindOf(p)' /\ AtOf(p)' /\ RowOf(p)'
  BY <1>1, <1>3 DEF PlacedOf, BehindOf, AtOf, RowOf, Inside
<1>. QED
  BY <1>1, <1>2, <1>3, <1>5, <1>6 DEF Keeps, WalkOf

(* Where the loop goes next: everything it passes over is in the rows. *)
LEMMA AloneLoop ==
  ASSUME SInv, NEW p \in Runners, NEW i \in 1..(N + 1),
         pc'[p] = "loop", idx'[p] = NextFrom(i, seen[p]), try'[p] = 0,
         seen'[p] = seen[p], outs'[p] = outs[p], UNCHANGED stepVars,
         wf \notin Terminal, wf' \notin Terminal, wf' # "paused",
         \A j \in Steps : j < i => Has(p, j),
         \A j \in Steps : j >= i /\ stepState[j] = "succeeded" => j \in seen[p]
  PROVE  Keeps(p)
<1>1. FoundOf(p) /\ seen[p] \in SUBSET Steps /\ Steps \subseteq Nat /\ i \in Nat /\ N \in Nat
  BY RunnerAssumption DEF WalkOf, TypeOK, Steps, SInv
<1>2. /\ idx'[p] \in i..(N + 1) /\ idx'[p] \notin seen[p]
      /\ \A h \in i..(idx'[p] - 1) : h \in seen[p]
  BY <1>1, NextFromStep
<1>3. RowsInv' /\ \A j : stepState'[j] = stepState[j] /\ Succeeded(j)' = Succeeded(j)
  BY RowsStay DEF SInv
<1>4. \A j : Has(p, j)' = Has(p, j)
  BY <1>3 DEF Has
<1>5. \A j \in Steps : j < idx'[p] => j < i \/ j \in seen[p]
  <2> SUFFICES ASSUME NEW j \in Steps, j < idx'[p], ~(j < i) PROVE j \in seen[p]
    OBVIOUS
  <2>1. j \in i..(idx'[p] - 1)
    BY <1>1, <1>2
  <2>. QED
    BY <1>2, <2>1
<1>6. \A j \in Steps : j < idx'[p] => Has(p, j)
  BY <1>1, <1>5 DEF FoundOf
<1>7. \A j \in Steps : j >= idx'[p] => j >= i
  BY <1>1, <1>2
<1>8. FoundOf(p)'
  BY <1>1, <1>4 DEF FoundOf
<1>9. BehindOf(p)'
  BY <1>1, <1>2, <1>3, <1>4, <1>6, <1>7 DEF BehindOf
<1>10. idx'[p] \in Steps => stepState'[idx'[p]] # "succeeded" /\ try'[p] < MaxAttempts[idx'[p]]
  BY <1>1, <1>2, <1>3, <1>7, RunnerAssumption
<1>11. PlacedOf(p)' /\ AtOf(p)' /\ RowOf(p)'
  BY <1>1, <1>2, <1>10 DEF PlacedOf, AtOf, RowOf, Inside
<1>12. Explained'
  BY NothingToTell
<1>. QED
  BY <1>3, <1>8, <1>9, <1>11, <1>12 DEF Keeps, WalkOf

LEMMA AloneMarkExecuting ==
  ASSUME SInv, NEW p \in Runners, MarkExecuting(p)
  PROVE  Keeps(p)
<1>1. /\ pc[p] = "begin" /\ pc'[p] = "loop" /\ idx'[p] = NextFrom(1, seen[p])
      /\ try'[p] = 0 /\ seen'[p] = seen[p] /\ outs'[p] = outs[p] /\ UNCHANGED stepVars
      /\ wf' = "executing"
  BY DEF MarkExecuting, TypeOK, SInv
<1>2. /\ wf \notin Terminal
      /\ \A j \in Steps : stepState[j] = "succeeded" => j \in seen[p]
  BY <1>1 DEF WalkOf, FoundOf, RowOf, SInv
<1>3. wf' \notin Terminal /\ wf' # "paused"
  BY <1>1 DEF Terminal
<1>4. 1 \in 1..(N + 1) /\ \A j \in Steps : ~(j < 1)
  BY RunnerAssumption DEF Steps
<1>. QED
  BY <1>1, <1>2, <1>3, <1>4, AloneLoop

LEMMA AloneProceed ==
  ASSUME SInv, NEW p \in Runners, Proceed(p)
  PROVE  Keeps(p)
<1>1. /\ pc[p] = "advance" /\ result[p] = "ok" /\ pc'[p] = "loop"
      /\ idx'[p] = NextFrom(idx[p] + 1, seen[p])
      /\ try'[p] = 0 /\ seen'[p] = seen[p] /\ outs'[p] = outs[p] /\ UNCHANGED stepVars
      /\ (wf' = wf \/ wf' \in NextStates)
  BY DEF Proceed, TypeOK, SInv
<1>2. /\ wf \notin Terminal /\ wf # "paused" /\ idx[p] \in Steps /\ Has(p, idx[p])
      /\ \A j \in Steps : j < idx[p] => Has(p, j)
      /\ \A j \in Steps : j > idx[p] /\ stepState[j] = "succeeded" => j \in seen[p]
  BY <1>1 DEF WalkOf, PlacedOf, BehindOf, AtOf, RowOf, Inside, SInv
<1>3. wf' \notin Terminal /\ wf' # "paused"
  BY <1>1, <1>2, RunnerAssumption DEF Terminal
<1>4. /\ idx[p] + 1 \in 1..(N + 1)
      /\ \A j \in Steps : j < idx[p] + 1 => j < idx[p] \/ j = idx[p]
      /\ \A j \in Steps : j >= idx[p] + 1 => j > idx[p]
  BY <1>2, RunnerAssumption DEF Steps
<1>. QED
  BY <1>1, <1>2, <1>3, <1>4, AloneLoop

(* A row written for the step the pass is at; the others stay. *)
LEMMA AloneWrite ==
  ASSUME SInv, NEW p \in Runners, pc[p] \in Inside \ {"advance"}, idx[p] \in Steps,
         NEW st, NEW n, NEW carried, NEW out, WriteStep(idx[p], st, n, carried, out),
         st = "succeeded" => stepOut'[idx[p]],
         pc'[p] \in Inside, idx'[p] = idx[p], seen'[p] = seen[p],
         outs[p] \subseteq outs'[p], UNCHANGED wf, AtOf(p)'
  PROVE  Keeps(p)
<1> DEFINE i == idx[p]
<1>1. /\ FoundOf(p) /\ wf \notin Terminal /\ wf # "paused" /\ stepState[i] # "succeeded"
      /\ \A j \in Steps : j < i => Has(p, j)
      /\ \A j \in Steps : j > i /\ stepState[j] = "succeeded" => j \in seen[p]
  BY DEF WalkOf, BehindOf, AtOf, RowOf, Inside, SInv
<1>2. i \in Nat /\ i > 0 /\ Steps \subseteq Nat /\ seen[p] \subseteq Steps
  BY RunnerAssumption DEF Steps, TypeOK, SInv
<1>3. /\ stepState'[i] = st /\ stepOut'[i] = out
      /\ \A j \in Steps \ {i} : /\ stepState'[j] = stepState[j]
                                /\ Succeeded(j)' = Succeeded(j)
                                /\ stepOut'[j] = stepOut[j]
  BY RowWritten DEF SInv
<1>4. \A j \in Steps \ {i} : Has(p, j) => Has(p, j)'
  BY <1>3 DEF Has
<1>5. i \notin seen[p]
  BY <1>1 DEF FoundOf, Has, Succeeded
<1>6. FoundOf(p)'
  BY <1>1, <1>2, <1>4, <1>5 DEF FoundOf, Inside
<1>7. BehindOf(p)'
  BY <1>1, <1>2, <1>3, <1>4 DEF BehindOf
<1>8. RowsInv'
  BY <1>3 DEF RowsInv, SInv
<1>9. PlacedOf(p)' /\ RowOf(p)' /\ Explained'
  BY <1>1, <1>2, NothingToTell DEF PlacedOf, RowOf
<1>10. \A j \in Steps : stepState[j] = "succeeded" => stepState'[j] = "succeeded"
  BY <1>1, <1>3
<1>. QED
  BY <1>1, <1>6, <1>7, <1>8, <1>9, <1>10 DEF Keeps, WalkOf

LEMMA AloneStartAttempt ==
  ASSUME SInv, NEW p \in Runners, StartAttempt(p)
  PROVE  Keeps(p)
<1>1. /\ pc[p] = "loop" /\ pc'[p] = "run" /\ idx'[p] = idx[p] /\ seen'[p] = seen[p]
      /\ outs'[p] = outs[p] /\ try'[p] = try[p] + 1 /\ UNCHANGED wf /\ idx[p] <= N
      /\ WriteStep(idx[p], "running", NextTry(p), NoIds, FALSE)
  BY DEF StartAttempt, TypeOK, NextTry, wfVars, SInv
<1>2. idx[p] \in Steps
  BY <1>1, RunnerAssumption DEF WalkOf, PlacedOf, Inside, TypeOK, Steps, SInv
<1>3. try[p] < MaxAttempts[idx[p]] /\ try[p] \in Nat /\ MaxAttempts[idx[p]] \in Nat
  BY <1>1, <1>2, RunnerAssumption DEF WalkOf, AtOf, TypeOK, SInv
<1>4. try'[p] <= MaxAttempts[idx[p]]
  BY <1>1, <1>3
<1>5. stepState'[idx[p]] = "running"
  BY <1>1, <1>2, RowWritten DEF SInv
<1>6. AtOf(p)'
  BY <1>1, <1>4, <1>5 DEF AtOf
<1>. QED
  BY <1>1, <1>2, <1>6, AloneWrite DEF Inside

LEMMA AloneRecordError ==
  ASSUME SInv, NEW p \in Runners, RecordError(p)
  PROVE  Keeps(p)
<1>1. /\ pc[p] = "record" /\ idx'[p] = idx[p] /\ seen'[p] = seen[p] /\ outs'[p] = outs[p]
      /\ pc'[p] = IF try[p] < MaxAttempts[idx[p]] THEN "loop" ELSE "fail"
      /\ try'[p] = try[p] /\ result'[p] = "none" /\ UNCHANGED wf
      /\ WriteStep(idx[p], "failed", try[p], NoIds, FALSE)
  BY DEF RecordError, TypeOK, wfVars, SInv
<1>2. idx[p] \in Steps /\ try[p] <= MaxAttempts[idx[p]]
  BY <1>1 DEF WalkOf, PlacedOf, AtOf, Inside, SInv
<1>3. try[p] \in Nat /\ MaxAttempts[idx[p]] \in Nat
  BY <1>2, RunnerAssumption DEF TypeOK, SInv
<1>4. stepState'[idx[p]] = "failed" /\ stepTry'[idx[p]] = try[p]
  BY <1>1, <1>2 DEF WriteStep, TypeOK, SInv
<1>5. pc'[p] = "fail" => try[p] = MaxAttempts[idx[p]]
  BY <1>1, <1>2, <1>3
<1>6. pc'[p] = "loop" => try[p] < MaxAttempts[idx[p]]
  BY <1>1
<1>7. AtOf(p)'
  BY <1>1, <1>4, <1>5, <1>6 DEF AtOf
<1>. QED
  BY <1>1, <1>2, <1>7, AloneWrite DEF Inside

LEMMA AloneRecordResult ==
  ASSUME SInv, NEW p \in Runners, RecordResult(p)
  PROVE  Keeps(p)
<1>1. /\ pc[p] = "record" /\ pc'[p] = "advance" /\ idx'[p] = idx[p] /\ seen'[p] = seen[p]
      /\ result'[p] = result[p] /\ result[p] \in {"ok", "pause"} /\ UNCHANGED wf
  BY DEF RecordResult, TypeOK, wfVars, SInv
<1>2. idx[p] \in Steps /\ (result[p] = "pause" => idx[p] \in Gates)
  BY <1>1 DEF WalkOf, PlacedOf, AtOf, Inside, SInv
<1>3. CASE result[p] = "pause"
  <2>1. WriteStep(idx[p], "paused", try[p], PausedIds(p), FALSE) /\ outs'[p] = outs[p]
    BY <1>3 DEF RecordResult
  <2>2. stepState'[idx[p]] = "paused"
    BY <1>2, <2>1, RowWritten DEF SInv
  <2>3. AtOf(p)'
    BY <1>1, <1>2, <1>3, <2>2 DEF AtOf
  <2>. QED
    BY <1>1, <1>2, <2>1, <2>3, AloneWrite DEF Inside
<1>4. CASE result[p] = "ok"
  <2>1. /\ WriteStep(idx[p], "succeeded", try[p], NoIds, TRUE)
        /\ outs'[p] = outs[p] \cup {idx[p]}
    BY <1>4 DEF RecordResult, TypeOK, SInv
  <2>2. stepState'[idx[p]] = "succeeded" /\ stepOut'[idx[p]]
    BY <1>2, <2>1 DEF WriteStep, TypeOK, SInv
  <2>3. AtOf(p)'
    BY <1>1, <1>4, <2>1, <2>2 DEF AtOf, Has, Succeeded
  <2>4. outs[p] \subseteq outs'[p] /\ pc[p] \in Inside \ {"advance"} /\ pc'[p] \in Inside
    BY <1>1, <2>1 DEF Inside
  <2>5. WriteStep(idx[p], "succeeded", try[p], NoIds, TRUE)
    BY <2>1
  <2>. QED
    BY <1>1, <1>2, <2>2, <2>3, <2>4, <2>5, AloneWrite
<1>. QED
  BY <1>1, <1>3, <1>4

(* A step that has returned: only gates pause. *)
LEMMA AloneReturn ==
  ASSUME SInv, NEW p \in Runners, NEW res, NEW id, pc[p] = "run", Return(p, res, id),
         res = "pause" => idx[p] \in Gates
  PROVE  Keeps(p)
<1> USE DEF SInv
<1>1. /\ pc'[p] = "record" /\ result'[p] = res /\ idx'[p] = idx[p] /\ seen'[p] = seen[p]
      /\ outs'[p] = outs[p] /\ try'[p] = try[p] /\ UNCHANGED <<wfVars, stepVars>>
  BY DEF Return, TypeOK
<1>2. RowsInv' /\ Explained'
      /\ \A j : stepState'[j] = stepState[j] /\ Succeeded(j)' = Succeeded(j)
  BY <1>1, RowsStay DEF wfVars
<1>3. \A j : Has(p, j)' = Has(p, j)
  BY <1>1, <1>2 DEF Has
<1>4. WalkOf(p)
  OBVIOUS
<1>5. PlacedOf(p)' /\ RowOf(p)'
  BY <1>1, <1>4 DEF WalkOf, PlacedOf, RowOf, Inside, wfVars
<1>6. FoundOf(p)' /\ BehindOf(p)'
  BY <1>1, <1>2, <1>3, <1>4 DEF WalkOf, FoundOf, BehindOf, Inside
<1>7. AtOf(p)'
  BY <1>1, <1>2, <1>4 DEF WalkOf, AtOf, Inside
<1>. QED
  BY <1>1, <1>2, <1>5, <1>6, <1>7 DEF Keeps, WalkOf, wfVars

(* The end of a pass, and what it writes about the workflow. *)
LEMMA AloneLeave ==
  ASSUME SInv, NEW p \in Runners, Leave(p), wf \in Terminal => wf' = wf, Explained'
  PROVE  Keeps(p)
<1> USE DEF SInv
<1>1. pc'[p] = "idle" /\ seen'[p] = {} /\ UNCHANGED stepVars
  BY DEF Leave, TypeOK
<1>2. RowsInv' /\ \A j : stepState'[j] = stepState[j]
  BY <1>1, RowsStay
<1>3. WalkOf(p)'
  BY <1>1 DEF WalkOf, PlacedOf, FoundOf, BehindOf, AtOf, RowOf, Inside
<1>. QED
  BY <1>2, <1>3 DEF Keeps

LEMMA AloneEnds ==
  ASSUME SInv, NEW p \in Runners, Pause(p) \/ Fail(p) \/ Finish(p)
  PROVE  Keeps(p)
<1> USE DEF SInv
<1>1. Leave(p) /\ UNCHANGED stepVars /\ pc[p] \in Inside
  BY DEF Pause, Fail, Finish, Leave, Inside
<1>2. /\ \A i : /\ stepState'[i] = stepState[i] /\ stepTry'[i] = stepTry[i]
                /\ Succeeded(i)' = Succeeded(i)
      /\ wf \notin Terminal
      /\ \A j \in Steps : j < idx[p] => Has(p, j)
  BY <1>1, RowsStay DEF WalkOf, BehindOf, RowOf, Inside
<1>3. ASSUME NEW i \in Steps, idx[p] = i PROVE \A j \in 1..(i - 1) : Succeeded(j)'
  <2>1. \A j \in 1..(i - 1) : j \in Steps /\ j < i
    BY RunnerAssumption DEF Steps
  <2>. QED
    BY <1>2, <1>3, <2>1 DEF Has
<1>4. CASE Pause(p)
  <2>1. pc[p] = "advance" /\ result[p] = "pause" /\ wf' = "paused"
    BY <1>4 DEF Pause
  <2>2. idx[p] \in Gates /\ stepState[idx[p]] = "paused" /\ idx[p] \in Steps
    BY <2>1 DEF WalkOf, AtOf, PlacedOf
  <2>3. PausedTold'
    BY <1>2, <1>3, <2>2 DEF PausedTold
  <2>4. Explained'
    BY <2>1, <2>3 DEF Explained, DoneTold, FailedTold
  <2>. QED
    BY <1>1, <1>2, <2>4, AloneLeave
<1>5. CASE Fail(p)
  <2>1. pc[p] = "fail" /\ wf' = "failed"
    BY <1>5 DEF Fail
  <2>2. /\ stepState[idx[p]] = "failed" /\ stepTry[idx[p]] = MaxAttempts[idx[p]]
        /\ idx[p] \in Steps
    BY <2>1 DEF WalkOf, AtOf, PlacedOf
  <2>3. FailedTold'
    BY <1>2, <1>3, <2>2 DEF FailedTold
  <2>4. Explained'
    BY <2>1, <2>3 DEF Explained, DoneTold, PausedTold
  <2>. QED
    BY <1>1, <1>2, <2>4, AloneLeave
<1>6. CASE Finish(p)
  <2>1. idx[p] = N + 1 /\ wf' = "done" /\ summary' = outs[p]
    BY <1>6 DEF Finish
  <2>2. \A j \in Steps : j < idx[p]
    BY <2>1, RunnerAssumption DEF Steps
  <2>3. \A j \in Steps : Has(p, j)
    BY <1>2, <2>2
  <2>4. outs[p] = Steps
    BY <2>3 DEF Has, TypeOK
  <2>5. DoneTold'
    BY <1>2, <2>1, <2>3, <2>4 DEF DoneTold, Has
  <2>6. Explained'
    BY <2>1, <2>5 DEF Explained, FailedTold, PausedTold
  <2>. QED
    BY <1>1, <1>2, <2>6, AloneLeave
<1>. QED
  BY <1>4, <1>5, <1>6

LEMMA AloneStep ==
  ASSUME SInv, NEW p \in Runners, Load(p) \/ PassStep(p) \/ Crash(p)
  PROVE  Keeps(p)
<1>1. CASE Work(p)
  <2>1. PICK res \in {"ok", "error"} : Return(p, res, NoRequest)
    BY <1>1 DEF Work
  <2>2. pc[p] = "run" /\ res # "pause"
    BY <1>1 DEF Work
  <2>. QED
    BY <2>1, <2>2, AloneReturn
<1>2. ASSUME NEW r \in Requests, GateAsk(p, r) PROVE Keeps(p)
  <2>1. pc[p] = "run" /\ idx[p] \in Gates /\ Return(p, "pause", r)
    BY <1>2 DEF GateAsk
  <2>. QED
    BY <2>1, AloneReturn
<1>3. CASE GateLookup(p)
  <2>1. /\ pc[p] = "run" /\ idx[p] \in Gates
        /\ Return(p, Verdict(status[Known(p)]), NoRequest)
    BY <1>3 DEF GateLookup
  <2>. QED
    BY <2>1, AloneReturn
<1>4. CASE Crash(p)
  <2>1. Leave(p) /\ UNCHANGED <<wf, summary, stepVars>>
    BY <1>4 DEF Crash, Leave, wfVars
  <2>2. Explained'
    BY <2>1, RowsStay DEF SInv
  <2>. QED
    BY <2>1, <2>2, AloneLeave
<1>. QED
  BY <1>1, <1>2, <1>3, <1>4, AloneLoad, AloneMarkExecuting, AloneProceed, AloneStartAttempt,
     AloneRecordError, AloneRecordResult, AloneEnds DEF PassStep

(* Reviewers move requests, which is nothing the rows depend on. *)
LEMMA AloneOtherwise ==
  ASSUME SInv, NEW p \in Runners, UNCHANGED <<wfVars, stepVars, localVars>>
  PROVE  Keeps(p)
<1> USE DEF SInv
<1>1. RowsInv' /\ Explained'
      /\ \A j : /\ stepState'[j] = stepState[j] /\ stepTry'[j] = stepTry[j]
                /\ Succeeded(j)' = Succeeded(j)
  BY RowsStay DEF wfVars
<1>2. \A j : Has(p, j)' = Has(p, j)
  BY <1>1 DEF Has, localVars
<1>3. WalkOf(p)
  OBVIOUS
<1>4. PlacedOf(p)' /\ RowOf(p)' /\ AtOf(p)'
  BY <1>1, <1>2, <1>3 DEF WalkOf, PlacedOf, RowOf, AtOf, localVars, wfVars
<1>5. FoundOf(p)' /\ BehindOf(p)'
  BY <1>1, <1>2, <1>3 DEF WalkOf, FoundOf, BehindOf, localVars
<1>. QED
  BY <1>1, <1>4, <1>5 DEF Keeps, WalkOf, wfVars

LEMMA AloneInit == Init => SInv
<1> SUFFICES ASSUME Init PROVE SInv
  OBVIOUS
<1>1. TypeOK /\ RowsInv /\ Explained
  BY TypeInit DEF Init, RowsInv, Explained, DoneTold, FailedTold, PausedTold
<1>2. \A p \in Runners : pc[p] = "idle" /\ seen[p] = {}
  BY DEF Init
<1>3. \A p \in Runners : WalkOf(p)
  BY <1>2 DEF WalkOf, PlacedOf, FoundOf, BehindOf, AtOf, RowOf, Inside
<1>. QED
  BY <1>1, <1>3 DEF SInv

(* Without a pass there is nothing but reviewers. *)
LEMMA AloneNext ==
  ASSUME OnePass, SInv, [Next]_vars
  PROVE  SInv' /\ \A p \in Runners : Keeps(p)
<1>1. TypeOK'
  BY TypeNext DEF SInv, WalkOf, Placed
<1>2. CASE \E p \in Runners : Load(p) \/ PassStep(p) \/ Crash(p)
  <2>1. PICK p \in Runners : Load(p) \/ PassStep(p) \/ Crash(p)
    BY <1>2
  <2>2. Keeps(p) /\ \A q \in Runners : q = p
    BY <2>1, AloneStep DEF OnePass
  <2>. QED
    BY <1>1, <2>2 DEF SInv, Keeps
<1>3. CASE \/ UNCHANGED vars
           \/ \E r \in Requests, d \in Decisions : Review(r, d)
  <2>1. UNCHANGED <<wfVars, stepVars, localVars>>
    BY <1>3 DEF Review, vars
  <2>2. \A p \in Runners : Keeps(p)
    BY <2>1, AloneOtherwise
  <2>3. RowsInv' /\ Explained'
    BY <2>1, RowsStay DEF SInv, wfVars
  <2>. QED
    BY <1>1, <2>2, <2>3 DEF SInv, Keeps
<1>. QED
  BY <1>2, <1>3 DEF Next

LEMMA AloneStays ==
  ASSUME OnePass, SInv, [Next]_vars
  PROVE  /\ wf \in Terminal => wf' = wf
         /\ \A i \in Steps : stepState[i] = "succeeded" => stepState'[i] = "succeeded"
<1>1. CASE Runners = {}
  <2>1. UNCHANGED <<wfVars, stepVars>>
    BY <1>1 DEF Next, Review, vars
  <2>. QED
    BY <2>1 DEF wfVars, stepVars
<1>2. CASE Runners # {}
  BY <1>2, AloneNext DEF Keeps
<1>. QED
  BY <1>1, <1>2

(* With one pass at a time, whatever keys the gates share and whenever a   *)
(* pass dies: what the workflow row says between passes is what the step   *)
(* rows say.                                                               *)
THEOREM RowTellsTrue == OnePass => (Spec => []RowExplained)
<1> SUFFICES ASSUME OnePass PROVE Spec => []RowExplained
  OBVIOUS
<1>1. SInv /\ [Next]_vars => SInv'
  BY AloneNext
<1>2. SInv => RowExplained
  BY DEF SInv, Explained, DoneTold, FailedTold, PausedTold, RowExplained
<1>. QED
  BY <1>1, <1>2, AloneInit, PTL DEF Spec

(* And no pass drives a finished workflow again, or runs a step again that *)
(* has been recorded as succeeded.                                         *)
THEOREM ResumeIdempotent == OnePass => (Spec => FinishedStays)
<1> SUFFICES ASSUME OnePass PROVE Spec => FinishedStays
  OBVIOUS
<1>1. SInv /\ [Next]_vars => SInv'
  BY AloneNext
<1>2. SInv /\ [Next]_vars =>
        [ /\ wf \in Terminal => wf' = wf
          /\ \A i \in Steps : stepState[i] = "succeeded" => stepState'[i] = "succeeded" ]_vars
  BY AloneStays
<1>. QED
  BY <1>1, <1>2, AloneInit, PTL DEF Spec, FinishedStays
=============================================================================
