-------------------------- MODULE ApprovalsProofs ---------------------------
(***************************************************************************)
(* What holds of the approval table for every set of requests, every       *)
(* number of concurrent transactions and every clock bound.                *)
(***************************************************************************)
EXTENDS Approvals, SequenceTheorems, FiniteSetTheorems, TLAPS

(* What the open transactions have in hand.  A request's row is not there  *)
(* yet; a decision or a sweep holds rows that exist, and the comparison    *)
(* with expires_at made when it loaded them still stands, because a row's  *)
(* expires_at never changes after its insert.                              *)
TransactionInv ==
  \A s \in Sessions : pc[s] = "open" =>
    /\ kind[s] = "request" =>
         /\ target[s] = "pending" /\ todo[s] = {}
         /\ \E r \in Requests : wrote[s] = {r}
         /\ \A r \in wrote[s] : state[r] = "none"
    /\ kind[s] # "request" =>
         \A r \in todo[s] \cup wrote[s] : state[r] # "none"
    /\ kind[s] = "decide" =>
         /\ target[s] \in Reviewed
         /\ target[s] = "approved" =>
              \A r \in todo[s] \cup wrote[s] : at[s] < expiresAt[r]
    /\ kind[s] = "sweep" =>
         /\ target[s] = "expired"
         /\ \A r \in todo[s] \cup wrote[s] : expiresAt[r] <= at[s]

(* A row lock has one holder, and an idle session holds none. *)
LockInv ==
  /\ \A s, o \in Sessions : s # o => wrote[s] \cap wrote[o] = {}
  /\ \A s \in Sessions : pc[s] = "idle" => wrote[s] = {} /\ todo[s] = {}

IInv == TypeOK /\ TransactionInv /\ LockInv /\ DecidedInTime

-----------------------------------------------------------------------------
(* Every variable keeps its type through every step. *)
LEMMA TypeInit == Init => TypeOK
  BY ApprovalAssumption DEF Init, TypeOK, States, Decisions, Reviewed, Kinds, Entry

LEMMA TypeBegin ==
  ASSUME TypeOK, NEW s \in Sessions, NEW k \in Kinds, NEW t \in States,
         NEW loaded \in SUBSET Requests, NEW flushed \in SUBSET Requests,
         NEW expiry \in Nat, NEW c \in BOOLEAN,
         Begin(s, k, t, loaded, flushed, expiry, c)
  PROVE  TypeOK'
  BY DEF Begin, TypeOK, rowVars

LEMMA TypeNext == TypeOK /\ [Next]_vars => TypeOK'
<1> SUFFICES ASSUME TypeOK, [Next]_vars PROVE TypeOK'
  OBVIOUS
<1>1. ASSUME NEW s \in Sessions, NEW r \in Requests, NEW ttl \in TTLs,
             Request(s, r, ttl)
      PROVE  TypeOK'
  <2>1. now + ttl \in Nat
    BY ApprovalAssumption DEF TypeOK
  <2>2. Begin(s, "request", "pending", {}, {r}, now + ttl, FALSE)
    BY <1>1 DEF Request, ExpiryOf
  <2>3. "request" \in Kinds /\ "pending" \in States
    BY DEF Kinds, States
  <2>. QED
    BY <2>1, <2>2, <2>3, TypeBegin
<1>2. ASSUME NEW s \in Sessions, NEW r \in Requests, NEW d \in Reviewed,
             NEW c \in BOOLEAN, Decide(s, r, d, c)
      PROVE  TypeOK'
  <2>1. {"late", "decide"} \subseteq Kinds /\ {"expired", d} \subseteq States
    BY DEF Kinds, States, Decisions
  <2>2. CASE TooLate(r, d)
    <3>1. Begin(s, "late", "expired", {r}, {}, 0, FALSE)
      BY <1>2, <2>2 DEF Decide
    <3>. QED
      BY <2>1, <3>1, TypeBegin
  <2>3. CASE ~TooLate(r, d)
    <3>1. Begin(s, "decide", d, {r}, {}, 0, c)
      BY <1>2, <2>3 DEF Decide
    <3>. QED
      BY <2>1, <3>1, TypeBegin
  <2>. QED
    BY <2>2, <2>3
<1>3. ASSUME NEW s \in Sessions, NEW batch \in SUBSET Overdue, Sweep(s, batch)
      PROVE  TypeOK'
  <2>1. Begin(s, "sweep", "expired", batch, {}, 0, FALSE)
    BY <1>3 DEF Sweep
  <2>2. "sweep" \in Kinds /\ "expired" \in States /\ batch \in SUBSET Requests
    BY DEF Kinds, States, Decisions, Overdue
  <2>. QED
    BY <2>1, <2>2, TypeBegin
<1>4. ASSUME NEW s \in Sessions, NEW r \in Requests, Flush(s, r)
      PROVE  TypeOK'
  BY <1>4 DEF Flush, TypeOK, rowVars
<1>5. ASSUME NEW s \in Sessions, Commit(s)
      PROVE  TypeOK'
  <2>1. /\ state' \in [Requests -> States]
        /\ expiresAt' \in [Requests -> Nat]
        /\ decidedAt' \in [Requests -> Nat]
        /\ decidedBy' \in [Requests -> Sessions \cup {Nobody}]
        /\ comment' \in [Requests -> Sessions \cup {Nobody}]
    BY <1>5 DEF Commit, Stamp, TypeOK
  <2>2. trail' \in [Requests -> Seq(Entry)]
    <3>1. [state |-> target[s], by |-> s, at |-> at[s], remark |-> remark[s]] \in Entry
      BY DEF TypeOK, Entry
    <3>. QED
      BY <1>5, <3>1 DEF Commit, TypeOK
  <2>3. Close(s)
    BY <1>5 DEF Commit
  <2>. QED
    BY <2>1, <2>2, <2>3 DEF Close, TypeOK, Kinds, States
<1>6. ASSUME NEW s \in Sessions, Rollback(s)
      PROVE  TypeOK'
  BY <1>6 DEF Rollback, Close, TypeOK, rowVars, Kinds, States
<1>7. CASE Tick
  BY <1>7 DEF Tick, TypeOK, rowVars, txVars
<1>8. CASE UNCHANGED vars
  BY <1>8 DEF vars, rowVars, txVars, TypeOK
<1>. QED
  BY <1>1, <1>2, <1>3, <1>4, <1>5, <1>6, <1>7, <1>8 DEF Next

(* Type correctness of the approval service. *)
THEOREM TypeCorrect == Spec => []TypeOK
  BY TypeInit, TypeNext, PTL DEF Spec

-----------------------------------------------------------------------------
(* The strengthening is inductive: one step per action. *)
LEMMA InvInit == Init => IInv
  BY TypeInit DEF Init, IInv, TransactionInv, LockInv, DecidedInTime

LEMMA InvRequest ==
  ASSUME IInv, TypeOK', NEW s \in Sessions, NEW r \in Requests, NEW ttl \in TTLs,
         Request(s, r, ttl)
  PROVE  IInv'
<1> USE DEF IInv
<1>1. Fresh(r) /\ Begin(s, "request", "pending", {}, {r}, ExpiryOf(ttl), FALSE)
  BY DEF Request
<1>2. TransactionInv'
  BY <1>1 DEF Begin, Fresh, TransactionInv, rowVars, TypeOK
<1>3. LockInv'
  BY <1>1 DEF Begin, Fresh, LockInv, rowVars, TypeOK
<1>4. DecidedInTime'
  BY <1>1 DEF Begin, DecidedInTime, rowVars
<1>. QED
  BY <1>2, <1>3, <1>4

LEMMA InvDecide ==
  ASSUME IInv, TypeOK', NEW s \in Sessions, NEW r \in Requests, NEW d \in Reviewed,
         NEW c \in BOOLEAN, Decide(s, r, d, c)
  PROVE  IInv'
<1> USE DEF IInv
<1>1. CASE TooLate(r, d)
  <2>1. Begin(s, "late", "expired", {r}, {}, 0, FALSE) /\ state[r] = "pending"
    BY <1>1 DEF Decide, Decidable
  <2>2. TransactionInv'
    BY <2>1 DEF Begin, TransactionInv, rowVars, TypeOK
  <2>3. LockInv' /\ DecidedInTime'
    BY <2>1 DEF Begin, LockInv, DecidedInTime, rowVars, TypeOK
  <2>. QED
    BY <2>2, <2>3
<1>2. CASE ~TooLate(r, d)
  <2>1. Begin(s, "decide", d, {r}, {}, 0, c) /\ state[r] = "pending"
    BY <1>2 DEF Decide, Decidable
  <2>2. d = "approved" => now < expiresAt[r]
    BY <1>2 DEF TooLate, TypeOK
  <2>3. TransactionInv'
    BY <2>1, <2>2 DEF Begin, TransactionInv, rowVars, TypeOK
  <2>4. LockInv' /\ DecidedInTime'
    BY <2>1 DEF Begin, LockInv, DecidedInTime, rowVars, TypeOK
  <2>. QED
    BY <2>3, <2>4
<1>. QED
  BY <1>1, <1>2

LEMMA InvSweep ==
  ASSUME IInv, TypeOK', NEW s \in Sessions, NEW batch \in SUBSET Overdue,
         Sweep(s, batch)
  PROVE  IInv'
<1> USE DEF IInv
<1>1. Begin(s, "sweep", "expired", batch, {}, 0, FALSE)
  BY DEF Sweep
<1>2. \A r \in batch : r \in Requests /\ state[r] = "pending" /\ expiresAt[r] <= now
  BY DEF Overdue
<1>3. TransactionInv'
  BY <1>1, <1>2 DEF Begin, TransactionInv, rowVars, TypeOK
<1>4. LockInv' /\ DecidedInTime'
  BY <1>1 DEF Begin, LockInv, DecidedInTime, rowVars, TypeOK
<1>. QED
  BY <1>3, <1>4

LEMMA InvFlush ==
  ASSUME IInv, TypeOK', NEW s \in Sessions, NEW r \in Requests, Flush(s, r)
  PROVE  IInv'
<1> USE DEF IInv
<1>a. pc[s] = "open" /\ kind[s] # "request"
  BY DEF Flush, LockInv, TransactionInv, TypeOK
<1>b. \A o \in Sessions :
        /\ todo'[o] \cup wrote'[o] = todo[o] \cup wrote[o]
        /\ o # s => todo'[o] = todo[o] /\ wrote'[o] = wrote[o]
  BY DEF Flush, TypeOK
<1>c. UNCHANGED <<pc, kind, target, at, state, expiresAt>>
  BY DEF Flush, rowVars
<1>d. \A o \in Sessions : kind[o] = "request" /\ pc[o] = "open" =>
        todo'[o] = todo[o] /\ wrote'[o] = wrote[o]
  BY <1>a, <1>b
<1>1. TransactionInv'
  BY <1>b, <1>c, <1>d DEF TransactionInv
<1>2. LockInv'
  BY DEF Flush, LockInv, TypeOK
<1>3. DecidedInTime'
  BY DEF Flush, DecidedInTime, rowVars
<1>. QED
  BY <1>1, <1>2, <1>3

LEMMA InvClose ==
  ASSUME TypeOK, LockInv, NEW s \in Sessions, Close(s)
  PROVE  LockInv'
  BY DEF Close, LockInv, TypeOK

LEMMA InvCommit ==
  ASSUME IInv, TypeOK', NEW s \in Sessions, Commit(s)
  PROVE  IInv'
<1> USE DEF IInv
<1>1. Close(s) /\ pc[s] = "open" /\ todo[s] = {} /\ kind[s] \in Kinds \ {"late"}
  BY DEF Commit, TypeOK
<1>2. LockInv'
  BY <1>1, InvClose
<1>3. \A r \in Requests :
        /\ r \notin wrote[s] => state'[r] = state[r] /\ expiresAt'[r] = expiresAt[r]
                               /\ decidedAt'[r] = decidedAt[r]
        /\ r \in wrote[s] => state'[r] = target[s]
        /\ kind[s] # "request" => expiresAt'[r] = expiresAt[r]
        /\ r \in wrote[s] /\ kind[s] # "request" => decidedAt'[r] = at[s]
  BY DEF Commit, Stamp, TypeOK
<1>4. target[s] # "none"
  BY <1>1 DEF TransactionInv, Kinds, Reviewed
<1>5. ASSUME NEW o \in Sessions, o # s, pc[o] = "open"
      PROVE  /\ kind[o] = "request" => wrote[o] \cap wrote[s] = {}
             /\ kind[o] # "request" =>
                  \A r \in todo[o] \cup wrote[o] :
                    state'[r] # "none" /\ expiresAt'[r] = expiresAt[r]
  <2>1. wrote[o] \cap wrote[s] = {}
    BY <1>5 DEF LockInv
  <2>2. ASSUME kind[o] # "request", NEW r \in todo[o] \cup wrote[o]
        PROVE  state'[r] # "none" /\ expiresAt'[r] = expiresAt[r]
    <3>1. r \in Requests /\ state[r] # "none"
      BY <1>5, <2>2 DEF TransactionInv, TypeOK
    <3>2. CASE kind[s] = "request"
      <4>1. r \notin wrote[s]
        BY <3>1, <3>2, <1>1 DEF TransactionInv
      <4>. QED
        BY <4>1, <3>1, <1>3
    <3>3. CASE kind[s] # "request"
      BY <3>1, <3>3, <1>3, <1>4
    <3>. QED
      BY <3>2, <3>3
  <2>. QED
    BY <2>1, <2>2
<1>6. TransactionInv'
  <2> SUFFICES ASSUME NEW o \in Sessions, pc'[o] = "open"
               PROVE  /\ (kind[o] = "request" =>
                            /\ target[o] = "pending" /\ todo[o] = {}
                            /\ \E r \in Requests : wrote[o] = {r}
                            /\ \A r \in wrote[o] : state[r] = "none")'
                      /\ (kind[o] # "request" =>
                            \A r \in todo[o] \cup wrote[o] : state[r] # "none")'
                      /\ (kind[o] = "decide" =>
                            /\ target[o] \in Reviewed
                            /\ target[o] = "approved" =>
                                 \A r \in todo[o] \cup wrote[o] : at[o] < expiresAt[r])'
                      /\ (kind[o] = "sweep" =>
                            /\ target[o] = "expired"
                            /\ \A r \in todo[o] \cup wrote[o] : expiresAt[r] <= at[o])'
    BY DEF TransactionInv
  <2>1. o # s /\ pc[o] = "open"
    BY <1>1 DEF Close, TypeOK
  <2>2. /\ kind'[o] = kind[o] /\ target'[o] = target[o] /\ at'[o] = at[o]
        /\ todo'[o] = todo[o] /\ wrote'[o] = wrote[o]
    BY <1>1, <2>1 DEF Close, TypeOK
  <2>3. CASE kind[o] = "request"
    <3>1. \A r \in wrote[o] : r \in Requests /\ state'[r] = "none"
      BY <1>3, <1>5, <2>1, <2>3 DEF TransactionInv, TypeOK
    <3>. QED
      BY <2>1, <2>2, <2>3, <3>1 DEF TransactionInv
  <2>4. CASE kind[o] # "request"
    <3>1. \A r \in todo[o] \cup wrote[o] : state'[r] # "none" /\ expiresAt'[r] = expiresAt[r]
      BY <1>5, <2>1, <2>4
    <3>. QED
      BY <2>1, <2>2, <2>4, <3>1 DEF TransactionInv
  <2>. QED
    BY <2>3, <2>4
<1>7. DecidedInTime'
  <2> SUFFICES ASSUME NEW r \in Requests
               PROVE  /\ state'[r] = "approved" => decidedAt'[r] < expiresAt'[r]
                      /\ state'[r] = "expired"  => decidedAt'[r] >= expiresAt'[r]
    BY DEF DecidedInTime
  <2>1. CASE r \notin wrote[s]
    BY <2>1, <1>3 DEF DecidedInTime
  <2>2. CASE r \in wrote[s] /\ kind[s] = "request"
    BY <2>2, <1>1, <1>3 DEF TransactionInv
  <2>3. CASE r \in wrote[s] /\ kind[s] = "decide"
    BY <2>3, <1>1, <1>3 DEF TransactionInv, Reviewed
  <2>4. CASE r \in wrote[s] /\ kind[s] = "sweep"
    BY <2>4, <1>1, <1>3 DEF TransactionInv, TypeOK
  <2>. QED
    BY <2>1, <2>2, <2>3, <2>4, <1>1 DEF Kinds
<1>. QED
  BY <1>2, <1>6, <1>7

LEMMA InvRollback ==
  ASSUME IInv, TypeOK', NEW s \in Sessions, Rollback(s)
  PROVE  IInv'
<1> USE DEF IInv
<1>1. LockInv'
  BY InvClose DEF Rollback
<1>2. TransactionInv' /\ DecidedInTime'
  BY DEF Rollback, Close, TransactionInv, DecidedInTime, rowVars, TypeOK
<1>. QED
  BY <1>1, <1>2

LEMMA InvNext == IInv /\ [Next]_vars => IInv'
<1> SUFFICES ASSUME IInv, [Next]_vars PROVE IInv'
  OBVIOUS
<1>1. TypeOK'
  BY TypeNext DEF IInv
<1>2. ASSUME Tick \/ UNCHANGED vars PROVE IInv'
  BY <1>1, <1>2 DEF Tick, vars, rowVars, txVars, IInv, TransactionInv, LockInv,
     DecidedInTime
<1>. QED
  BY <1>1, <1>2, InvRequest, InvDecide, InvSweep, InvFlush, InvCommit, InvRollback DEF Next

(* What open transactions carry, and what rows and trails say of times:    *)
(* the invariant from which the properties of the rows follow.             *)
THEOREM InvCorrect == Spec => []IInv
  BY InvInit, InvNext, PTL DEF Spec

(* No approval is recorded at or after the expiry of its request, and none *)
(* expires early, whatever the interleaving of reviewers and sweeps.       *)
THEOREM DecisionsInTime == Spec => []DecidedInTime
<1>1. IInv => DecidedInTime
  BY DEF IInv
<1>. QED
  BY <1>1, InvCorrect, PTL

-----------------------------------------------------------------------------
(* The table implements ApprovalBook. *)

LEMMA HistoryAppend ==
  ASSUME NEW t \in Seq(Entry), NEW e \in Entry
  PROVE  [i \in DOMAIN Append(t, e) |-> Append(t, e)[i].state]
           = Append([i \in DOMAIN t |-> t[i].state], e.state)
<1>1. /\ Append(t, e) \in Seq(Entry)
      /\ Len(t) \in Nat
      /\ Len(Append(t, e)) = Len(t) + 1
      /\ DOMAIN t = 1..Len(t) /\ DOMAIN Append(t, e) = 1..(Len(t) + 1)
      /\ \A i \in 1..(Len(t) + 1) :
           Append(t, e)[i] = IF i <= Len(t) THEN t[i] ELSE e
  OBVIOUS
<1> DEFINE h == [i \in 1..Len(t) |-> t[i].state]
<1>2. /\ h \in Seq(States) /\ Len(h) = Len(t) /\ e.state \in States
  <2>1. \A i \in 1..Len(t) : t[i].state \in States
    <3>1. \A i \in 1..Len(t) : t[i] \in Entry
      OBVIOUS
    <3>2. \A x \in Entry : x.state \in States
      BY DEF Entry
    <3>. QED
      BY <3>1, <3>2
  <2>2. h \in [1..Len(t) -> States]
    BY <2>1
  <2>. QED
    BY <1>1, <2>2 DEF Entry
<1>3. /\ DOMAIN Append(h, e.state) = 1..(Len(t) + 1)
      /\ \A i \in 1..(Len(t) + 1) :
           Append(h, e.state)[i] = IF i <= Len(t) THEN h[i] ELSE e.state
      /\ Append(h, e.state) = [i \in 1..(Len(t) + 1) |-> Append(h, e.state)[i]]
  BY <1>2
<1>4. \A i \in 1..(Len(t) + 1) : Append(t, e)[i].state = Append(h, e.state)[i]
  BY <1>1, <1>3
<1>5. [i \in 1..(Len(t) + 1) |-> Append(t, e)[i].state] = Append(h, e.state)
  BY <1>3, <1>4, Zenon
<1>. QED
  BY <1>1, <1>5

LEMMA BookInitRefined == Init => Book!BookInit
  BY DEF Init, Book!BookInit, History

LEMMA BookCommit ==
  ASSUME IInv, TypeOK', NEW s \in Sessions, Commit(s)
  PROVE  Book!BookNext
<1> USE DEF IInv
<1> DEFINE e == [state |-> target[s], by |-> s, at |-> at[s], remark |-> remark[s]]
<1>1. pc[s] = "open" /\ kind[s] \in Kinds \ {"late"} /\ wrote[s] \subseteq Requests
  BY DEF Commit, TypeOK
<1>2. e \in Entry
  BY DEF TypeOK, Entry
<1>3. \A r \in Requests : trail'[r] = IF r \in wrote[s] THEN Append(trail[r], e) ELSE trail[r]
  BY DEF Commit
<1>4. \A r \in Requests : [i \in DOMAIN trail'[r] |-> trail'[r][i].state]
                           = IF r \in wrote[s] THEN Append(History[r], target[s])
                                               ELSE History[r]
  <2> SUFFICES ASSUME NEW r \in Requests
               PROVE  [i \in DOMAIN trail'[r] |-> trail'[r][i].state]
                        = IF r \in wrote[s] THEN Append(History[r], target[s])
                                            ELSE History[r]
    OBVIOUS
  <2>1. trail[r] \in Seq(Entry) /\ e.state = target[s]
    BY DEF TypeOK
  <2>2. History[r] = [i \in DOMAIN trail[r] |-> trail[r][i].state]
    BY DEF History
  <2>3. CASE r \in wrote[s]
    <3>1. trail'[r] = Append(trail[r], e)
      BY <1>3, <2>3
    <3>. QED
      BY <1>2, <2>1, <2>2, <2>3, <3>1, HistoryAppend
  <2>4. CASE r \notin wrote[s]
    BY <1>3, <2>2, <2>4
  <2>. QED
    BY <2>3, <2>4
<1>5. Book!Move(wrote[s], target[s])
  BY <1>4 DEF Commit, Stamp, Book!Move, History
<1>6. CASE kind[s] = "request"
  <2>1. PICK r \in Requests : wrote[s] = {r} /\ state[r] = "none" /\ target[s] = "pending"
    BY <1>1, <1>6 DEF TransactionInv
  <2>. QED
    BY <1>5, <2>1 DEF Book!BookNext, Book!Open
<1>7. CASE kind[s] # "request"
  <2>1. target[s] \in Book!Decisions
    BY <1>1, <1>7 DEF TransactionInv, Kinds, Reviewed, Book!Decisions
  <2>2. \A r \in wrote[s] : state[r] # "none"
    BY <1>1, <1>7 DEF TransactionInv
  <2>3. Book!Settle(wrote[s], target[s])
    BY <1>5, <2>2 DEF Book!Settle
  <2>. QED
    BY <1>1, <2>1, <2>3 DEF Book!BookNext
<1>. QED
  BY <1>6, <1>7

LEMMA BookStep == IInv /\ TypeOK' /\ [Next]_vars => [Book!BookNext]_(Book!bookVars)
<1> SUFFICES ASSUME IInv, TypeOK', [Next]_vars
             PROVE  Book!BookNext \/ UNCHANGED Book!bookVars
  OBVIOUS
<1>1. ASSUME UNCHANGED rowVars PROVE UNCHANGED Book!bookVars
  BY <1>1 DEF rowVars, Book!bookVars, History
<1>2. ASSUME NEW s \in Sessions, Commit(s) PROVE Book!BookNext
  BY <1>2, BookCommit
<1>3. (\A s \in Sessions : ~Commit(s)) => UNCHANGED rowVars
  BY DEF Next, Request, Decide, Sweep, Begin, Flush, Rollback, Tick, vars
<1>. QED
  BY <1>1, <1>2, <1>3

(* Every behaviour of the service is a behaviour of ApprovalBook: rows     *)
(* change only together with their audit history, only from "none" to      *)
(* "pending" and from there among decisions.                               *)
THEOREM Refinement == Spec => ImplementsBook
<1>1. Init => Book!BookInit
  BY BookInitRefined
<1>2. IInv /\ IInv' /\ [Next]_vars => [Book!BookNext]_(Book!bookVars)
  BY BookStep DEF IInv
<1>. QED
  BY <1>1, <1>2, InvCorrect, PTL DEF Spec, ImplementsBook, Book!BookSpec

-----------------------------------------------------------------------------
(* The audit trail explains the row. *)

(* Who the last of some entries is by: what LastBy computes, as a relation *)
(* that a longer trail can be compared with.                               *)
Tells(who, t, entries) ==
  IF entries = {} THEN who = Nobody
  ELSE \E i \in entries : (\A j \in entries : j <= i) /\ who = t[i].by

ExplainedBy(st, decided, by, said, t) ==
  IF st = "none" THEN t = <<>> /\ by = Nobody /\ said = Nobody
  ELSE /\ t # <<>> /\ t[Len(t)].state = st
       /\ st # "pending" => t[Len(t)].at = decided
       /\ Tells(by, t, Reviews(t))
       /\ Tells(said, t, Remarks(t))

ExplainInv ==
  \A r \in Requests : ExplainedBy(state[r], decidedAt[r], decidedBy[r], comment[r], trail[r])

LEMMA LastTold ==
  ASSUME NEW t \in Seq(Entry), NEW entries \in SUBSET DOMAIN t, NEW who, Tells(who, t, entries)
  PROVE  who = LastBy(t, entries)
<1>1. CASE entries = {}
  BY <1>1 DEF Tells, LastBy
<1>2. CASE entries # {}
  <2>1. PICK i \in entries : (\A j \in entries : j <= i) /\ who = t[i].by
    BY <1>2 DEF Tells
  <2>2. \A j \in entries : j \in Nat
    BY LenProperties
  <2>3. \A k \in entries : (\A j \in entries : j <= k) => k = i
    BY <2>1, <2>2
  <2>4. (CHOOSE k \in entries : \A j \in entries : j <= k) = i
    BY <2>1, <2>3
  <2>. QED
    BY <1>2, <2>1, <2>4 DEF LastBy
<1>. QED
  BY <1>1, <1>2

(* An entry more is the last of those it is one of, and leaves the others. *)
LEMMA EntryMore ==
  ASSUME NEW t \in Seq(Entry), NEW e \in Entry
  PROVE  LET u == Append(t, e)
             n == Len(t) + 1
         IN  /\ u # <<>> /\ Len(u) = n /\ u[n] = e
             /\ Reviews(u) = IF e.state \in Reviewed THEN Reviews(t) \cup {n} ELSE Reviews(t)
             /\ Remarks(u) = IF e.state \in Reviewed /\ e.remark THEN Remarks(t) \cup {n} ELSE Remarks(t)
             /\ \A who : \A entries \in SUBSET DOMAIN t :
                  /\ Tells(who, t, entries) => Tells(who, u, entries)
                  /\ Tells(e.by, u, entries \cup {n})
<1> DEFINE u == Append(t, e)
           m == Len(t)
<1>1. /\ u \in Seq(Entry) /\ Len(u) = m + 1 /\ m \in Nat /\ DOMAIN t = 1..m /\ DOMAIN u = 1..(m + 1)
      /\ u[m + 1] = e /\ \A i \in 1..m : u[i] = t[i]
  BY AppendProperties, LenProperties
<1>2. u # <<>>
  BY <1>1, EmptySeq
<1> HIDE DEF u, m
<1>3. DOMAIN u = DOMAIN t \cup {m + 1} /\ \A i \in DOMAIN t : u[i] = t[i] /\ i # m + 1 /\ i <= m + 1
  BY <1>1
<1>4. Reviews(u) = IF e.state \in Reviewed THEN Reviews(t) \cup {m + 1} ELSE Reviews(t)
  BY <1>1, <1>3 DEF Reviews
<1>5. Remarks(u) = IF e.state \in Reviewed /\ e.remark THEN Remarks(t) \cup {m + 1} ELSE Remarks(t)
  <2>1. \A i \in Reviews(t) : i \in DOMAIN t
    BY DEF Reviews
  <2>. QED
    BY <1>1, <1>3, <1>4, <2>1 DEF Remarks
<1>6. ASSUME NEW entries \in SUBSET DOMAIN t, NEW who, Tells(who, t, entries)
      PROVE  Tells(who, u, entries)
  BY <1>3, <1>6 DEF Tells
<1>7. ASSUME NEW entries \in SUBSET DOMAIN t
      PROVE  Tells(e.by, u, entries \cup {m + 1})
  BY <1>1, <1>3 DEF Tells
<1>. QED
  BY <1>1, <1>2, <1>4, <1>5, <1>6, <1>7 DEF u, m

LEMMA ExplainCommit ==
  ASSUME IInv, ExplainInv, NEW s \in Sessions, Commit(s)
  PROVE  ExplainInv'
<1> USE DEF IInv
<1> DEFINE e == [state |-> target[s], by |-> s, at |-> at[s], remark |-> remark[s]]
<1>1. /\ pc[s] = "open" /\ kind[s] \in {"request", "decide", "sweep"}
      /\ e \in Entry /\ target[s] # "none"
      /\ kind[s] = "request" => target[s] = "pending" /\ \A r \in wrote[s] : state[r] = "none"
      /\ kind[s] # "request" => \A r \in wrote[s] : state[r] # "none"
      /\ kind[s] = "decide" => target[s] \in Reviewed
      /\ kind[s] = "sweep" => target[s] = "expired"
  BY DEF Commit, TransactionInv, TypeOK, Kinds, Entry, Reviewed
<1>2. /\ e.state = target[s] /\ e.by = s /\ e.at = at[s] /\ e.remark = remark[s]
  OBVIOUS
<1> HIDE DEF e
<1> SUFFICES ASSUME NEW r \in Requests
             PROVE  ExplainedBy(state'[r], decidedAt'[r], decidedBy'[r], comment'[r], trail'[r])
  BY DEF ExplainInv
<1>3. ExplainedBy(state[r], decidedAt[r], decidedBy[r], comment[r], trail[r]) /\ trail[r] \in Seq(Entry)
  BY DEF ExplainInv, TypeOK
<1>4. CASE r \notin wrote[s]
  BY <1>3, <1>4 DEF Commit, Stamp
<1>5. CASE r \in wrote[s]
  <2> DEFINE t == trail[r]
             u == Append(t, e)
             n == Len(t) + 1
  <2>1. /\ state'[r] = target[s] /\ trail'[r] = u
        /\ kind[s] # "request" => decidedAt'[r] = at[s]
        /\ decidedBy'[r] = IF kind[s] = "decide" THEN s ELSE decidedBy[r]
        /\ comment'[r] = IF kind[s] = "decide" /\ remark[s] THEN s ELSE comment[r]
    BY <1>5 DEF Commit, Stamp, NamesDecider, e
  <2>2. Reviews(t) \subseteq DOMAIN t /\ Remarks(t) \subseteq DOMAIN t
    BY DEF Reviews, Remarks
  <2>3. /\ u # <<>> /\ u[Len(u)] = e
        /\ Reviews(u) = IF target[s] \in Reviewed THEN Reviews(t) \cup {n} ELSE Reviews(t)
        /\ Remarks(u) = IF target[s] \in Reviewed /\ remark[s] THEN Remarks(t) \cup {n} ELSE Remarks(t)
    BY <1>1, <1>2, <1>3, EntryMore
  <2>4. /\ \A who : Tells(who, t, Reviews(t)) => Tells(who, u, Reviews(t))
        /\ \A who : Tells(who, t, Remarks(t)) => Tells(who, u, Remarks(t))
        /\ Tells(s, u, Reviews(t) \cup {n}) /\ Tells(s, u, Remarks(t) \cup {n})
    BY <1>1, <1>2, <1>3, <2>2, EntryMore
  <2>5. Tells(decidedBy[r], t, Reviews(t)) /\ Tells(comment[r], t, Remarks(t))
    <3>1. CASE state[r] = "none"
      <4>1. t = <<>> /\ decidedBy[r] = Nobody /\ comment[r] = Nobody
        BY <1>3, <3>1 DEF ExplainedBy
      <4>2. Reviews(t) = {} /\ Remarks(t) = {}
        BY <4>1 DEF Reviews, Remarks
      <4>. QED
        BY <4>1, <4>2 DEF Tells
    <3>2. CASE state[r] # "none"
      BY <1>3, <3>2 DEF ExplainedBy
    <3>. QED
      BY <3>1, <3>2
  <2> HIDE DEF t, u, n
  <2>6. kind[s] = "decide" <=> target[s] \in Reviewed
    BY <1>1 DEF Reviewed
  <2>7. Tells(decidedBy'[r], u, Reviews(u)) /\ Tells(comment'[r], u, Remarks(u))
    <3>1. CASE kind[s] = "decide" /\ remark[s]
      BY <2>1, <2>3, <2>4, <2>6, <3>1
    <3>2. CASE kind[s] = "decide" /\ ~remark[s]
      BY <2>1, <2>3, <2>4, <2>5, <2>6, <3>2
    <3>3. CASE kind[s] # "decide"
      BY <2>1, <2>3, <2>4, <2>5, <2>6, <3>3
    <3>. QED
      BY <3>1, <3>2, <3>3
  <2>8. target[s] # "pending" => kind[s] # "request"
    BY <1>1
  <2>. QED
    BY <1>1, <1>2, <2>1, <2>3, <2>7, <2>8 DEF ExplainedBy
<1>. QED
  BY <1>4, <1>5

(* The audit trail of a request explains its row, whatever decisions and   *)
(* sweeps of it overlap: its last entry is what the row shows, and         *)
(* decided_by and decision_comment are of the last who gave one.           *)
THEOREM AuditExplains == Spec => []AuditExplainsRow
<1>1. Init => ExplainInv
  BY DEF Init, ExplainInv, ExplainedBy
<1>2. ASSUME IInv, ExplainInv, [Next]_vars PROVE ExplainInv'
  <2>1. CASE UNCHANGED rowVars
    BY <1>2, <2>1 DEF rowVars, ExplainInv
  <2>2. (\A s \in Sessions : ~Commit(s)) => UNCHANGED rowVars
    BY <1>2 DEF Next, Request, Decide, Sweep, Begin, Flush, Rollback, Tick, vars
  <2>. QED
    BY <1>2, <2>1, <2>2, ExplainCommit
<1>3. ASSUME IInv, ExplainInv PROVE AuditExplainsRow
  <2> SUFFICES ASSUME NEW r \in Requests, state[r] # "none"
               PROVE  LET t == trail[r]
                          last == t[Len(t)]
                      IN  /\ last.state = state[r]
                          /\ state[r] # "pending" => last.at = decidedAt[r]
                          /\ decidedBy[r] = LastBy(t, Reviews(t))
                          /\ comment[r] = LastBy(t, Remarks(t))
    BY DEF AuditExplainsRow
  <2>1. ExplainedBy(state[r], decidedAt[r], decidedBy[r], comment[r], trail[r]) /\ trail[r] \in Seq(Entry)
    BY <1>3 DEF ExplainInv, IInv, TypeOK
  <2>2. Reviews(trail[r]) \subseteq DOMAIN trail[r] /\ Remarks(trail[r]) \subseteq DOMAIN trail[r]
    BY DEF Reviews, Remarks
  <2>. QED
    BY <2>1, <2>2, LastTold DEF ExplainedBy
<1>. QED
  BY <1>1, <1>2, <1>3, InvCorrect, PTL DEF Spec

-----------------------------------------------------------------------------
(* Who may still overwrite a decision. *)

Holders(r) == {s \in Sessions : r \in todo[s] \cup wrote[s]}
Away(r) == Sessions \ Holders(r)

(* Every decision a request has collected is of a session that is no       *)
(* longer at it, for nobody loads a row that is not pending.               *)
RacersInv ==
  \A r \in Requests :
    /\ state[r] = "none" => Len(trail[r]) = 0
    /\ state[r] = "pending" => Len(trail[r]) = 1
    /\ state[r] \in Decisions => Len(trail[r]) <= 1 + Cardinality(Away(r))

(* A step that writes no row lets nobody at one that is not pending.       *)
LEMMA RacersQuiet ==
  ASSUME IInv, RacersInv, IsFiniteSet(Sessions), UNCHANGED rowVars,
         \A r \in Requests : state[r] \in Decisions => Holders(r)' \subseteq Holders(r)
  PROVE  RacersInv'
<1> SUFFICES ASSUME NEW r \in Requests, state[r] \in Decisions
             PROVE  Len(trail[r]) <= 1 + Cardinality(Away(r)')
  BY DEF RacersInv, rowVars
<1>1. Away(r) \subseteq Away(r)' /\ Away(r)' \subseteq Sessions
  BY DEF Away
<1>2. IsFiniteSet(Away(r)') /\ IsFiniteSet(Away(r))
  BY <1>1, FS_Subset
<1>3. Cardinality(Away(r)) <= Cardinality(Away(r)')
  BY <1>1, <1>2, FS_Subset
<1>4. Cardinality(Away(r)) \in Nat /\ Cardinality(Away(r)') \in Nat
  BY <1>2, FS_CardinalityType
<1>5. Len(trail[r]) <= 1 + Cardinality(Away(r)) /\ Len(trail[r]) \in Nat
  BY LenProperties DEF RacersInv, IInv, TypeOK
<1>. QED
  BY <1>3, <1>4, <1>5

LEMMA RacersCommit ==
  ASSUME IInv, RacersInv, IsFiniteSet(Sessions), NEW s \in Sessions, Commit(s)
  PROVE  RacersInv'
<1> USE DEF IInv
<1>1. /\ pc[s] = "open" /\ Close(s)
      /\ kind[s] = "request" => target[s] = "pending" /\ \A r \in wrote[s] : state[r] = "none"
      /\ kind[s] # "request" => target[s] \in Decisions /\ \A r \in wrote[s] : state[r] # "none"
  BY DEF Commit, TransactionInv, TypeOK, Kinds, Decisions, Reviewed
<1> SUFFICES ASSUME NEW r \in Requests
             PROVE  /\ state'[r] = "none" => Len(trail'[r]) = 0
                    /\ state'[r] = "pending" => Len(trail'[r]) = 1
                    /\ state'[r] \in Decisions => Len(trail'[r]) <= 1 + Cardinality(Away(r)')
  BY DEF RacersInv
<1>2. \A o \in Sessions : IF o = s THEN todo'[o] = {} /\ wrote'[o] = {}
                                   ELSE todo'[o] = todo[o] /\ wrote'[o] = wrote[o]
  BY <1>1 DEF Close, TypeOK
<1>3. Holders(r)' = Holders(r) \ {s}
  BY <1>2 DEF Holders
<1>4. Away(r)' = Away(r) \cup {s}
  BY <1>3 DEF Away
<1>5. /\ IsFiniteSet(Away(r)) /\ Cardinality(Away(r)) \in Nat
      /\ Cardinality(Away(r) \cup {s}) = IF s \in Away(r) THEN Cardinality(Away(r))
                                                          ELSE Cardinality(Away(r)) + 1
  <2>1. IsFiniteSet(Away(r))
    BY FS_Subset DEF Away
  <2>. QED
    BY <2>1, FS_AddElement, FS_CardinalityType
<1>6. Len(trail[r]) \in Nat /\ trail[r] \in Seq(Entry) /\ state[r] \in States
  BY LenProperties DEF TypeOK
<1>7. CASE r \notin wrote[s]
  <2>1. state'[r] = state[r] /\ trail'[r] = trail[r]
    BY <1>7 DEF Commit, Stamp
  <2>. QED
    BY <1>4, <1>5, <1>6, <2>1 DEF RacersInv
<1>8. CASE r \in wrote[s]
  <2>1. state'[r] = target[s] /\ Len(trail'[r]) = Len(trail[r]) + 1
    BY <1>6, <1>8 DEF Commit, Stamp
  <2>2. s \notin Away(r)
    BY <1>8 DEF Away, Holders
  <2>3. CASE kind[s] = "request"
    BY <1>1, <1>8, <2>1, <2>3 DEF RacersInv, Decisions, Reviewed
  <2>4. CASE kind[s] # "request"
    <3>1. Len(trail[r]) <= 1 + Cardinality(Away(r))
      <4>1. state[r] = "pending" \/ state[r] \in Decisions
        BY <1>1, <1>6, <1>8, <2>4 DEF States
      <4>2. CASE state[r] = "pending"
        <5>1. Len(trail[r]) = 1
          BY <4>2 DEF RacersInv
        <5>. QED
          BY <1>5, <5>1
      <4>3. CASE state[r] \in Decisions
        BY <4>3 DEF RacersInv
      <4>. QED
        BY <4>1, <4>2, <4>3
    <3>2. Len(trail'[r]) <= 1 + Cardinality(Away(r)')
      BY <1>4, <1>5, <1>6, <2>1, <2>2, <3>1
    <3>3. target[s] # "none" /\ target[s] # "pending"
      BY <1>1, <2>4 DEF Decisions, Reviewed
    <3>. QED
      BY <2>1, <3>2, <3>3
  <2>. QED
    BY <2>3, <2>4
<1>. QED
  BY <1>7, <1>8

LEMMA RacersNext ==
  ASSUME IInv, RacersInv, IsFiniteSet(Sessions), [Next]_vars
  PROVE  RacersInv'
<1> USE DEF IInv
<1> DEFINE Loads(s, loaded, flushed) ==
             /\ UNCHANGED rowVars /\ todo' = [todo EXCEPT ![s] = loaded]
             /\ wrote' = [wrote EXCEPT ![s] = flushed]
<1>1. ASSUME NEW s \in Sessions, NEW loaded, NEW flushed, Loads(s, loaded, flushed),
             \A r \in loaded \cup flushed : state[r] \notin Decisions
      PROVE  RacersInv'
  <2>1. \A r \in Requests : state[r] \in Decisions => Holders(r)' \subseteq Holders(r)
    BY <1>1 DEF Holders, TypeOK
  <2>. QED
    BY <1>1, <2>1, RacersQuiet
<1> HIDE DEF Loads
<1>2. "none" \notin Decisions /\ "pending" \notin Decisions
  BY DEF Decisions, Reviewed
<1>3. ASSUME NEW s \in Sessions, NEW r \in Requests, NEW ttl \in TTLs, Request(s, r, ttl)
      PROVE  RacersInv'
  <2>1. Loads(s, {}, {r}) /\ \A q \in {} \cup {r} : state[q] \notin Decisions
    BY <1>2, <1>3 DEF Request, Fresh, Begin, Loads
  <2>. QED
    BY <1>1, <2>1
<1>4. ASSUME NEW s \in Sessions, NEW r \in Requests, NEW d \in Reviewed, NEW c \in BOOLEAN,
             Decide(s, r, d, c)
      PROVE  RacersInv'
  <2>1. Loads(s, {r}, {}) /\ \A q \in {r} \cup {} : state[q] \notin Decisions
    BY <1>2, <1>4 DEF Decide, Decidable, Begin, Loads
  <2>. QED
    BY <1>1, <2>1
<1>5. ASSUME NEW s \in Sessions, NEW batch \in SUBSET Overdue, Sweep(s, batch)
      PROVE  RacersInv'
  <2>1. Loads(s, batch, {}) /\ \A r \in batch \cup {} : state[r] \notin Decisions
    BY <1>2, <1>5 DEF Sweep, Overdue, Begin, Loads
  <2>. QED
    BY <1>1, <2>1
<1>6. ASSUME NEW s \in Sessions, NEW r \in Requests, Flush(s, r)
      PROVE  RacersInv'
  <2>1. UNCHANGED rowVars /\ \A o \in Sessions : todo'[o] \cup wrote'[o] = todo[o] \cup wrote[o]
    BY <1>6 DEF Flush, TypeOK
  <2>2. \A q \in Requests : Holders(q)' = Holders(q)
    BY <2>1 DEF Holders
  <2>. QED
    BY <2>1, <2>2, RacersQuiet
<1>7. ASSUME NEW s \in Sessions, Rollback(s) PROVE RacersInv'
  <2>1. Loads(s, {}, {})
    BY <1>7 DEF Rollback, Close, Loads
  <2>. QED
    BY <1>1, <2>1
<1>8. CASE Tick \/ UNCHANGED vars
  <2>1. UNCHANGED rowVars /\ todo' = todo /\ wrote' = wrote
    BY <1>8 DEF Tick, vars, txVars
  <2>2. \A q \in Requests : Holders(q)' = Holders(q)
    BY <2>1 DEF Holders
  <2>. QED
    BY <2>1, <2>2, RacersQuiet
<1>. QED
  BY <1>3, <1>4, <1>5, <1>6, <1>7, <1>8, RacersCommit DEF Next

(* A request collects at most one decision per transaction that can be     *)
(* open at the same time.                                                  *)
THEOREM RacersBound ==
  ASSUME IsFiniteSet(Sessions)
  PROVE  Spec => []OverwrittenOnlyByRacers
<1>1. Init => RacersInv
  BY DEF Init, RacersInv, Decisions, Reviewed
<1>2. IInv /\ RacersInv /\ [Next]_vars => RacersInv'
  BY RacersNext
<1>3. ASSUME IInv, RacersInv PROVE OverwrittenOnlyByRacers
  <2> SUFFICES ASSUME NEW r \in Requests PROVE Len(trail[r]) <= 1 + Cardinality(Sessions)
    BY DEF OverwrittenOnlyByRacers
  <2>1. IsFiniteSet(Away(r)) /\ Cardinality(Away(r)) <= Cardinality(Sessions)
    BY FS_Subset DEF Away
  <2>2. /\ Cardinality(Away(r)) \in Nat /\ Cardinality(Sessions) \in Nat
        /\ Len(trail[r]) \in Nat /\ state[r] \in States
    BY <1>3, <2>1, FS_CardinalityType, LenProperties DEF IInv, TypeOK
  <2>3. CASE state[r] \in {"none", "pending"}
    <3>1. Len(trail[r]) = 0 \/ Len(trail[r]) = 1
      BY <1>3, <2>3 DEF RacersInv
    <3>2. 0 <= 1 + Cardinality(Sessions) /\ 1 <= 1 + Cardinality(Sessions)
      BY <2>2
    <3>. QED
      BY <3>1, <3>2
  <2>4. CASE state[r] \in Decisions
    <3>1. Len(trail[r]) <= 1 + Cardinality(Away(r))
      BY <1>3, <2>4 DEF RacersInv
    <3>. QED
      BY <2>1, <2>2, <3>1
  <2>. QED
    BY <2>2, <2>3, <2>4 DEF States
<1>. QED
  BY <1>1, <1>2, <1>3, InvCorrect, PTL DEF Spec
=============================================================================
