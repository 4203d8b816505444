----------------------------- MODULE Approvals ------------------------------
(***************************************************************************)
(* ApprovalService over its database: every REST call or scheduled sweep   *)
(* is a session with a transaction of its own (tenant_scoped_session), and *)
(* several are open at once.                                               *)
(*                                                                         *)
(* A decision reads the row, checks it, and later updates it by primary    *)
(* key.  Under PostgreSQL's default READ COMMITTED an UPDATE waits for the *)
(* row lock of the transaction that updated the row before, then applies:  *)
(* the state that was checked is not checked again.  SQLAlchemy writes only*)
(* the columns that differ from what the session loaded, so two decisions  *)
(* of the same row merge column by column.                                 *)
(***************************************************************************)
EXTENDS Integers, Sequences, FiniteSets

CONSTANTS
  Requests,            \* ids a new row may get (uuid4: never reused)
  Sessions,            \* transactions that may be open at the same time
  TTLs,                \* the lifetimes callers ask for (default: 24 hours)
  SweepLimit,          \* expire_due's limit
  MaxTime,             \* bound of the clock
  Nobody               \* a NULL decided_by or decision_comment

ASSUME ApprovalAssumption ==
  /\ TTLs \subseteq Nat
  /\ SweepLimit \in Nat \ {0}
  /\ MaxTime \in Nat
  /\ Nobody \notin Sessions

VARIABLES
  now,                 \* the clock every session reads
  state, expiresAt, decidedAt, decidedBy, comment,  \* columns of the committed rows
  trail,               \* audit_events committed for each request, oldest first
  pc,                  \* "idle", or "open" while the session holds a transaction
  kind,                \* what an open session does: request, decide, late or sweep
  target,              \* the state it is about to write
  at,                  \* the moment it read the clock
  due,                 \* the expires_at it inserts (request only)
  remark,              \* whether the call carries a comment
  todo,                \* rows it loaded and has not flushed yet
  wrote                \* rows it flushed: inserted, or updated under the row lock

rowVars == <<state, expiresAt, decidedAt, decidedBy, comment, trail>>
txVars  == <<pc, kind, target, at, due, remark, todo, wrote>>
vars    == <<now, rowVars, txVars>>

Reviewed  == {"approved", "rejected", "cancelled"}   \* what _decide may be asked for
Decisions == Reviewed \cup {"expired"}
States    == {"none", "pending"} \cup Decisions
Kinds     == {"request", "decide", "late", "sweep"}
Entry     == [state : States, by : Sessions, at : Nat, remark : BOOLEAN]

Init ==
  /\ now = 0
  /\ state     = [r \in Requests |-> "none"]
  /\ expiresAt = [r \in Requests |-> 0]
  /\ decidedAt = [r \in Requests |-> 0]
  /\ decidedBy = [r \in Requests |-> Nobody]
  /\ comment   = [r \in Requests |-> Nobody]
  /\ trail     = [r \in Requests |-> <<>>]
  /\ pc     = [s \in Sessions |-> "idle"]
  /\ kind   = [s \in Sessions |-> "request"]
  /\ target = [s \in Sessions |-> "none"]
  /\ at     = [s \in Sessions |-> 0]
  /\ due    = [s \in Sessions |-> 0]
  /\ remark = [s \in Sessions |-> FALSE]
  /\ todo   = [s \in Sessions |-> {}]
  /\ wrote  = [s \in Sessions |-> {}]

-----------------------------------------------------------------------------
(* Beginning a transaction.  A definition whose name ends in _Mutant is    *)
(* the next one with a slip in it, and no part of the model: each property *)
(* below is known to fail when one of them takes its original's place.     *)

Begin(s, k, tgt, loaded, flushed, expiry, c) ==
  /\ pc[s] = "idle"
  /\ pc'     = [pc     EXCEPT ![s] = "open"]
  /\ kind'   = [kind   EXCEPT ![s] = k]
  /\ target' = [target EXCEPT ![s] = tgt]
  /\ at'     = [at     EXCEPT ![s] = now]
  /\ due'    = [due    EXCEPT ![s] = expiry]
  /\ remark' = [remark EXCEPT ![s] = c]
  /\ todo'   = [todo   EXCEPT ![s] = loaded]
  /\ wrote'  = [wrote  EXCEPT ![s] = flushed]
  /\ UNCHANGED <<now, rowVars>>

(* The id a new row gets belongs to no row, committed or about to be. *)
Fresh_Mutant(r) == \A o \in Sessions : r \notin wrote[o]
Fresh(r) == state[r] = "none" /\ \A o \in Sessions : r \notin wrote[o]

(* request(): a new pending row and its audit event, flushed at once. *)
ExpiryOf_Mutant(ttl) == now - ttl
ExpiryOf(ttl) == now + ttl

Request(s, r, ttl) ==
  /\ Fresh(r)
  /\ Begin(s, "request", "pending", {}, {r}, ExpiryOf(ttl), FALSE)

(* _decide(): load the row; anything but "pending" is refused (409) with   *)
(* nothing written.  An approval that comes at or after expires_at sets    *)
(* the row to "expired" instead, flushes, and raises.                      *)
TooLate_Mutant(r, d) == d = "approved" /\ now > expiresAt[r]
TooLate(r, d) == d = "approved" /\ now >= expiresAt[r]

Decidable_Mutant(r) == state[r] # "none"
Decidable(r) == state[r] = "pending"

Decide(s, r, d, c) ==
  /\ Decidable(r)
  /\ IF TooLate(r, d)
       THEN Begin(s, "late", "expired", {r}, {}, 0, FALSE)
       ELSE Begin(s, "decide", d, {r}, {}, 0, c)

(* expire_due(): the overdue pending rows, the earliest SweepLimit of them. *)
Overdue == {r \in Requests : state[r] = "pending" /\ expiresAt[r] <= now}

EarliestOverdue(batch) ==
  /\ batch # {}
  /\ Cardinality(batch) <= SweepLimit
  /\ Cardinality(batch) < SweepLimit => batch = Overdue
  /\ \A r \in batch, q \in Overdue \ batch : expiresAt[r] <= expiresAt[q]

Sweep(s, batch) ==
  /\ EarliestOverdue(batch)
  /\ Begin(s, "sweep", "expired", batch, {}, 0, FALSE)

-----------------------------------------------------------------------------
(* Working in a transaction and ending it. *)

(* A flush sends UPDATE ... WHERE id = r, rows of a batch in expires_at    *)
(* order; it waits while another open transaction has written the row.     *)
Flush(s, r) ==
  /\ r \in todo[s]
  /\ \A q \in todo[s] : expiresAt[r] <= expiresAt[q]
  /\ \A o \in Sessions \ {s} : r \notin wrote[o]
  /\ todo'  = [todo  EXCEPT ![s] = @ \ {r}]
  /\ wrote' = [wrote EXCEPT ![s] = @ \cup {r}]
  /\ UNCHANGED <<now, rowVars, pc, kind, target, at, due, remark>>

(* The session object goes away with everything it had loaded. *)
Close(s) ==
  /\ pc'     = [pc     EXCEPT ![s] = "idle"]
  /\ kind'   = [kind   EXCEPT ![s] = "request"]
  /\ target' = [target EXCEPT ![s] = "none"]
  /\ at'     = [at     EXCEPT ![s] = 0]
  /\ due'    = [due    EXCEPT ![s] = 0]
  /\ remark' = [remark EXCEPT ![s] = FALSE]
  /\ todo'   = [todo   EXCEPT ![s] = {}]
  /\ wrote'  = [wrote  EXCEPT ![s] = {}]
  /\ UNCHANGED now

(* The columns a session's statement sets, on the rows it wrote. *)
Stamp(s, column, applies, value) ==
  [r \in Requests |-> IF r \in wrote[s] /\ applies THEN value ELSE column[r]]

NamesDecider_Mutant(s) == kind[s] # "request"
NamesDecider(s) == kind[s] = "decide"

Commit(s) ==
  /\ pc[s] = "open"
  /\ todo[s] = {}
  /\ kind[s] # "late"
  /\ state'     = Stamp(s, state, TRUE, target[s])
  /\ expiresAt' = Stamp(s, expiresAt, kind[s] = "request", due[s])
  /\ decidedAt' = Stamp(s, decidedAt, kind[s] # "request", at[s])
  /\ decidedBy' = Stamp(s, decidedBy, NamesDecider(s), s)
  /\ comment'   = Stamp(s, comment, NamesDecider(s) /\ remark[s], s)
  /\ trail'     = [r \in Requests |->
                     IF r \in wrote[s]
                       THEN Append(trail[r], [state |-> target[s], by |-> s,
                                              at |-> at[s], remark |-> remark[s]])
                       ELSE trail[r]]
  /\ Close(s)

(* Any exception under the request - the one a late approval raises, a     *)
(* notifier failing with something else than NotifierError, a lost         *)
(* connection, a killed process - rolls the whole transaction back.        *)
Rollback(s) ==
  /\ pc[s] = "open"
  /\ Close(s)
  /\ UNCHANGED rowVars

Tick ==
  /\ now < MaxTime
  /\ now' = now + 1
  /\ UNCHANGED <<rowVars, txVars>>

Next ==
  \/ \E s \in Sessions :
       \/ \E r \in Requests, ttl \in TTLs : Request(s, r, ttl)
       \/ \E r \in Requests, d \in Reviewed, c \in BOOLEAN : Decide(s, r, d, c)
       \/ \E batch \in SUBSET Overdue : Sweep(s, batch)
       \/ \E r \in Requests : Flush(s, r)
       \/ Commit(s)
       \/ Rollback(s)
  \/ Tick

Spec == Init /\ [][Next]_vars

-----------------------------------------------------------------------------
TypeOK ==
  /\ now \in Nat
  /\ state \in [Requests -> States]
  /\ expiresAt \in [Requests -> Nat]
  /\ decidedAt \in [Requests -> Nat]
  /\ decidedBy \in [Requests -> Sessions \cup {Nobody}]
  /\ comment \in [Requests -> Sessions \cup {Nobody}]
  /\ trail \in [Requests -> Seq(Entry)]
  /\ pc \in [Sessions -> {"idle", "open"}]
  /\ kind \in [Sessions -> Kinds]
  /\ target \in [Sessions -> States]
  /\ at \in [Sessions -> Nat]
  /\ due \in [Sessions -> Nat]
  /\ remark \in [Sessions -> BOOLEAN]
  /\ todo \in [Sessions -> SUBSET Requests]
  /\ wrote \in [Sessions -> SUBSET Requests]

(* No row says "approved" with a decision taken at or after its expiry,    *)
(* and none says "expired" with one taken before it, however the sweep and *)
(* the reviewers interleave (approval.py: "rather than letting a late      *)
(* approval slip through").                                                *)
DecidedInTime ==
  \A r \in Requests :
    /\ state[r] = "approved" => decidedAt[r] < expiresAt[r]
    /\ state[r] = "expired"  => decidedAt[r] >= expiresAt[r]

(* The audit trail explains the row: its last entry is the state and the   *)
(* time the row shows, decided_by is the reviewer of the last entry that   *)
(* was a reviewer's, and the comment belongs to the last reviewer who left *)
(* one - which after a race need not be the same person.                   *)
Reviews(t) == {i \in DOMAIN t : t[i].state \in Reviewed}
Remarks(t) == {i \in Reviews(t) : t[i].remark}
LastBy(t, entries) ==
  IF entries = {} THEN Nobody
  ELSE t[CHOOSE i \in entries : \A j \in entries : j <= i].by

AuditExplainsRow ==
  \A r \in Requests : state[r] # "none" =>
    LET t == trail[r]
        last == t[Len(t)]
    IN  /\ last.state = state[r]
        /\ state[r] # "pending" => last.at = decidedAt[r]
        /\ decidedBy[r] = LastBy(t, Reviews(t))
        /\ comment[r] = LastBy(t, Remarks(t))

(* A request collects at most one decision per transaction that can be     *)
(* open at the same time: a decision is overwritten only by a session that *)
(* had read the row before it, never by a later caller.  With one session  *)
(* at a time that is the lifecycle the docstring draws.                    *)
OverwrittenOnlyByRacers ==
  \A r \in Requests : Len(trail[r]) <= 1 + Cardinality(Sessions)

(* The lifecycle of the docstring, "pending -> approved | rejected |       *)
(* expired | cancelled": a request is decided at most once.  Two sessions  *)
(* that both loaded the pending row refute it.                             *)
DecidedOnce == \A r \in Requests : Len(trail[r]) <= 2

(* The table implements ApprovalBook: the row and its audit history move   *)
(* together, never back to pending.                                        *)
History == [r \in Requests |-> [i \in DOMAIN trail[r] |-> trail[r][i].state]]
Book == INSTANCE ApprovalBook WITH status <- state, history <- History
ImplementsBook == Book!BookSpec
=============================================================================
