---------------------------- MODULE Reliability ----------------------------
(***************************************************************************)
(* The thread-safe primitives of aqao_api.reliability beside the circuit   *)
(* breaker: the bulkhead of each workspace, the dead letters and the store *)
(* of idempotency keys.  A step is what happens under a lock once, or      *)
(* between two locks: the workspace's bulkhead is looked up under the      *)
(* registry's lock and a slot taken under its own, and remember() reads    *)
(* the clock before it takes the store's lock.                             *)
(***************************************************************************)
EXTENDS Integers, Sequences, FiniteSets, SequencesExt

CONSTANTS
  Threads, Spaces,     \* threads; the workspaces they work for
  Slots,               \* default_capacity
  Limit,               \* limit of drain()
  Bodies,              \* request bodies of the one idempotency key there is
  KeyTTL, HourMax,     \* ttl; bound of the clock
  MaxLetters,          \* bound: tasks that fail
  NoRecord

ASSUME ReliabilityAssumption ==
  /\ {KeyTTL, HourMax, MaxLetters} \subseteq Nat /\ {Slots, Limit} \subseteq Nat \ {0}

KeyRecord == [body : Bodies, created_at : Nat, expires_at : Nat]

ASSUME NoRecordAssumption == NoRecord \notin KeyRecord

VARIABLES
  hour,                \* the clock
  bulkheads,           \* Space :> [in_use], of the spaces looked up so far
  thread,              \* what a thread is at: [at, space, body, moment]
  letters,             \* the dead letters queued
  kept,                \* the key's record: [body, created_at, expires_at] or NoRecord
  failed, drained,     \* history: tasks that failed, the letters drained
  served               \* history: of each thread, the last answer: [body, response],
                       \* the response being the record it was made for

reliabilityVars == <<hour, bulkheads, thread, letters, kept, failed, drained, served>>

Free == [at |-> "free", space |-> CHOOSE s \in Spaces : TRUE,
         body |-> CHOOSE b \in Bodies : TRUE, moment |-> 0]

ReliabilityInit ==
  /\ hour = 0 /\ letters = <<>> /\ drained = <<>> /\ failed = 0
  /\ bulkheads = [s \in {} |-> 0]
  /\ thread = [t \in Threads |-> Free]
  /\ kept = NoRecord
  /\ served = [t \in Threads |-> NoRecord]

(* BulkheadRegistry.for_key(), ...  (A definition whose name ends in       *)
(* _Mutant is the next one with a slip in it and no part of the model.)    *)
for_key_Mutant(s) == [r \in DOMAIN bulkheads \cup {s} |-> IF r = s THEN 0 ELSE bulkheads[r]]
for_key(s) ==
  [r \in DOMAIN bulkheads \cup {s} |-> IF r \in DOMAIN bulkheads THEN bulkheads[r] ELSE 0]

LookUpSpace(t, s) ==
  /\ thread[t] = Free
  /\ bulkheads' = for_key(s)
  /\ thread' = [thread EXCEPT ![t] = [@ EXCEPT !.at = "bulkhead", !.space = s]]
  /\ UNCHANGED <<hour, letters, kept, failed, drained, served>>

(* ... Bulkhead.acquire(): BulkheadFull, or a slot ...                     *)
TakeSlot(t) ==
  LET s == thread[t].space IN
  /\ thread[t].at = "bulkhead"
  /\ IF bulkheads[s] >= Slots
       THEN thread' = [thread EXCEPT ![t] = Free] /\ UNCHANGED bulkheads
       ELSE /\ bulkheads' = [bulkheads EXCEPT ![s] = @ + 1]
            /\ thread' = [thread EXCEPT ![t].at = "working"]
  /\ UNCHANGED <<hour, letters, kept, failed, drained, served>>

(* ... that is released however the work ends: done, or failed and kept    *)
(* as a dead letter.                                                       *)
Release(s) == bulkheads' = [bulkheads EXCEPT ![s] = IF @ > 1 THEN @ - 1 ELSE 0]

Finish(t) ==
  /\ thread[t].at = "working"
  /\ Release(thread[t].space)
  /\ thread' = [thread EXCEPT ![t] = Free]
  /\ UNCHANGED <<hour, letters, kept, failed, drained, served>>

Fail(t) ==
  /\ thread[t].at = "working" /\ failed < MaxLetters
  /\ Release(thread[t].space)
  /\ thread' = [thread EXCEPT ![t] = Free]
  /\ failed' = failed + 1
  /\ letters' = Append(letters, failed + 1)
  /\ UNCHANGED <<hour, kept, drained, served>>

(* drain(): the first Limit letters, whoever asks.                         *)
Remaining_Mutant(n) == letters
Remaining(n) == SubSeq(letters, n + 1, Len(letters))

Drain ==
  LET n == IF Len(letters) < Limit THEN Len(letters) ELSE Limit IN
  /\ letters # <<>>
  /\ drained' = drained \o SubSeq(letters, 1, n)
  /\ letters' = Remaining(n)
  /\ UNCHANGED <<hour, bulkheads, thread, kept, failed, served>>

(* remember(): the moment, ...                                             *)
BeginRemember(t, b) ==
  /\ thread[t] = Free
  /\ thread' = [thread EXCEPT ![t] = [@ EXCEPT !.at = "remember", !.body = b, !.moment = hour]]
  /\ UNCHANGED <<hour, bulkheads, letters, kept, failed, drained, served>>

(* ... then, under the lock, the record while it lasts (or                 *)
(* IdempotencyConflict, when the body is another one), or a new one.  The  *)
(* response is the one of the request the record was made for.             *)
Lives_Mutant(moment) == kept # NoRecord /\ kept.created_at = moment
Lives(moment) == kept # NoRecord /\ kept.expires_at > moment

Remember(t) ==
  LET b == thread[t].body
      moment == thread[t].moment
      new == [body |-> b, created_at |-> moment, expires_at |-> moment + KeyTTL]
  IN /\ thread[t].at = "remember"
     /\ kept' = IF Lives(moment) THEN kept ELSE new
     /\ served' = IF Lives(moment) /\ kept.body # b THEN served
                  ELSE [served EXCEPT ![t] = [body |-> b, response |-> kept']]
     /\ thread' = [thread EXCEPT ![t] = Free]
     /\ UNCHANGED <<hour, bulkheads, letters, failed, drained>>

HourPasses ==
  /\ hour < HourMax /\ hour' = hour + 1
  /\ UNCHANGED <<bulkheads, thread, letters, kept, failed, drained, served>>

ReliabilityNext ==
  \/ \E t \in Threads :
       \/ \E s \in Spaces : LookUpSpace(t, s)
       \/ TakeSlot(t) \/ Finish(t) \/ Fail(t)
       \/ (\E b \in Bodies : BeginRemember(t, b)) \/ Remember(t)
  \/ Drain \/ HourPasses

ReliabilitySpec == ReliabilityInit /\ [][ReliabilityNext]_reliabilityVars

-----------------------------------------------------------------------------
ReliabilityTypeOK ==
  /\ hour \in 0..HourMax /\ failed \in 0..MaxLetters
  /\ DOMAIN bulkheads \subseteq Spaces
  /\ \A t \in Threads :
       thread[t].at \in {"free", "bulkhead", "working", "remember"}
  /\ kept \in KeyRecord \cup {NoRecord}

(* A workspace's burst takes no more than its own slots, and the threads   *)
(* inside are the slots in use: none leaks and none is given back twice    *)
(* ("a single tenant's burst can't crowd out another tenant").             *)
SlotsKept ==
  \A s \in Spaces :
    LET inside == Cardinality({t \in Threads :
                      thread[t].at = "working" /\ thread[t].space = s})
    IN /\ inside <= Slots
       /\ s \in DOMAIN bulkheads => bulkheads[s] = inside

(* Every task that failed is queued or was drained, once, in order.        *)
LettersKept == drained \o letters = [i \in 1..failed |-> i]

(* Two answers to the key are the same response, of the same body, or      *)
(* their responses were made at least KeyTTL apart: also when the moments  *)
(* of two requests are not in the order of their locks ("A repeated POST   *)
(* with the same idempotency key returns the cached response").            *)
FirstWriteWins ==
  \A t, u \in Threads :
    served[t] # NoRecord /\ served[u] # NoRecord =>
      /\ served[t].response.body = served[t].body
      /\ LET r == served[t].response
             q == served[u].response
         IN \/ r = q
            \/ r.created_at >= q.expires_at \/ q.created_at >= r.expires_at

ReliabilityKept == SlotsKept /\ LettersKept /\ FirstWriteWins
=============================================================================
