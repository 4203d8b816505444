-------------------------- MODULE PrimitivesProofs --------------------------
(***************************************************************************)
(* What holds of the bulkheads, dead letters and idempotency keys for any  *)
(* number of threads, and of the cache for any capacity and any clients,   *)
(* whatever the bounds of their clocks.                                    *)
(***************************************************************************)
EXTENDS Reliability, Caches, SequenceTheorems, FiniteSetTheorems, TLAPS

-----------------------------------------------------------------------------
(* Reliability: its invariant, in parts that share no variable but thread. *)

Spots == {"free", "bulkhead", "working", "remember"}

(* What a thread is at; a thread that works, or is about to ask for a      *)
(* slot, has had its workspace looked up.                                  *)
ThreadInv ==
  /\ hour \in 0..HourMax
  /\ thread \in [Threads -> [at : Spots, space : Spaces \cup {Free.space},
                             body : Bodies \cup {Free.body}, moment : Nat]]
  /\ \A t \in Threads :
       /\ thread[t].at \in {"bulkhead", "working"} =>
            thread[t].space \in DOMAIN bulkheads
       /\ thread[t].at = "remember" => thread[t].body \in Bodies

Inside(s) == {t \in Threads : thread[t].at = "working" /\ thread[t].space = s}

(* A counter is the number of threads inside, and those are finitely many. *)
SlotInv ==
  /\ DOMAIN bulkheads \subseteq Spaces
  /\ bulkheads \in [DOMAIN bulkheads -> 0..Slots]
  /\ \A s \in DOMAIN bulkheads :
       IsFiniteSet(Inside(s)) /\ bulkheads[s] = Cardinality(Inside(s))

LetterInv ==
  /\ failed \in 0..MaxLetters
  /\ letters \in Seq(Nat) /\ drained \in Seq(Nat)
  /\ LettersKept

(* A record lasts KeyTTL from its moment, and one that replaced another is *)
(* not older than the end of that one: so of any answer given so far, the  *)
(* record it was made for is the one that is kept, or had ended before     *)
(* that one was made.                                                      *)
KeyInv ==
  /\ kept \in KeyRecord \cup {NoRecord}
  /\ served \in [Threads -> [body : Bodies, response : KeyRecord] \cup {NoRecord}]
  /\ kept # NoRecord => kept.expires_at = kept.created_at + KeyTTL
  /\ \A t \in Threads : served[t] # NoRecord =>
       /\ kept # NoRecord
       /\ served[t].response.body = served[t].body
       /\ served[t].response = kept \/ served[t].response.expires_at <= kept.created_at
  /\ FirstWriteWins

RInv == ThreadInv /\ SlotInv /\ LetterInv /\ KeyInv

-----------------------------------------------------------------------------
LEMMA RInit == ReliabilityInit => RInv
<1> SUFFICES ASSUME ReliabilityInit PROVE RInv
  OBVIOUS
<1> USE ReliabilityAssumption DEF ReliabilityInit
<1>1. ThreadInv
  BY DEF ThreadInv, Free, Spots
<1>2. SlotInv
  BY DEF SlotInv
<1>3. LetterInv
  <2>1. drained \o letters = <<>> /\ [i \in 1..0 |-> i] = <<>>
    BY ConcatEmptySeq, EmptySeq
  <2>. QED
    BY <2>1 DEF LetterInv, LettersKept
<1>4. KeyInv
  BY DEF KeyInv, FirstWriteWins
<1>. QED
  BY <1>1, <1>2, <1>3, <1>4 DEF RInv

-----------------------------------------------------------------------------
(* The bulkheads. *)

LEMMA RLookUp ==
  ASSUME ThreadInv, SlotInv, NEW t \in Threads, NEW s \in Spaces, LookUpSpace(t, s)
  PROVE  ThreadInv' /\ SlotInv'
<1> USE DEF LookUpSpace, for_key
<1>1. ThreadInv'
  BY DEF ThreadInv, Free, Spots
<1>2. \A r : Inside(r)' = Inside(r)
  BY DEF Inside, ThreadInv, Free, Spots
<1>3. s \notin DOMAIN bulkheads => Inside(s) = {}
  BY DEF Inside, ThreadInv
<1>4. IsFiniteSet({}) /\ Cardinality({}) = 0
  BY FS_EmptySet
<1>5. \A r \in DOMAIN bulkheads' : IsFiniteSet(Inside(r)') /\ bulkheads'[r] = Cardinality(Inside(r)')
  BY <1>2, <1>3, <1>4 DEF SlotInv
<1>. QED
  BY <1>1, <1>5, ReliabilityAssumption DEF SlotInv

(* A counter that follows the threads of its own workspace keeps SlotInv. *)
LEMMA SlotsCounted ==
  ASSUME SlotInv, NEW s \in DOMAIN bulkheads, NEW n \in 0..Slots,
         bulkheads' = [bulkheads EXCEPT ![s] = n],
         IsFiniteSet(Inside(s)'), Cardinality(Inside(s)') = n,
         \A r : r # s => Inside(r)' = Inside(r)
  PROVE  SlotInv'
<1>1. DOMAIN bulkheads' = DOMAIN bulkheads
  BY DEF SlotInv
<1>2. ASSUME NEW r \in DOMAIN bulkheads, r # s
      PROVE  IsFiniteSet(Inside(r)') /\ bulkheads'[r] = Cardinality(Inside(r)')
  BY <1>2 DEF SlotInv
<1>3. bulkheads'[s] = Cardinality(Inside(s)')
  OBVIOUS
<1>4. bulkheads' \in [DOMAIN bulkheads -> 0..Slots]
  BY DEF SlotInv
<1>. QED
  BY <1>1, <1>2, <1>3, <1>4 DEF SlotInv

LEMMA RTake ==
  ASSUME ThreadInv, SlotInv, NEW t \in Threads, TakeSlot(t),
         NEW s, s = thread[t].space
  PROVE  ThreadInv' /\ SlotInv'
<1> USE DEF TakeSlot
<1>1. ThreadInv'
  BY DEF ThreadInv, Free, Spots
<1>2. CASE bulkheads[s] >= Slots
  <2>1. \A r : Inside(r)' = Inside(r)
    BY <1>2 DEF Inside, ThreadInv, Free, Spots
  <2>. QED
    BY <1>1, <1>2, <2>1 DEF SlotInv
<1>3. CASE ~(bulkheads[s] >= Slots)
  <2>1. s \in DOMAIN bulkheads /\ t \notin Inside(s)
    BY DEF ThreadInv, Inside
  <2>2. Inside(s)' = Inside(s) \cup {t} /\ \A r : r # s => Inside(r)' = Inside(r)
    BY <1>3 DEF Inside, ThreadInv, Spots
  <2>3. IsFiniteSet(Inside(s)') /\ Cardinality(Inside(s)') = Cardinality(Inside(s)) + 1
    BY <2>1, <2>2, FS_AddElement DEF SlotInv
  <2>4. bulkheads' = [bulkheads EXCEPT ![s] = bulkheads[s] + 1] /\ bulkheads[s] + 1 \in 0..Slots
    BY <1>3, <2>1, ReliabilityAssumption DEF SlotInv
  <2>5. Cardinality(Inside(s)') = bulkheads[s] + 1
    BY <2>1, <2>3 DEF SlotInv
  <2>. HIDE DEF TakeSlot
  <2>6. SlotInv'
    BY <2>1, <2>2, <2>3, <2>4, <2>5, SlotsCounted
  <2>. QED
    BY <1>1, <2>6
<1>. QED
  BY <1>2, <1>3

LEMMA RGiveBack ==
  ASSUME ThreadInv, SlotInv, NEW t \in Threads, thread[t].at = "working",
         Release(thread[t].space), thread' = [thread EXCEPT ![t] = Free], UNCHANGED hour,
         NEW s, s = thread[t].space
  PROVE  ThreadInv' /\ SlotInv'
<1> USE DEF Release
<1>1. ThreadInv'
  BY DEF ThreadInv, Free, Spots
<1>2. s \in DOMAIN bulkheads /\ t \in Inside(s)
  BY DEF ThreadInv, Inside
<1>3. Inside(s)' = Inside(s) \ {t} /\ \A r : r # s => Inside(r)' = Inside(r)
  BY DEF Inside, ThreadInv, Free, Spots
<1>4. IsFiniteSet(Inside(s)') /\ Cardinality(Inside(s)') = Cardinality(Inside(s)) - 1
  BY <1>2, <1>3, FS_RemoveElement DEF SlotInv
<1>5. Cardinality(Inside(s)') \in Nat
  BY <1>4, FS_CardinalityType
<1>6. bulkheads[s] \in 1..Slots /\ Cardinality(Inside(s)') = bulkheads[s] - 1
  BY <1>2, <1>4, <1>5, ReliabilityAssumption DEF SlotInv
<1>7. (IF bulkheads[s] > 1 THEN bulkheads[s] - 1 ELSE 0) = bulkheads[s] - 1
  BY <1>6
<1>8. bulkheads' = [bulkheads EXCEPT ![s] = bulkheads[s] - 1]
  BY <1>7, Zenon
<1>9. bulkheads[s] - 1 \in 0..Slots
  BY <1>6, ReliabilityAssumption
<1>. HIDE DEF Release
<1>10. SlotInv'
  BY <1>2, <1>3, <1>4, <1>6, <1>8, <1>9, SlotsCounted
<1>. QED
  BY <1>1, <1>10

-----------------------------------------------------------------------------
(* The dead letters. *)

LEMMA RLetter ==
  ASSUME LetterInv, failed < MaxLetters, failed' = failed + 1,
         letters' = Append(letters, failed + 1), UNCHANGED drained
  PROVE  LetterInv'
<1>1. failed + 1 \in Nat /\ failed' \in 0..MaxLetters
  BY ReliabilityAssumption DEF LetterInv
<1>2. letters \in Seq(Nat) /\ drained \in Seq(Nat) /\ <<failed + 1>> \in Seq(Nat)
  BY <1>1 DEF LetterInv
<1>3. letters' \in Seq(Nat) /\ letters' = letters \o <<failed + 1>>
  <2>1. Append(letters, failed + 1) \in Seq(Nat)
    BY <1>1, <1>2, AppendProperties
  <2>2. Append(letters, failed + 1) = letters \o <<failed + 1>>
    BY <1>1, <1>2, AppendIsConcat
  <2>. QED
    BY <2>1, <2>2
<1>4. drained \o letters' = (drained \o letters) \o <<failed + 1>>
  BY <1>2, <1>3, ConcatAssociative
<1>5. (drained \o letters) \o <<failed + 1>> = Append(drained \o letters, failed + 1)
  <2>1. drained \o letters \in Seq(Nat)
    BY <1>2, ConcatProperties
  <2>. QED
    BY <1>1, <2>1, AppendIsConcat
<1>6. Append([i \in 1..failed |-> i], failed + 1) = [i \in 1..(failed + 1) |-> i]
  BY <1>1, ReliabilityAssumption DEF LetterInv
<1>. QED
  BY <1>1, <1>2, <1>3, <1>4, <1>5, <1>6 DEF LetterInv, LettersKept

LEMMA RDrain == ASSUME LetterInv, Drain PROVE LetterInv'
<1> DEFINE n == IF Len(letters) < Limit THEN Len(letters) ELSE Limit
<1>1. letters \in Seq(Nat) /\ drained \in Seq(Nat) /\ letters # <<>>
  BY DEF LetterInv, Drain
<1>2. Len(letters) \in Nat \ {0}
  BY <1>1, EmptySeq
<1>3. n \in 1..Len(letters)
  BY <1>2, ReliabilityAssumption
<1>4. /\ drained' = drained \o SubSeq(letters, 1, n)
      /\ letters' = SubSeq(letters, n + 1, Len(letters)) /\ failed' = failed
  BY DEF Drain, Remaining
<1> HIDE DEF n
<1>5. \A i \in 1..Len(letters) : letters[i] \in Nat
  BY <1>1, ElementOfSeq
<1>6. SubSeq(letters, 1, n) \in Seq(Nat)
  <2>1. \A i \in 1..n : letters[i] \in Nat
    BY <1>2, <1>3, <1>5
  <2>. QED
    BY <1>3, <2>1, SubSeqProperties
<1>7. SubSeq(letters, n + 1, Len(letters)) \in Seq(Nat)
  <2>1. \A i \in (n + 1)..Len(letters) : letters[i] \in Nat
    BY <1>2, <1>3, <1>5
  <2>. QED
    BY <1>2, <1>3, <2>1, SubSeqProperties
<1>8. SubSeq(letters, 1, n) \o SubSeq(letters, n + 1, Len(letters)) = letters
  <2>1. 1 \in 1..(Len(letters) + 1) /\ n \in (1 - 1)..Len(letters) /\ Len(letters) \in n..Len(letters)
    BY <1>2, <1>3
  <2>2. SubSeq(letters, 1, n) \o SubSeq(letters, n + 1, Len(letters)) = SubSeq(letters, 1, Len(letters))
    BY <1>1, <2>1, ConcatAdjacentSubSeq
  <2>. QED
    BY <1>1, <2>2, SubSeqFull
<1>9. drained' \o letters' = drained \o letters
  <2>1. (drained \o SubSeq(letters, 1, n)) \o SubSeq(letters, n + 1, Len(letters))
          = drained \o (SubSeq(letters, 1, n) \o SubSeq(letters, n + 1, Len(letters)))
    <3>1. \A x, y, z \in Seq(Nat) : (x \o y) \o z = x \o (y \o z)
      BY ConcatAssociative, SMTT(40)
    <3>. QED
      BY <1>1, <1>6, <1>7, <3>1, Zenon
  <2>. QED
    BY <1>4, <1>8, <2>1, Zenon
<1>10. drained' \in Seq(Nat)
  BY <1>1, <1>4, <1>6, ConcatProperties
<1>. QED
  BY <1>4, <1>7, <1>9, <1>10 DEF LetterInv, LettersKept

-----------------------------------------------------------------------------
(* The idempotency key. *)

LEMMA RRemember ==
  ASSUME ThreadInv, KeyInv, NEW t \in Threads, Remember(t)
  PROVE  ThreadInv' /\ KeyInv'
<1> DEFINE b == thread[t].body
           moment == thread[t].moment
           new == [body |-> b, created_at |-> moment, expires_at |-> moment + KeyTTL]
<1> USE ReliabilityAssumption, NoRecordAssumption
<1>1. ThreadInv'
  BY DEF ThreadInv, Remember, Free, Spots
<1>2. b \in Bodies /\ moment \in Nat /\ new \in KeyRecord
  BY DEF ThreadInv, Remember, KeyRecord
<1>3. CASE Lives(moment)
  <2>1. kept' = kept /\ kept # NoRecord
    BY <1>3 DEF Remember, Lives
  <2>2. CASE kept.body = b
    <3>1. served' = [served EXCEPT ![t] = [body |-> b, response |-> kept]]
      BY <1>3, <2>1, <2>2 DEF Remember
    <3>2. \A u \in Threads : served'[u] = served[u] \/ (served'[u].response = kept /\ served'[u].body = kept.body)
      BY <2>2, <3>1 DEF KeyInv
    <3>3. served' \in [Threads -> [body : Bodies, response : KeyRecord] \cup {NoRecord}]
      BY <1>2, <2>1, <3>1 DEF KeyInv
    <3>. QED
      BY <1>1, <2>1, <3>2, <3>3 DEF KeyInv, FirstWriteWins
  <2>3. CASE kept.body # b
    <3>1. served' = served
      BY <1>3, <2>3 DEF Remember
    <3>. QED
      BY <1>1, <2>1, <3>1 DEF KeyInv, FirstWriteWins
  <2>. QED
    BY <1>1, <2>2, <2>3
<1>4. CASE ~Lives(moment)
  <2>1. kept' = new /\ served' = [served EXCEPT ![t] = [body |-> b, response |-> new]]
    BY <1>4 DEF Remember
  <2>2. kept = NoRecord \/ kept.expires_at <= moment
    BY <1>2, <1>4 DEF Lives, KeyInv, KeyRecord
  <2>3. \A u \in Threads : served[u] # NoRecord => served[u].response.expires_at <= moment
    BY <1>2, <2>2 DEF KeyInv, KeyRecord
  <2>4. \A u \in Threads : \/ u # t /\ served'[u] = served[u]
                           \/ served'[u].response = new /\ served'[u].body = new.body
    BY <2>1 DEF KeyInv
  <2>5. served' \in [Threads -> [body : Bodies, response : KeyRecord] \cup {NoRecord}]
    BY <1>2, <2>1 DEF KeyInv
  <2>6. kept' \in KeyRecord /\ kept' # NoRecord /\ kept'.created_at = moment /\ kept'.expires_at = moment + KeyTTL
    BY <1>2, <2>1
  <2>. HIDE DEF new, moment, b
  <2>7. \A u \in Threads : served'[u] # NoRecord =>
          /\ served'[u].response.body = served'[u].body
          /\ served'[u].response = kept' \/ served'[u].response.expires_at <= kept'.created_at
    BY <2>1, <2>3, <2>4, <2>6 DEF KeyInv
  <2>8. FirstWriteWins'
    <3> SUFFICES ASSUME NEW u \in Threads, NEW v \in Threads,
                        served'[u] # NoRecord, served'[v] # NoRecord
                 PROVE  LET r == served'[u].response
                            q == served'[v].response
                        IN r = q \/ r.created_at >= q.expires_at \/ q.created_at >= r.expires_at
      BY <2>7 DEF FirstWriteWins
    <3>1. CASE u # t /\ v # t /\ served'[u] = served[u] /\ served'[v] = served[v]
      BY <3>1 DEF KeyInv, FirstWriteWins
    <3>2. CASE served'[u].response = new
      BY <1>2, <2>1, <2>3, <2>4, <2>6, <3>2 DEF KeyInv, KeyRecord
    <3>3. CASE served'[v].response = new
      BY <1>2, <2>1, <2>3, <2>4, <2>6, <3>3 DEF KeyInv, KeyRecord
    <3>. QED
      BY <2>4, <3>1, <3>2, <3>3
  <2>. QED
    BY <1>1, <2>5, <2>6, <2>7, <2>8 DEF KeyInv
<1>. QED
  BY <1>1, <1>3, <1>4

-----------------------------------------------------------------------------
LEMMA RNext == RInv /\ [ReliabilityNext]_reliabilityVars => RInv'
<1> SUFFICES ASSUME RInv, [ReliabilityNext]_reliabilityVars PROVE RInv'
  OBVIOUS
<1> USE DEF RInv
<1>1. ASSUME UNCHANGED <<kept, served>> PROVE KeyInv'
  BY <1>1 DEF KeyInv, FirstWriteWins
<1>2. ASSUME UNCHANGED <<letters, failed, drained>> PROVE LetterInv'
  BY <1>2 DEF LetterInv, LettersKept
<1>3. ASSUME UNCHANGED bulkheads, \A s : Inside(s)' = Inside(s) PROVE SlotInv'
  BY <1>3 DEF SlotInv
<1>4. CASE UNCHANGED reliabilityVars
  BY <1>1, <1>2, <1>3, <1>4 DEF reliabilityVars, ThreadInv, Inside
<1>5. ASSUME NEW t \in Threads, NEW s \in Spaces, LookUpSpace(t, s) PROVE RInv'
  BY <1>1, <1>2, <1>5, RLookUp DEF LookUpSpace
<1>6. ASSUME NEW t \in Threads, TakeSlot(t) PROVE RInv'
  BY <1>1, <1>2, <1>6, RTake DEF TakeSlot
<1>7. ASSUME NEW t \in Threads, Finish(t) PROVE RInv'
  BY <1>1, <1>2, <1>7, RGiveBack DEF Finish
<1>8. ASSUME NEW t \in Threads, Fail(t) PROVE RInv'
  BY <1>1, <1>8, RGiveBack, RLetter DEF Fail
<1>9. ASSUME NEW t \in Threads, NEW b \in Bodies, BeginRemember(t, b) PROVE RInv'
  <2>1. ThreadInv'
    <3>1. hour \in Nat
      BY ReliabilityAssumption DEF ThreadInv
    <3>2. thread' \in [Threads -> [at : Spots, space : Spaces \cup {Free.space},
                                   body : Bodies \cup {Free.body}, moment : Nat]]
      <4>1. /\ thread[t] \in [at : Spots, space : Spaces \cup {Free.space},
                              body : Bodies \cup {Free.body}, moment : Nat]
            /\ "remember" \in Spots
        BY DEF ThreadInv, Spots
      <4>2. [thread[t] EXCEPT !.at = "remember", !.body = b, !.moment = hour]
              \in [at : Spots, space : Spaces \cup {Free.space},
                   body : Bodies \cup {Free.body}, moment : Nat]
        BY <1>9, <3>1, <4>1
      <4>. QED
        BY <1>9, <4>2 DEF BeginRemember, ThreadInv
    <3>3. /\ thread'[t].at = "remember" /\ thread'[t].body = b
          /\ \A u \in Threads \ {t} : thread'[u] = thread[u]
      BY <1>9 DEF BeginRemember, ThreadInv
    <3>. QED
      BY <1>9, <3>2, <3>3 DEF BeginRemember, ThreadInv
  <2>2. \A s : Inside(s)' = Inside(s)
    BY <1>9 DEF BeginRemember, ThreadInv, Free, Inside
  <2>. QED
    BY <1>1, <1>2, <1>3, <1>9, <2>1, <2>2 DEF BeginRemember
<1>10. ASSUME NEW t \in Threads, Remember(t) PROVE RInv'
  <2>1. \A s : Inside(s)' = Inside(s)
    BY <1>10 DEF Remember, ThreadInv, Free, Spots, Inside
  <2>. QED
    BY <1>2, <1>3, <1>10, <2>1, RRemember DEF Remember
<1>11. CASE Drain
  BY <1>1, <1>3, <1>11, RDrain DEF Drain, ThreadInv, Inside
<1>12. CASE HourPasses
  BY <1>1, <1>2, <1>3, <1>12, ReliabilityAssumption DEF HourPasses, ThreadInv, Inside
<1>. QED
  BY <1>4, <1>5, <1>6, <1>7, <1>8, <1>9, <1>10, <1>11, <1>12 DEF ReliabilityNext

LEMMA RInvariance == ReliabilitySpec => []RInv
<1>. QED
  BY RInit, RNext, PTL DEF ReliabilitySpec

(* A workspace never has more threads inside than slots, and none leaks or *)
(* is given back twice; every task that failed is queued or drained, once  *)
(* and in order; answers to an idempotency key are of one body, and two    *)
(* that differ are KeyTTL apart: for any threads, in any order of locks.   *)
THEOREM ReliablePrimitives == ReliabilitySpec => []ReliabilityKept
<1>1. RInv => ReliabilityKept
  <2> SUFFICES ASSUME RInv PROVE SlotsKept
    BY DEF RInv, ReliabilityKept, LetterInv, KeyInv
  <2> USE DEF RInv, SlotInv
  <2> SUFFICES ASSUME NEW s \in Spaces
               PROVE  /\ Cardinality(Inside(s)) <= Slots
                      /\ s \in DOMAIN bulkheads => bulkheads[s] = Cardinality(Inside(s))
    BY DEF SlotsKept, Inside
  <2>1. CASE s \in DOMAIN bulkheads
    BY <2>1, ReliabilityAssumption
  <2>2. CASE s \notin DOMAIN bulkheads
    <3>1. Inside(s) = {}
      BY <2>2 DEF ThreadInv, Inside
    <3>. QED
      BY <2>2, <3>1, FS_EmptySet, ReliabilityAssumption
  <2>. QED
    BY <2>1, <2>2
<1>. QED
  BY <1>1, RInvariance, PTL

(* The clock, the counters, the threads and the record keep their types.   *)
THEOREM ReliabilityTypeCorrect == ReliabilitySpec => []ReliabilityTypeOK
<1>1. RInv => ReliabilityTypeOK
  BY DEF RInv, ThreadInv, SlotInv, LetterInv, KeyInv, Spots, ReliabilityTypeOK
<1>. QED
  BY <1>1, RInvariance, PTL

-----------------------------------------------------------------------------
(* The cache: its invariant. *)

CacheEntry == [key : Keys, value : Nat, expires_at : Nat, late : BOOLEAN]
CacheSpots == {"rest", "asked", "computing", "computed"}

ClientInv ==
  /\ ticks \in 0..CacheTime
  /\ source \in [Keys -> Nat] /\ unsaid \subseteq Keys
  /\ client \in [Clients -> [at : CacheSpots, key : Keys \cup {Resting.key}, moment : Nat,
                             value : Nat, late : BOOLEAN]]
  /\ \A c \in Clients : /\ client[c].at # "rest" => client[c].key \in Keys
                        /\ client[c].moment <= ticks

(* Entries of different keys, those that were used last at the end. *)
EntriesSound(es, sn) ==
  /\ es \in Seq(CacheEntry)
  /\ \A i, j \in 1..Len(es) :
       i < j => es[i].key # es[j].key /\ es[j].key \in sn[es[i].key]

OrderInv ==
  /\ EntriesSound(entries, since) /\ Len(entries) <= Capacity
  /\ since \in [Keys -> SUBSET Keys] /\ \A k \in Keys : IsFiniteSet(since[k])
  /\ known \in [Keys -> Nat]
  /\ \A i \in 1..Len(entries) : known[entries[i].key] = entries[i].expires_at

(* What a client has computed is as good as what is cached. *)
Fresh(src, late, k, e) == e.value = src[k] \/ k \in late \/ e.late

StaleInv ==
  /\ \A i \in 1..Len(entries) : Fresh(source, unsaid, entries[i].key, entries[i])
  /\ \A c \in Clients : client[c].at = "computed" =>
       Fresh(source, unsaid, client[c].key, client[c])

CInv == ClientInv /\ OrderInv /\ LruGuarantee /\ StaleInv

-----------------------------------------------------------------------------
(* What is left without a key: the entries of the others, in their order.  *)

LEMMA PlaceOf ==
  ASSUME EntriesSound(entries, since), NEW k
  PROVE  /\ Len(entries) \in Nat /\ DOMAIN entries = 1..Len(entries)
         /\ Positions(k) # {} => /\ Place(k) \in 1..Len(entries) /\ Entry(k).key = k
                                 /\ \A i \in 1..Len(entries) : entries[i].key = k => i = Place(k)
         /\ Positions(k) = {} => \A i \in 1..Len(entries) : entries[i].key # k
<1>1. Len(entries) \in Nat /\ DOMAIN entries = 1..Len(entries)
  BY LenProperties DEF EntriesSound
<1>2. ASSUME Positions(k) # {}
      PROVE  /\ Place(k) \in 1..Len(entries) /\ Entry(k).key = k
             /\ \A i \in 1..Len(entries) : entries[i].key = k => i = Place(k)
  <2>1. Place(k) \in Positions(k)
    BY <1>2 DEF Place
  <2>2. \A i, j \in 1..Len(entries) : entries[i].key = k /\ entries[j].key = k => i = j
    BY <1>1 DEF EntriesSound
  <2>. QED
    BY <1>1, <2>1, <2>2 DEF Positions, Entry
<1>. QED
  BY <1>1, <1>2 DEF Positions

Dropped(W, k) ==
  /\ W \in Seq(CacheEntry)
  /\ Len(W) = IF Positions(k) = {} THEN Len(entries) ELSE Len(entries) - 1
  /\ \A i, j \in 1..Len(W) : i < j =>
       \E m, n \in 1..Len(entries) : m < n /\ W[i] = entries[m] /\ W[j] = entries[n]
  /\ \A i \in 1..Len(W) : W[i].key # k /\ \E m \in 1..Len(entries) : W[i] = entries[m]
  /\ \A m \in 1..Len(entries) : entries[m].key # k =>
       \E i \in 1..Len(W) : W[i] = entries[m]

LEMMA WithoutIs ==
  ASSUME EntriesSound(entries, since), NEW k
  PROVE  Dropped(Without(k), k)
<1>1. CASE Positions(k) = {}
  BY <1>1, PlaceOf DEF Without, EntriesSound, Dropped
<1>2. CASE Positions(k) # {}
  <2> DEFINE p == Place(k)
             n == Len(entries)
             W == SubSeq(entries, 1, p - 1) \o SubSeq(entries, p + 1, n)
  <2>1. n \in Nat /\ p \in 1..n /\ \A i \in 1..n : entries[i].key = k => i = p
    BY <1>2, PlaceOf
  <2>2. Without(k) = W
    BY <1>2 DEF Without, RemoveAt
  <2>3. \A i \in 1..n : entries[i] \in CacheEntry
    BY ElementOfSeq DEF EntriesSound
  <2> HIDE DEF p, n
  <2>4. /\ SubSeq(entries, 1, p - 1) \in Seq(CacheEntry) /\ Len(SubSeq(entries, 1, p - 1)) = p - 1
        /\ \A i \in 1..(p - 1) : SubSeq(entries, 1, p - 1)[i] = entries[i]
    <3>1. 1 \in Int /\ p - 1 \in Int /\ \A i \in 1..(p - 1) : entries[i] \in CacheEntry
      BY <2>1, <2>3
    <3>. QED
      BY <2>1, <3>1, SubSeqProperties
  <2>5. /\ SubSeq(entries, p + 1, n) \in Seq(CacheEntry) /\ Len(SubSeq(entries, p + 1, n)) = n - p
        /\ \A i \in 1..(n - p) : SubSeq(entries, p + 1, n)[i] = entries[p + i]
    <3>1. p + 1 \in Int /\ n \in Int /\ \A i \in (p + 1)..n : entries[i] \in CacheEntry
      BY <2>1, <2>3
    <3>. QED
      BY <2>1, <3>1, SubSeqProperties
  <2>6. W \in Seq(CacheEntry) /\ Len(W) = n - 1
    BY <2>1, <2>4, <2>5, ConcatProperties
  <2>7. \A i \in 1..(n - 1) : W[i] = entries[IF i < p THEN i ELSE i + 1]
    <3> SUFFICES ASSUME NEW i \in 1..(n - 1) PROVE W[i] = entries[IF i < p THEN i ELSE i + 1]
      OBVIOUS
    <3>1. W[i] = IF i <= p - 1 THEN SubSeq(entries, 1, p - 1)[i] ELSE SubSeq(entries, p + 1, n)[i - (p - 1)]
      BY <2>1, <2>4, <2>5, ConcatProperties
    <3>2. CASE i < p
      BY <2>1, <2>4, <3>1, <3>2
    <3>3. CASE ~(i < p)
      <4>1. i - (p - 1) \in 1..(n - p) /\ p + (i - (p - 1)) = i + 1 /\ ~(i <= p - 1)
        BY <2>1, <3>3
      <4>. QED
        BY <2>5, <3>1, <3>3, <4>1
    <3>. QED
      BY <3>2, <3>3
  <2> HIDE DEF W
  <2>8. \A i \in 1..(n - 1) : (IF i < p THEN i ELSE i + 1) \in (1..n) \ {p}
    BY <2>1
  <2>9. ASSUME NEW i \in 1..(n - 1), NEW j \in 1..(n - 1), i < j
        PROVE  \E a, b \in 1..n : a < b /\ W[i] = entries[a] /\ W[j] = entries[b]
    <3>1. (IF i < p THEN i ELSE i + 1) < (IF j < p THEN j ELSE j + 1)
      BY <2>1, <2>9
    <3>. QED
      BY <2>7, <2>8, <3>1
  <2>10. \A i \in 1..(n - 1) : W[i].key # k /\ \E m \in 1..n : W[i] = entries[m]
    BY <2>1, <2>7, <2>8
  <2>11. ASSUME NEW m \in 1..n, entries[m].key # k PROVE \E i \in 1..(n - 1) : W[i] = entries[m]
    <3>1. m # p
      BY <1>2, <2>1, <2>11, PlaceOf DEF Entry, p
    <3>2. CASE m < p
      <4>1. m \in 1..(n - 1)
        BY <2>1, <3>2
      <4>. QED
        BY <2>7, <3>2, <4>1
    <3>3. CASE m > p
      <4>1. m - 1 \in 1..(n - 1) /\ ~(m - 1 < p) /\ (m - 1) + 1 = m
        BY <2>1, <3>3
      <4>. QED
        BY <2>7, <4>1
    <3>. QED
      BY <2>1, <3>1, <3>2, <3>3
  <2>12. \A i, j \in 1..Len(W) : i < j => \E a, b \in 1..n : a < b /\ W[i] = entries[a] /\ W[j] = entries[b]
    BY <2>6, <2>9, SMTT(40)
  <2>13. \A i \in 1..Len(W) : W[i].key # k /\ \E m \in 1..n : W[i] = entries[m]
    BY <2>6, <2>10
  <2>14. \A m \in 1..n : entries[m].key # k => \E i \in 1..Len(W) : W[i] = entries[m]
    BY <2>6, <2>11
  <2>15. Dropped(W, k)
    BY <1>2, <2>6, <2>12, <2>13, <2>14 DEF Dropped, n
  <2>. QED
    BY <2>2, <2>15
<1>. QED
  BY <1>1, <1>2

-----------------------------------------------------------------------------
(* A use of a key. *)

LEMMA UseIs ==
  ASSUME OrderInv, NEW k \in Keys, Use(k)
  PROVE  /\ since' \in [Keys -> SUBSET Keys] /\ since'[k] = {}
         /\ \A j \in Keys : IsFiniteSet(since'[j])
         /\ \A j \in Keys : j # k =>
              /\ since'[j] = since[j] \cup {k}
              /\ Cardinality(since'[j]) \in Nat /\ Cardinality(since[j]) \in Nat
              /\ Cardinality(since'[j]) >= Cardinality(since[j])
<1>1. /\ since' \in [Keys -> SUBSET Keys] /\ since'[k] = {}
      /\ \A j \in Keys : j # k => since'[j] = since[j] \cup {k}
  BY DEF Use, OrderInv
<1>2. IsFiniteSet({})
  BY FS_EmptySet
<1>3. ASSUME NEW j \in Keys, j # k
      PROVE  /\ IsFiniteSet(since'[j])
             /\ Cardinality(since'[j]) \in Nat /\ Cardinality(since[j]) \in Nat
             /\ Cardinality(since'[j]) >= Cardinality(since[j])
  <2>1. IsFiniteSet(since[j]) /\ since'[j] = since[j] \cup {k}
    BY <1>1, <1>3 DEF OrderInv
  <2>2. /\ IsFiniteSet(since'[j])
        /\ Cardinality(since'[j]) = IF k \in since[j] THEN Cardinality(since[j]) ELSE Cardinality(since[j]) + 1
    BY <2>1, FS_AddElement
  <2>3. Cardinality(since[j]) \in Nat
    BY <2>1, FS_CardinalityType
  <2>. QED
    BY <2>2, <2>3
<1>. QED
  BY <1>1, <1>2, <1>3

Old(e, k) == \E m \in 1..Len(entries) : e = entries[m] /\ entries[m].key # k

Renewed(X, e, k) ==
  /\ Len(X) = IF Positions(k) = {} THEN Len(entries) + 1 ELSE Len(entries)
  /\ X[Len(X)] = e
  /\ \A i \in 1..Len(X) : X[i] = e \/ Old(X[i], k)
  /\ \A m \in 1..Len(entries) : entries[m].key # k => \E i \in 1..Len(X) : X[i] = entries[m]

LEMMA PutLast ==
  ASSUME OrderInv, NEW k \in Keys, Use(k), NEW e \in CacheEntry, e.key = k,
         NEW X, X = Append(Without(k), e)
  PROVE  EntriesSound(X, since') /\ Renewed(X, e, k)
<1> DEFINE W == Without(k)
<1>1. EntriesSound(entries, since)
  BY DEF OrderInv
<1>0. Dropped(W, k)
  BY <1>1, WithoutIs
<1>2. /\ W \in Seq(CacheEntry) /\ Len(W) \in Nat /\ Len(entries) \in Nat
      /\ Len(W) = IF Positions(k) = {} THEN Len(entries) ELSE Len(entries) - 1
  BY <1>1, <1>0, LenProperties DEF Dropped, EntriesSound
<1>3. /\ X \in Seq(CacheEntry) /\ Len(X) = Len(W) + 1 /\ X[Len(W) + 1] = e
      /\ \A i \in 1..Len(W) : X[i] = W[i]
  BY <1>2, AppendProperties
<1> HIDE DEF W
<1>4. /\ \A i, j \in 1..Len(W) : i < j =>
           \E m, n \in 1..Len(entries) : m < n /\ W[i] = entries[m] /\ W[j] = entries[n]
      /\ \A i \in 1..Len(W) : W[i].key # k /\ \E m \in 1..Len(entries) : W[i] = entries[m]
      /\ \A m \in 1..Len(entries) : entries[m].key # k => \E i \in 1..Len(W) : W[i] = entries[m]
  BY <1>0 DEF Dropped
<1>5. \A i \in 1..Len(W) : W[i].key \in Keys
  <2>1. \A i \in 1..Len(W) : W[i] \in CacheEntry
    BY <1>2, ElementOfSeq
  <2>. QED
    BY <2>1 DEF CacheEntry
<1>6. ASSUME NEW i \in 1..Len(X), NEW j \in 1..Len(X), i < j
      PROVE  X[i].key # X[j].key /\ X[j].key \in since'[X[i].key]
  <2>0. i \in 1..Len(W)
    BY <1>2, <1>3, <1>6
  <2>1. i \in 1..Len(W) /\ W[i].key # k /\ W[i].key \in Keys /\ X[i] = W[i]
    BY <1>3, <1>4, <1>5, <2>0
  <2>2. since'[W[i].key] = since[W[i].key] \cup {k}
    BY <2>1, UseIs
  <2>3. CASE j = Len(W) + 1
    BY <1>3, <2>1, <2>2, <2>3
  <2>4. CASE j # Len(W) + 1
    <3>1. j \in 1..Len(W) /\ X[j] = W[j]
      BY <1>2, <1>3, <2>4
    <3>2. PICK m \in 1..Len(entries), n \in 1..Len(entries) : m < n /\ W[i] = entries[m] /\ W[j] = entries[n]
      BY <1>4, <1>6, <2>1, <3>1
    <3>. QED
      BY <1>1, <2>1, <2>2, <3>1, <3>2 DEF EntriesSound
  <2>. QED
    BY <2>3, <2>4
<1>7. EntriesSound(X, since')
  BY <1>3, <1>6 DEF EntriesSound
<1>8. \A i \in 1..Len(X) : X[i] = e \/ Old(X[i], k)
  <2> SUFFICES ASSUME NEW i \in 1..Len(X), X[i] # e
               PROVE  Old(X[i], k)
    OBVIOUS
  <2>1. i \in 1..Len(W) /\ X[i] = W[i]
    BY <1>2, <1>3
  <2>. QED
    BY <1>4, <2>1, SMTT(40) DEF Old
<1>9. \A m \in 1..Len(entries) : entries[m].key # k => \E i \in 1..Len(X) : X[i] = entries[m]
  <2> SUFFICES ASSUME NEW m \in 1..Len(entries), entries[m].key # k
               PROVE  \E i \in 1..Len(X) : X[i] = entries[m]
    OBVIOUS
  <2>1. PICK i \in 1..Len(W) : W[i] = entries[m]
    BY <1>4
  <2>. QED
    BY <1>2, <1>3, <2>1, SMTT(40)
<1>10. Len(X) = IF Positions(k) = {} THEN Len(entries) + 1 ELSE Len(entries)
  BY <1>2, <1>3
<1>. QED
  BY <1>2, <1>3, <1>7, <1>8, <1>9, <1>10 DEF Renewed

(* The oldest of Capacity + 1 entries has seen the keys of all the others. *)
LEMMA EvictedIs ==
  ASSUME NEW X, NEW sn, EntriesSound(X, sn), Len(X) = Capacity + 1,
         sn \in [Keys -> SUBSET Keys], \A k \in Keys : IsFiniteSet(sn[k])
  PROVE  /\ Evicted(X) = Tail(X) /\ EntriesSound(Tail(X), sn) /\ Len(Tail(X)) = Capacity
         /\ \A i \in 1..Capacity : Tail(X)[i] = X[i + 1]
         /\ Cardinality(sn[X[1].key]) >= Capacity
<1>1. Capacity \in Nat \ {0} /\ X \in Seq(CacheEntry) /\ X # <<>>
  BY CacheAssumption, EmptySeq DEF EntriesSound
<1>2. /\ Tail(X) \in Seq(CacheEntry) /\ Len(Tail(X)) = Capacity
      /\ \A i \in 1..Capacity : Tail(X)[i] = X[i + 1]
  BY <1>1, HeadTailProperties
<1>3. EntriesSound(Tail(X), sn)
  <2>1. \A i, j \in 1..Capacity : i < j =>
          /\ i + 1 \in 1..Len(X) /\ j + 1 \in 1..Len(X) /\ i + 1 < j + 1
          /\ Tail(X)[i] = X[i + 1] /\ Tail(X)[j] = X[j + 1]
    BY <1>1, <1>2
  <2>. QED
    BY <1>1, <1>2, <2>1 DEF EntriesSound
<1>4. Cardinality(sn[X[1].key]) >= Capacity
  <2> DEFINE T == sn[X[1].key]
             f == [i \in 1..Capacity |-> X[i + 1].key]
  <2>1. IsFiniteSet(T)
    <3>1. 1 \in 1..Len(X)
      BY <1>1
    <3>2. X[1] \in CacheEntry
      BY <1>1, <3>1, ElementOfSeq
    <3>. QED
      BY <3>2 DEF CacheEntry
  <2>2. \A i \in 1..Capacity : f[i] \in T
    BY <1>1 DEF EntriesSound
  <2>3. \A i, j \in 1..Capacity : f[i] = f[j] => i = j
    <3> SUFFICES ASSUME NEW i \in 1..Capacity, NEW j \in 1..Capacity, i < j PROVE f[i] # f[j]
      BY <1>1
    <3>. QED
      BY <1>1 DEF EntriesSound
  <2>4. f \in Injection(1..Capacity, T)
    BY <2>2, <2>3 DEF Injection, IsInjective
  <2>5. Cardinality(1..Capacity) <= Cardinality(T)
    BY <2>1, <2>4, FS_Injection
  <2>6. Cardinality(1..Capacity) = Capacity
    BY <1>1, FS_Interval
  <2>7. Cardinality(T) \in Nat
    BY <2>1, FS_CardinalityType
  <2>. QED
    BY <1>1, <2>5, <2>6, <2>7
<1>. QED
  BY <1>1, <1>2, <1>3, <1>4 DEF Evicted
-----------------------------------------------------------------------------
(* What a hit and a set do to the entries: the one used becomes the last,  *)
(* and with more than Capacity of them the first goes.                     *)

LEMMA UsedIs ==
  ASSUME OrderInv, LruGuarantee, NEW k \in Keys, Use(k), NEW e \in CacheEntry, e.key = k,
         NEW X, X = Append(Without(k), e), entries' = Evicted(X), ticks' = ticks,
         known' \in [Keys -> Nat], known'[k] = e.expires_at,
         \A j \in Keys : j # k => known'[j] = known[j]
  PROVE  /\ OrderInv' /\ LruGuarantee'
         /\ \A i \in 1..Len(entries') : entries'[i] = e \/ Old(entries'[i], k)
<1>1. /\ EntriesSound(X, since')
      /\ Len(X) = IF Positions(k) = {} THEN Len(entries) + 1 ELSE Len(entries)
      /\ X[Len(X)] = e
      /\ \A i \in 1..Len(X) : X[i] = e \/ Old(X[i], k)
      /\ \A m \in 1..Len(entries) : entries[m].key # k => \E i \in 1..Len(X) : X[i] = entries[m]
  <2>1. EntriesSound(X, since') /\ Renewed(X, e, k)
    BY PutLast
  <2>. QED
    BY <2>1 DEF Renewed
<1>2. /\ EntriesSound(entries, since) /\ Len(entries) \in Nat /\ Len(entries) <= Capacity
      /\ Capacity \in Nat \ {0} /\ DOMAIN entries = 1..Len(entries)
      /\ Positions(k) # {} => Len(entries) >= 1
  <2>1. EntriesSound(entries, since) /\ Len(entries) <= Capacity
    BY DEF OrderInv
  <2>2. Positions(k) # {} => Place(k) \in 1..Len(entries)
    BY <2>1, PlaceOf
  <2>3. Len(entries) \in Nat /\ DOMAIN entries = 1..Len(entries)
    BY <2>1, PlaceOf
  <2>. QED
    BY <2>1, <2>2, <2>3, CacheAssumption
<1>3. /\ since' \in [Keys -> SUBSET Keys] /\ \A j \in Keys : IsFiniteSet(since'[j])
      /\ \A j \in Keys : j # k => /\ Cardinality(since'[j]) \in Nat
                                  /\ Cardinality(since[j]) \in Nat
                                  /\ Cardinality(since'[j]) >= Cardinality(since[j])
  BY UseIs
<1>4. entries' = Evicted(X) /\ Len(X) \in 1..(Capacity + 1) /\ X \in Seq(CacheEntry)
  BY <1>1, <1>2 DEF EntriesSound
<1>5. \A i \in 1..Len(X) : X[i] \in CacheEntry /\ X[i].key \in Keys
  <2>1. \A i \in 1..Len(X) : X[i] \in CacheEntry
    BY <1>4, ElementOfSeq
  <2>. QED
    BY <2>1 DEF CacheEntry
<1>6. \A i \in 1..Len(X) : known'[X[i].key] = X[i].expires_at
  <2> SUFFICES ASSUME NEW i \in 1..Len(X) PROVE known'[X[i].key] = X[i].expires_at
    OBVIOUS
  <2>1. CASE X[i] = e
    BY <2>1
  <2>2. CASE Old(X[i], k)
    <3>1. PICK m \in 1..Len(entries) : X[i] = entries[m] /\ entries[m].key # k
      BY <2>2 DEF Old
    <3>2. known[entries[m].key] = entries[m].expires_at
      BY DEF OrderInv
    <3>. QED
      BY <1>5, <3>1, <3>2
  <2>. QED
    BY <1>1, <2>1, <2>2
(* A key that is not in X was not there before either. *)
<1>7. \A j \in Keys : (\A i \in 1..Len(X) : X[i].key # j) =>
        /\ j # k /\ known'[j] = known[j] /\ Positions(j) = {}
  <2> SUFFICES ASSUME NEW j \in Keys, \A i \in 1..Len(X) : X[i].key # j
               PROVE  j # k /\ Positions(j) = {}
    OBVIOUS
  <2>1. j # k
    BY <1>1, <1>4
  <2>2. \A m \in 1..Len(entries) : entries[m].key # j
    BY <1>1, <2>1
  <2>. QED
    BY <1>2, <2>1, <2>2 DEF Positions
<1>8. \A j \in Keys : (\A i \in 1..Len(X) : X[i].key # j) /\ known'[j] > ticks =>
        Cardinality(since'[j]) >= Capacity
  <2> SUFFICES ASSUME NEW j \in Keys, \A i \in 1..Len(X) : X[i].key # j, known'[j] > ticks
               PROVE  Cardinality(since'[j]) >= Capacity
    OBVIOUS
  <2>1. j # k /\ Cardinality(since[j]) >= Capacity
    BY <1>7 DEF LruGuarantee
  <2>. QED
    BY <1>2, <1>3, <2>1
<1>9. CASE Len(X) <= Capacity
  <2>1. entries' = X
    BY <1>2, <1>4, <1>9 DEF Evicted
  <2>2. OrderInv'
    BY <1>1, <1>3, <1>6, <1>9, <2>1 DEF OrderInv
  <2>3. \A j \in Keys : Positions(j)' = {} => \A i \in 1..Len(X) : X[i].key # j
    BY <1>4, <2>1, LenProperties DEF Positions
  <2>4. LruGuarantee'
    BY <1>8, <2>3 DEF LruGuarantee
  <2>. QED
    BY <1>1, <2>1, <2>2, <2>4
<1>10. CASE Len(X) = Capacity + 1
  <2>1. /\ Evicted(X) = Tail(X) /\ EntriesSound(Tail(X), since') /\ Len(Tail(X)) = Capacity
        /\ \A i \in 1..Capacity : Tail(X)[i] = X[i + 1]
        /\ Cardinality(since'[X[1].key]) >= Capacity
    BY <1>1, <1>3, <1>10, EvictedIs
  <2>2. entries' = Tail(X) /\ Len(entries') = Capacity
    BY <1>4, <2>1
  <2>3. \A i \in 1..Capacity : i + 1 \in 1..Len(X) /\ entries'[i] = X[i + 1]
    BY <1>2, <1>10, <2>1, <2>2
  <2>4. OrderInv'
    <3>1. \A i \in 1..Len(entries') : known'[entries'[i].key] = entries'[i].expires_at
      BY <1>6, <2>2, <2>3
    <3>2. EntriesSound(entries', since')
      BY <2>1, <2>2
    <3>3. Len(entries') <= Capacity
      BY <1>2, <2>2
    <3>. QED
      BY <1>3, <3>1, <3>2, <3>3 DEF OrderInv
  <2>5. LruGuarantee'
    <3> SUFFICES ASSUME NEW j \in Keys, known'[j] > ticks, Positions(j)' = {}
                 PROVE  Cardinality(since'[j]) >= Capacity
      BY DEF LruGuarantee
    <3>1. DOMAIN entries' = 1..Capacity
      BY <2>1, <2>2, LenProperties DEF EntriesSound
    <3>2. \A i \in 1..Capacity : X[i + 1].key # j
      BY <2>3, <3>1 DEF Positions
    <3>3. CASE X[1].key = j
      BY <2>1, <3>3
    <3>4. CASE X[1].key # j
      <4>1. \A i \in 1..Len(X) : i = 1 \/ (i - 1 \in 1..Capacity /\ i = (i - 1) + 1)
        BY <1>2, <1>10
      <4>2. \A i \in 1..Len(X) : X[i].key # j
        BY <3>2, <3>4, <4>1
      <4>. QED
        BY <1>8, <4>2
    <3>. QED
      BY <3>3, <3>4
  <2>6. ASSUME NEW i \in 1..Len(entries')
        PROVE  entries'[i] = e \/ Old(entries'[i], k)
    <3>1. i + 1 \in 1..Len(X) /\ entries'[i] = X[i + 1]
      BY <2>2, <2>3
    <3>2. X[i + 1] = e \/ Old(X[i + 1], k)
      BY <1>1, <3>1
    <3>. QED
      BY <3>1, <3>2
  <2>. QED
    BY <2>4, <2>5, <2>6
<1>. QED
  BY <1>2, <1>4, <1>9, <1>10

(* What an expired hit and an invalidation do: the entry of the key goes,  *)
(* and nothing of it is live any more.                                     *)
LEMMA RemovedIs ==
  ASSUME OrderInv, LruGuarantee, NEW k \in Keys, entries' = Without(k),
         since' = since, ticks' = ticks, ticks \in Nat, known' \in [Keys -> Nat],
         known'[k] <= ticks \/ (Positions(k) = {} /\ known'[k] = known[k]),
         \A j \in Keys : j # k => known'[j] = known[j]
  PROVE  /\ OrderInv' /\ LruGuarantee'
         /\ \A i \in 1..Len(entries') : Old(entries'[i], k)
<1>1. /\ EntriesSound(entries, since) /\ Len(entries) \in Nat /\ Len(entries) <= Capacity
      /\ DOMAIN entries = 1..Len(entries) /\ Capacity \in Nat
  BY PlaceOf, CacheAssumption DEF OrderInv
<1>2. /\ entries' \in Seq(CacheEntry)
      /\ Len(entries') = IF Positions(k) = {} THEN Len(entries) ELSE Len(entries) - 1
      /\ \A i, j \in 1..Len(entries') : i < j =>
           \E m, n \in 1..Len(entries) : m < n /\ entries'[i] = entries[m] /\ entries'[j] = entries[n]
      /\ \A i \in 1..Len(entries') :
           entries'[i].key # k /\ \E m \in 1..Len(entries) : entries'[i] = entries[m]
      /\ \A m \in 1..Len(entries) : entries[m].key # k =>
           \E i \in 1..Len(entries') : entries'[i] = entries[m]
  <2>1. Dropped(entries', k)
    BY <1>1, WithoutIs
  <2>. QED
    BY <2>1 DEF Dropped
<1>3. \A i \in 1..Len(entries') : Old(entries'[i], k)
  <2>1. \A i \in 1..Len(entries') :
          entries'[i].key # k /\ \E m \in 1..Len(entries) : entries'[i] = entries[m]
    BY <1>2
  <2>. QED
    BY <2>1 DEF Old
<1>4. EntriesSound(entries', since')
  <2>1. \A i, j \in 1..Len(entries') : i < j =>
          entries'[i].key # entries'[j].key /\ entries'[j].key \in since[entries'[i].key]
    <3> SUFFICES ASSUME NEW i \in 1..Len(entries'), NEW j \in 1..Len(entries'), i < j
                 PROVE  entries'[i].key # entries'[j].key /\ entries'[j].key \in since[entries'[i].key]
      OBVIOUS
    <3>1. PICK m \in 1..Len(entries), n \in 1..Len(entries) :
            m < n /\ entries'[i] = entries[m] /\ entries'[j] = entries[n]
      BY <1>2
    <3>. QED
      BY <1>1, <3>1 DEF EntriesSound
  <2>2. entries' \in Seq(CacheEntry) /\ since' = since
    BY <1>2
  <2>. QED
    BY <2>1, <2>2 DEF EntriesSound
<1>5. \A i \in 1..Len(entries') : known'[entries'[i].key] = entries'[i].expires_at
  <2> SUFFICES ASSUME NEW i \in 1..Len(entries')
               PROVE  known'[entries'[i].key] = entries'[i].expires_at
    OBVIOUS
  <2>1. PICK m \in 1..Len(entries) : entries'[i] = entries[m] /\ entries[m].key # k
    BY <1>3 DEF Old
  <2>2. entries[m].key \in Keys
    <3>1. entries[m] \in CacheEntry
      BY <1>1, ElementOfSeq DEF EntriesSound
    <3>. QED
      BY <3>1 DEF CacheEntry
  <2>3. known[entries[m].key] = entries[m].expires_at
    BY DEF OrderInv
  <2>. QED
    BY <2>1, <2>2, <2>3
<1>6. OrderInv'
  <2>1. Len(entries') <= Capacity
    <3>1. Len(entries') = Len(entries) \/ Len(entries') = Len(entries) - 1
      BY <1>2
    <3>2. Len(entries) \in Nat /\ Len(entries) <= Capacity /\ Capacity \in Nat
      BY <1>1
    <3>. QED
      BY <3>1, <3>2
  <2>. QED
    BY <1>4, <1>5, <2>1 DEF OrderInv
<1>7. LruGuarantee'
  <2> SUFFICES ASSUME NEW j \in Keys, known'[j] > ticks, Positions(j)' = {}
               PROVE  Cardinality(since[j]) >= Capacity
    BY DEF LruGuarantee
  <2>1. DOMAIN entries' = 1..Len(entries')
    BY <1>2, LenProperties
  <2>2. CASE j = k
    <3>1. Positions(k) = {} /\ known[k] > ticks
      BY <2>2
    <3>. QED
      BY <2>2, <3>1 DEF LruGuarantee
  <2>3. CASE j # k
    <3>1. \A m \in 1..Len(entries) : entries[m].key # j
      <4>1. \A i \in 1..Len(entries') : entries'[i].key # j
        BY <2>1 DEF Positions
      <4>2. \A m \in 1..Len(entries) : entries[m].key # k =>
              \E i \in 1..Len(entries') : entries'[i] = entries[m]
        BY <1>2
      <4>. QED
        BY <2>3, <4>1, <4>2
    <3>2. Positions(j) = {} /\ known[j] > ticks
      BY <1>1, <2>3, <3>1 DEF Positions
    <3>. QED
      BY <3>2 DEF LruGuarantee
  <2>. QED
    BY <2>2, <2>3
<1>. QED
  BY <1>3, <1>6, <1>7

-----------------------------------------------------------------------------
(* The steps. *)

ClientRecord == [at : CacheSpots, key : Keys \cup {Resting.key}, moment : Nat,
                 value : Nat, late : BOOLEAN]

LEMMA CInit == CacheInit => CInv
<1> SUFFICES ASSUME CacheInit PROVE CInv
  OBVIOUS
<1> USE CacheAssumption DEF CacheInit
<1>1. ClientInv
  BY DEF ClientInv, Resting, CacheSpots
<1>2. Len(entries) = 0 /\ entries \in Seq(CacheEntry)
  OBVIOUS
<1>3. OrderInv
  <2>1. \A k \in Keys : IsFiniteSet(since[k])
    BY FS_EmptySet
  <2>2. EntriesSound(entries, since)
    BY <1>2 DEF EntriesSound
  <2>. QED
    BY <1>2, <2>1, <2>2 DEF OrderInv
<1>4. LruGuarantee
  BY DEF LruGuarantee
<1>5. StaleInv
  BY <1>2 DEF StaleInv, Resting
<1>. QED
  BY <1>1, <1>3, <1>4, <1>5 DEF CInv

LEMMA CAsk ==
  ASSUME CInv, NEW c \in Clients, NEW k \in Keys, Ask(c, k)
  PROVE  CInv'
<1> USE DEF Ask
<1>1. client[c] \in ClientRecord /\ ticks \in Nat
  BY CacheAssumption DEF CInv, ClientInv, ClientRecord
<1>2. /\ client' \in [Clients -> ClientRecord] /\ client'[c].at = "asked" /\ client'[c].key = k
      /\ client'[c].moment = ticks
      /\ \A d \in Clients : d # c => client'[d] = client[d]
  BY <1>1 DEF CInv, ClientInv, ClientRecord, CacheSpots
<1>3. ClientInv'
  BY <1>1, <1>2 DEF CInv, ClientInv, ClientRecord
<1>4. OrderInv' /\ LruGuarantee'
  BY DEF CInv, OrderInv, LruGuarantee, EntriesSound, Positions
<1>5. StaleInv'
  BY <1>2 DEF CInv, StaleInv, Fresh
<1>. QED
  BY <1>3, <1>4, <1>5 DEF CInv

LEMMA CCompute ==
  ASSUME CInv, NEW c \in Clients, Compute(c)
  PROVE  CInv'
<1> USE DEF Compute
<1>1. /\ client[c] \in ClientRecord /\ ticks \in Nat /\ client[c].key \in Keys
      /\ source[client[c].key] \in Nat
  BY CacheAssumption DEF CInv, ClientInv, ClientRecord
<1>2. /\ client' \in [Clients -> ClientRecord] /\ client'[c].key = client[c].key
      /\ client'[c].value = source[client[c].key] /\ client'[c].moment = ticks
      /\ \A d \in Clients : d # c => client'[d] = client[d]
  BY <1>1 DEF CInv, ClientInv, ClientRecord, CacheSpots
<1>3. ClientInv'
  BY <1>1, <1>2 DEF CInv, ClientInv, ClientRecord
<1>4. OrderInv' /\ LruGuarantee'
  BY DEF CInv, OrderInv, LruGuarantee, EntriesSound, Positions
<1>5. StaleInv'
  BY <1>2 DEF CInv, StaleInv, Fresh
<1>. QED
  BY <1>3, <1>4, <1>5 DEF CInv

LEMMA CGet ==
  ASSUME CInv, NEW c \in Clients, Get(c)
  PROVE  CInv'
<1> DEFINE k == client[c].key
<1>1. /\ client[c] \in ClientRecord /\ ticks \in Nat /\ k \in Keys /\ client[c].moment <= ticks
      /\ client[c].moment \in Nat /\ OrderInv /\ LruGuarantee /\ known \in [Keys -> Nat]
      /\ UNCHANGED <<ticks, source, unsaid, known>>
  BY CacheAssumption DEF CInv, ClientInv, ClientRecord, Get, OrderInv
<1>2. EntriesSound(entries, since)
  BY <1>1 DEF OrderInv
<1>3. Positions(k) # {} => /\ Place(k) \in 1..Len(entries) /\ Entry(k).key = k
                           /\ Entry(k) \in CacheEntry /\ known[k] = Entry(k).expires_at
  <2>1. Positions(k) # {} => Place(k) \in 1..Len(entries) /\ Entry(k).key = k
    BY <1>2, PlaceOf
  <2>2. \A i \in 1..Len(entries) : entries[i] \in CacheEntry /\ known[entries[i].key] = entries[i].expires_at
    BY <1>1, ElementOfSeq DEF OrderInv, EntriesSound
  <2>. QED
    BY <2>1, <2>2 DEF Entry
<1>4. CASE Positions(k) # {} /\ Entry(k).expires_at > client[c].moment
  <2>1. entries' = Append(Without(k), Entry(k)) /\ Use(k) /\ client' = [client EXCEPT ![c] = Resting]
    BY <1>4 DEF Get, move_to_end
  <2>2. Len(Append(Without(k), Entry(k))) = Len(entries)
    <3>1. Renewed(Append(Without(k), Entry(k)), Entry(k), k)
      BY <1>1, <1>3, <1>4, <2>1, PutLast
    <3>. QED
      BY <1>4, <3>1 DEF Renewed
  <2>3. entries' = Evicted(Append(Without(k), Entry(k)))
    <3>1. Len(entries) <= Capacity /\ Len(entries) \in Nat /\ Capacity \in Nat
      BY <1>1, <1>2, PlaceOf, CacheAssumption DEF OrderInv
    <3>. QED
      BY <2>1, <2>2, <3>1 DEF Evicted
  <2>4. /\ OrderInv' /\ LruGuarantee'
        /\ \A i \in 1..Len(entries') : entries'[i] = Entry(k) \/ Old(entries'[i], k)
    BY <1>1, <1>3, <1>4, <2>1, <2>3, UsedIs
  <2>5. ClientInv'
    BY <1>1, <2>1 DEF CInv, ClientInv, Resting, CacheSpots
  <2>6. StaleInv'
    <3>1. \A i \in 1..Len(entries') : \E m \in 1..Len(entries) : entries'[i] = entries[m]
      BY <1>3, <1>4, <2>4 DEF Old, Entry
    <3>. QED
      BY <1>1, <2>1, <3>1 DEF CInv, StaleInv, ClientInv, Resting
  <2>. QED
    BY <2>4, <2>5, <2>6 DEF CInv
<1>5. CASE ~(Positions(k) # {} /\ Entry(k).expires_at > client[c].moment)
  <2>1. /\ entries' = Without(k) /\ since' = since
        /\ client' = [client EXCEPT ![c] = [@ EXCEPT !.at = "computing", !.moment = 0]]
    BY <1>5 DEF Get
  <2>2. known[k] <= ticks \/ Positions(k) = {}
    <3>1. Positions(k) # {} => known[k] \in Nat /\ ~(known[k] > client[c].moment)
      BY <1>1, <1>3, <1>5
    <3>. QED
      BY <1>1, <3>1
  <2>3. /\ OrderInv' /\ LruGuarantee'
        /\ \A i \in 1..Len(entries') : Old(entries'[i], k)
    <3>1. known'[k] <= ticks \/ (Positions(k) = {} /\ known'[k] = known[k])
      BY <1>1, <2>2
    <3>2. \A j \in Keys : j # k => known'[j] = known[j]
      BY <1>1
    <3>3. known' \in [Keys -> Nat] /\ ticks' = ticks
      BY <1>1
    <3> HIDE DEF k
    <3>. QED
      BY <1>1, <2>1, <3>1, <3>2, <3>3, RemovedIs
  <2>4. /\ client' \in [Clients -> ClientRecord] /\ client'[c].at = "computing"
        /\ client'[c].key = k /\ client'[c].moment = 0
        /\ \A d \in Clients : d # c => client'[d] = client[d]
    BY <1>1, <2>1 DEF CInv, ClientInv, ClientRecord, CacheSpots
  <2>5. ClientInv'
    BY <1>1, <2>4 DEF CInv, ClientInv, ClientRecord
  <2>6. StaleInv'
    BY <1>1, <2>3, <2>4 DEF CInv, StaleInv, Old
  <2>. QED
    BY <2>3, <2>5, <2>6 DEF CInv
<1>. QED
  BY <1>4, <1>5

LEMMA CSetEntry ==
  ASSUME CInv, NEW c \in Clients, SetEntry(c)
  PROVE  CInv'
<1> DEFINE k == client[c].key
           e == [key |-> k, value |-> client[c].value, expires_at |-> client[c].moment + TTL,
                 late |-> client[c].late]
<1>1. /\ client[c] \in ClientRecord /\ ticks \in Nat /\ k \in Keys /\ TTL \in Nat
      /\ OrderInv /\ LruGuarantee /\ known \in [Keys -> Nat]
  BY CacheAssumption DEF CInv, ClientInv, ClientRecord, SetEntry, OrderInv
<1>2. /\ client[c].at = "computed" /\ entries' = Evicted(Append(Without(k), e)) /\ Use(k)
      /\ known' = [known EXCEPT ![k] = client[c].moment + TTL]
      /\ client' = [client EXCEPT ![c] = Resting]
      /\ UNCHANGED <<ticks, source, unsaid>>
  BY DEF SetEntry
<1>3. e \in CacheEntry /\ e.key = k /\ e.expires_at = client[c].moment + TTL
  BY <1>1 DEF CacheEntry, ClientRecord
<1>4. /\ known' \in [Keys -> Nat] /\ known'[k] = e.expires_at
      /\ \A j \in Keys : j # k => known'[j] = known[j]
  BY <1>1, <1>2 DEF ClientRecord
<1>5. Fresh(source, unsaid, k, e)
  BY <1>2 DEF CInv, StaleInv, Fresh
<1> HIDE DEF e, k
<1>6. /\ OrderInv' /\ LruGuarantee'
      /\ \A i \in 1..Len(entries') : entries'[i] = e \/ Old(entries'[i], k)
  BY <1>1, <1>2, <1>3, <1>4, UsedIs
<1>7. ClientInv'
  BY <1>1, <1>2 DEF CInv, ClientInv, Resting, CacheSpots
<1>8. StaleInv'
  <2>1. \A i \in 1..Len(entries') : Fresh(source, unsaid, entries'[i].key, entries'[i])
    BY <1>3, <1>5, <1>6 DEF CInv, StaleInv, Old
  <2>. QED
    BY <1>2, <2>1 DEF CInv, StaleInv, ClientInv, Resting
<1>. QED
  BY <1>6, <1>7, <1>8 DEF CInv

LEMMA CEdit ==
  ASSUME CInv, NEW k \in Keys, Edit(k)
  PROVE  CInv'
<1> USE DEF Edit
<1>1. ClientInv'
  BY CacheAssumption DEF CInv, ClientInv
<1>2. OrderInv' /\ LruGuarantee'
  BY DEF CInv, OrderInv, LruGuarantee, EntriesSound, Positions
<1>3. \A j, e : Fresh(source, unsaid, j, e) => Fresh(source', unsaid', j, e)
  BY DEF Fresh, CInv, ClientInv
<1>4. StaleInv'
  BY <1>3 DEF CInv, StaleInv
<1>. QED
  BY <1>1, <1>2, <1>4 DEF CInv

LEMMA CInvalidate ==
  ASSUME CInv, NEW k \in Keys, Invalidate(k)
  PROVE  CInv'
<1>1. /\ entries' = Without(k) /\ since' = since /\ ticks' = ticks /\ source' = source
      /\ unsaid' = unsaid \ {k} /\ known' = [known EXCEPT ![k] = 0]
  BY DEF Invalidate, Popped
<1>2. ticks \in Nat /\ OrderInv /\ LruGuarantee /\ known \in [Keys -> Nat]
  BY CacheAssumption DEF CInv, ClientInv, OrderInv
<1>3. /\ OrderInv' /\ LruGuarantee'
      /\ \A i \in 1..Len(entries') : Old(entries'[i], k)
  <2>1. known'[k] <= ticks /\ known' \in [Keys -> Nat] /\ \A j \in Keys : j # k => known'[j] = known[j]
    BY <1>1, <1>2
  <2>. QED
    BY <1>1, <1>2, <2>1, RemovedIs
<1>4. ASSUME NEW d \in Clients
      PROVE  /\ client'[d] \in ClientRecord
             /\ client'[d].at = client[d].at /\ client'[d].key = client[d].key
             /\ client'[d].moment = client[d].moment /\ client'[d].value = client[d].value
             /\ client'[d].late = (client[d].late \/ (client[d].key = k /\ client[d].at = "computed"))
  <2>1. client[d] \in ClientRecord
    BY DEF CInv, ClientInv, ClientRecord
  <2>2. client'[d] = [client[d] EXCEPT
                        !.late = client[d].late \/ (client[d].key = k /\ client[d].at = "computed")]
    BY DEF Invalidate
  <2>. QED
    BY <2>1, <2>2 DEF ClientRecord
<1>5. client' \in [Clients -> ClientRecord]
  <2>1. client' = [d \in Clients |-> client'[d]]
    BY DEF Invalidate
  <2>. QED
    BY <1>4, <2>1
<1>6. ClientInv'
  BY <1>1, <1>4, <1>5 DEF CInv, ClientInv, ClientRecord
<1>7. \A j, e, f : /\ j # k /\ Fresh(source, unsaid, j, e)
                    /\ f.value = e.value /\ (e.late => f.late) => Fresh(source', unsaid', j, f)
  BY <1>1 DEF Fresh
<1>8. \A i \in 1..Len(entries') : Fresh(source', unsaid', entries'[i].key, entries'[i])
  <2> SUFFICES ASSUME NEW i \in 1..Len(entries')
               PROVE  Fresh(source', unsaid', entries'[i].key, entries'[i])
    OBVIOUS
  <2>1. PICK m \in 1..Len(entries) : entries'[i] = entries[m] /\ entries[m].key # k
    BY <1>3 DEF Old
  <2>. QED
    BY <1>7, <2>1 DEF CInv, StaleInv
<1>9. ASSUME NEW d \in Clients, client'[d].at = "computed"
      PROVE  Fresh(source', unsaid', client'[d].key, client'[d])
  <2>1. CASE client[d].key = k
    BY <1>4, <1>9, <2>1 DEF Fresh
  <2>2. CASE client[d].key # k
    <3>1. Fresh(source, unsaid, client[d].key, client[d])
      BY <1>4, <1>9 DEF CInv, StaleInv
    <3>. QED
      BY <1>4, <1>7, <2>2, <3>1
  <2>. QED
    BY <2>1, <2>2
<1>10. StaleInv'
  BY <1>8, <1>9 DEF StaleInv
<1>. QED
  BY <1>3, <1>6, <1>10 DEF CInv

LEMMA CTick ==
  ASSUME CInv, CacheTick
  PROVE  CInv'
<1> USE DEF CacheTick
<1>1. ClientInv'
  BY CacheAssumption DEF CInv, ClientInv
<1>2. OrderInv'
  BY DEF CInv, OrderInv, EntriesSound
<1>3. LruGuarantee'
  <2>1. ticks \in Nat /\ known \in [Keys -> Nat] /\ ticks' = ticks + 1
    BY CacheAssumption DEF CInv, ClientInv, OrderInv
  <2>. QED
    BY <2>1 DEF CInv, LruGuarantee, Positions
<1>4. StaleInv'
  BY DEF CInv, StaleInv, Fresh
<1>. QED
  BY <1>1, <1>2, <1>3, <1>4 DEF CInv

LEMMA CNext == CInv /\ [CacheNext]_cacheVars => CInv'
<1> SUFFICES ASSUME CInv, [CacheNext]_cacheVars PROVE CInv'
  OBVIOUS
<1>1. CASE UNCHANGED cacheVars
  BY <1>1 DEF cacheVars, CInv, ClientInv, OrderInv, EntriesSound, LruGuarantee, Positions, StaleInv, Fresh
<1>. QED
  BY <1>1, CAsk, CGet, CCompute, CSetEntry, CEdit, CInvalidate, CTick DEF CacheNext

LEMMA CInvariance == CacheSpec => []CInv
<1>. QED
  BY CInit, CNext, PTL DEF CacheSpec

(* The cache keeps its type, and no more entries than it has room for.     *)
THEOREM CacheTypeCorrect == CacheSpec => []CacheTypeOK
<1>1. CInv => CacheTypeOK
  <2> SUFFICES ASSUME CInv PROVE CacheTypeOK
    OBVIOUS
  <2>1. \A k \in Keys : Cardinality(Positions(k)) <= 1
    <3> SUFFICES ASSUME NEW k \in Keys PROVE Cardinality(Positions(k)) <= 1
      OBVIOUS
    <3>1. CASE Positions(k) = {}
      BY <3>1, FS_EmptySet
    <3>2. CASE Positions(k) # {}
      <4>1. /\ DOMAIN entries = 1..Len(entries)
            /\ Place(k) \in 1..Len(entries) /\ entries[Place(k)].key = k
            /\ \A i \in 1..Len(entries) : entries[i].key = k => i = Place(k)
        BY <3>2, PlaceOf DEF CInv, OrderInv, Entry
      <4>2. Positions(k) = {Place(k)}
        BY <4>1 DEF Positions
      <4>3. Cardinality({Place(k)}) = 1
        BY FS_Singleton
      <4>. QED
        BY <4>2, <4>3
    <3>. QED
      BY <3>1, <3>2
  <2>. QED
    BY <2>1 DEF CInv, ClientInv, OrderInv, CacheTypeOK, CacheSpots
<1>. QED
  BY <1>1, CInvariance, PTL

(* What a live value is missing for, and what a stale one is there for.    *)
THEOREM CacheRemembers == CacheSpec => []CacheKept
<1>1. CInv => CacheKept
  <2> SUFFICES ASSUME CInv PROVE StaleOnlyByRace
    BY DEF CInv, CacheKept
  <2>1. DOMAIN entries = 1..Len(entries)
    BY PlaceOf DEF CInv, OrderInv
  <2>. QED
    BY <2>1 DEF CInv, StaleInv, Fresh, StaleOnlyByRace
<1>. QED
  BY <1>1, CInvariance, PTL
=============================================================================
