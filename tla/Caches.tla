------------------------------- MODULE Caches -------------------------------
(***************************************************************************)
(* LruCache under several threads: get, set and invalidate each under the  *)
(* lock, get_or_compute as a get, a computation outside the lock and a     *)
(* set, and an owner that edits what is cached and then invalidates it, as *)
(* PlanReuseCache asks of its callers.  The moment an operation goes by is *)
(* read before it takes the lock.                                          *)
(***************************************************************************)
EXTENDS Integers, Sequences, FiniteSets, SequencesExt

CONSTANTS
  Keys, Clients,
  Capacity, TTL,
  CacheTime,           \* bound of the clock
  Edited, MaxEdits     \* bounds: the keys whose source is edited, and how often

ASSUME CacheAssumption ==
  /\ {TTL, CacheTime, MaxEdits} \subseteq Nat /\ Capacity \in Nat \ {0}
  /\ Edited \subseteq Keys

VARIABLES
  ticks,               \* the clock
  source, unsaid,      \* edits made to what a key stands for; keys edited but not
                       \* yet invalidated
  entries,             \* the OrderedDict: [key, value, expires_at, late], oldest first
  client,              \* what a client is at: [at, key, moment, value, late]
  since, known         \* history: the keys hit or set since a key last was, and when
                       \* what was last set for it expires (0: it was invalidated)

cacheVars == <<ticks, source, unsaid, entries, client, since, known>>

Resting == [at |-> "rest", key |-> CHOOSE k \in Keys : TRUE, moment |-> 0, value |-> 0,
            late |-> FALSE]

CacheInit ==
  /\ ticks = 0 /\ entries = <<>> /\ unsaid = {}
  /\ source = [k \in Keys |-> 0]
  /\ client = [c \in Clients |-> Resting]
  /\ since = [k \in Keys |-> {}]
  /\ known = [k \in Keys |-> 0]

Positions(k) == {i \in DOMAIN entries : entries[i].key = k}
Place(k)     == CHOOSE i \in Positions(k) : TRUE
Entry(k)     == entries[Place(k)]
Without(k)   == IF Positions(k) = {} THEN entries ELSE RemoveAt(entries, Place(k))
Use(k)       == since' = [j \in Keys |-> IF j = k THEN {} ELSE since[j] \cup {k}]

(* get_or_compute(): the moment, ... *)
Ask(c, k) ==
  /\ client[c] = Resting
  /\ client' = [client EXCEPT ![c] = [@ EXCEPT !.at = "asked", !.key = k, !.moment = ticks]]
  /\ UNCHANGED <<ticks, source, unsaid, entries, since, known>>

(* ... get(): a hit, which makes the entry the youngest, an entry that has *)
(* expired, which is removed, or a miss, ...  (A definition whose name     *)
(* ends in _Mutant is the next one with a slip in it and no part of the    *)
(* model.)                                                                 *)
move_to_end_Mutant(k) == entries
move_to_end(k) == Append(Without(k), Entry(k))

Get(c) ==
  LET k == client[c].key IN
  /\ client[c].at = "asked"
  /\ IF Positions(k) # {} /\ Entry(k).expires_at > client[c].moment
       THEN /\ entries' = move_to_end(k) /\ Use(k)
            /\ client' = [client EXCEPT ![c] = Resting]
       ELSE /\ entries' = Without(k)
            /\ client' = [client EXCEPT ![c] = [@ EXCEPT !.at = "computing", !.moment = 0]]
            /\ UNCHANGED since
  /\ UNCHANGED <<ticks, source, unsaid, known>>

(* ... the factory, ... *)
Compute(c) ==
  /\ client[c].at = "computing"
  /\ client' = [client EXCEPT ![c] = [@ EXCEPT
                  !.at = "computed", !.value = source[client[c].key], !.moment = ticks]]
  /\ UNCHANGED <<ticks, source, unsaid, entries, since, known>>

(* ... and set(), with the eviction of the oldest. *)
Evicted(es) == IF Len(es) > Capacity THEN Tail(es) ELSE es

SetEntry(c) ==
  LET k == client[c].key
      e == [key |-> k, value |-> client[c].value, expires_at |-> client[c].moment + TTL,
            late |-> client[c].late]
  IN /\ client[c].at = "computed"
     /\ entries' = Evicted(Append(Without(k), e)) /\ Use(k)
     /\ known' = [known EXCEPT ![k] = client[c].moment + TTL]
     /\ client' = [client EXCEPT ![c] = Resting]
     /\ UNCHANGED <<ticks, source, unsaid>>

Edit(k) ==
  /\ k \in Edited \ unsaid /\ source[k] < MaxEdits
  /\ source' = [source EXCEPT ![k] = @ + 1]
  /\ unsaid' = unsaid \cup {k}
  /\ UNCHANGED <<ticks, entries, client, since, known>>

Popped_Mutant(k) == entries
Popped(k) == Without(k)

Invalidate(k) ==
  /\ k \in unsaid
  /\ unsaid' = unsaid \ {k}
  /\ entries' = Popped(k)
  /\ known' = [known EXCEPT ![k] = 0]
  /\ client' = [c \in Clients |-> [client[c] EXCEPT
                  !.late = @ \/ (client[c].key = k /\ client[c].at = "computed")]]
  /\ UNCHANGED <<ticks, source, since>>

CacheTick == ticks < CacheTime /\ ticks' = ticks + 1
             /\ UNCHANGED <<source, unsaid, entries, client, since, known>>

CacheNext ==
  \/ \E c \in Clients : (\E k \in Keys : Ask(c, k)) \/ Get(c) \/ Compute(c) \/ SetEntry(c)
  \/ \E k \in Keys : Edit(k) \/ Invalidate(k)
  \/ CacheTick

CacheSpec == CacheInit /\ [][CacheNext]_cacheVars

-----------------------------------------------------------------------------
CacheTypeOK ==
  /\ ticks \in 0..CacheTime
  /\ since \in [Keys -> SUBSET Keys]
  /\ \A k \in Keys : Cardinality(Positions(k)) <= 1
  /\ Len(entries) <= Capacity
  /\ \A c \in Clients : client[c].at \in {"rest", "asked", "computing", "computed"}

(* A value that is live is missing from the cache only if Capacity other   *)
(* keys have been used since it was ("once exceeded the least-recently-    *)
(* used entry is evicted"): an expired entry keeps its place until it is   *)
(* read, but no use of a key is forgotten.                                 *)
LruGuarantee ==
  \A k \in Keys :
    known[k] > ticks /\ Positions(k) = {} => Cardinality(since[k]) >= Capacity

(* What is cached is what the source says, unless its owner has yet to     *)
(* invalidate the edit, or a client had computed it when that happened and *)
(* set it afterwards ("callers invalidate explicitly when the requirement  *)
(* is edited").                                                            *)
StaleOnlyByRace ==
  \A i \in DOMAIN entries :
    LET e == entries[i] IN
    e.value = source[e.key] \/ e.key \in unsaid \/ e.late

CacheKept == LruGuarantee /\ StaleOnlyByRace
=============================================================================
