--------------------------- MODULE PolicyVersions ---------------------------
(***************************************************************************)
(* PolicyService.set and activate on the policy versions of one workspace, *)
(* each in a READ COMMITTED transaction of its own.                        *)
(*                                                                         *)
(* Both read first and write later: set() computes the version number from *)
(* the rows it sees, activate() looks whether its target is active.  What  *)
(* keeps the table sound is the database: the UPDATE that clears the flag  *)
(* picks its rows from a snapshot, waits for the transactions that hold    *)
(* them and tests them again; the unique indexes on version and on the     *)
(* active row make a writer wait for whoever may yet conflict with it, and *)
(* refuse it if that one commits.  A refused statement raises, and the     *)
(* request is rolled back.                                                 *)
(***************************************************************************)
EXTENDS Integers, FiniteSets, FiniteSetsExt

CONSTANTS
  Sessions,            \* transactions that may be open at the same time
  MaxVersions          \* bound: versions a workspace collects

ASSUME PolicyAssumption == MaxVersions \in Nat

VARIABLES
  versions, active,    \* committed rows, and those with the flag
  named,               \* the version the last audited change of the flag names
  inserts,             \* history: committed INSERTs
  pc,                  \* the next statement of a session's transaction
  op,                  \* "set", "draft" (set without activating), "activate", "noop"
  ver,                 \* the version it inserts or activates
  hit,                 \* rows its UPDATE found active when it started
  off                  \* rows its UPDATE has cleared

policyTableVars == <<versions, active, named, inserts>>
txVars          == <<pc, op, ver, hit, off>>
policyVars      == <<policyTableVars, txVars>>

Ops == {"set", "draft", "activate", "noop"}

PolicyInit ==
  /\ versions = {} /\ active = {}
  /\ named = 0 /\ inserts = 0
  /\ pc  = [s \in Sessions |-> "idle"]
  /\ op  = [s \in Sessions |-> "noop"]
  /\ ver = [s \in Sessions |-> 0]
  /\ hit = [s \in Sessions |-> {}]
  /\ off = [s \in Sessions |-> {}]

-----------------------------------------------------------------------------
(* What a transaction holds, and for whom it waits. *)

Inserts(s)   == op[s] \in {"set", "draft"}
Activates(s) == op[s] \in {"set", "activate"}

(* The row it inserted, or locked to set its flag.  (A definition whose    *)
(* name ends in _Mutant is the next one with a slip in it and no part of   *)
(* the model.)                                                             *)
Key_Mutant(s) == IF Activates(s) THEN {ver[s]} ELSE {}
Key(s) == IF pc[s] \in {"keyed", "done"} /\ op[s] # "noop" THEN {ver[s]} ELSE {}
Locks(s) == off[s] \cup Key(s)
Flagged(s) == IF pc[s] = "done" /\ Activates(s) THEN {ver[s]} ELSE {}

(* Rows that the index on the active row does not let its own row join.    *)
Rivals_Mutant(s) == {}
Rivals(s) == active \ (off[s] \cup {ver[s]})

Needs(s, o) ==
  \/ pc[s] = "wait"  /\ hit[s] \cap Locks(o) # {}
  \/ pc[s] = "write" /\ ver[s] \in Locks(o)
  \/ pc[s] = "keyed" /\ (Rivals(s) \cap Locks(o) # {} \/ Flagged(o) # {})

WaitsFor(s) == {o \in Sessions \ {s} : Needs(s, o)}

-----------------------------------------------------------------------------
(* The statements. *)

Goto(s, l) == pc' = [pc EXCEPT ![s] = l]

BeginPolicy(s, what, v, first) ==
  /\ pc[s] = "idle"
  /\ op'  = [op  EXCEPT ![s] = what]
  /\ ver' = [ver EXCEPT ![s] = v]
  /\ Goto(s, first)
  /\ UNCHANGED <<policyTableVars, hit, off>>

(* _next_version: the latest version the session sees, plus one. *)
NextVersion == Max(versions \cup {0}) + 1

SetPolicy(s, activate) ==
  /\ NextVersion <= MaxVersions
  /\ IF activate THEN BeginPolicy(s, "set", NextVersion, "clear")
                 ELSE BeginPolicy(s, "draft", NextVersion, "write")

(* activate() of a version that is active writes its audit event only. *)
Activate(s, v) ==
  /\ v \in versions
  /\ IF v \in active THEN BeginPolicy(s, "noop", v, "done")
                     ELSE BeginPolicy(s, "activate", v, "clear")

(* UPDATE ... SET active = false WHERE active: first the rows it sees, ... *)
FindActive(s) ==
  /\ pc[s] = "clear"
  /\ hit' = [hit EXCEPT ![s] = active]
  /\ Goto(s, "wait")
  /\ UNCHANGED <<policyTableVars, op, ver, off>>

(* ... then, when nobody holds them, those that are still active. *)
StillActive(s) == hit[s] \cap active

ClearActive(s) ==
  /\ pc[s] = "wait" /\ WaitsFor(s) = {}
  /\ off' = [off EXCEPT ![s] = StillActive(s)]
  /\ Goto(s, "write")
  /\ UNCHANGED <<policyTableVars, op, ver, hit>>

(* The INSERT enters the index on (workspace_id, version), or the UPDATE   *)
(* of the target locks its row.                                            *)
Unique_Mutant(s) == TRUE
Unique(s) == Inserts(s) => ver[s] \notin versions

TakeKey(s) ==
  /\ pc[s] = "write" /\ WaitsFor(s) = {}
  /\ Unique(s)
  /\ Goto(s, IF Activates(s) THEN "keyed" ELSE "done")
  /\ UNCHANGED <<policyTableVars, op, ver, hit, off>>

(* ... and then the index on the active row. *)
RaiseFlag(s) ==
  /\ pc[s] = "keyed" /\ WaitsFor(s) = {}
  /\ Rivals(s) = {}
  /\ Goto(s, "done")
  /\ UNCHANGED <<policyTableVars, op, ver, hit, off>>

EndPolicy(s) ==
  /\ Goto(s, "idle")
  /\ op'  = [op  EXCEPT ![s] = "noop"]
  /\ ver' = [ver EXCEPT ![s] = 0]
  /\ hit' = [hit EXCEPT ![s] = {}]
  /\ off' = [off EXCEPT ![s] = {}]

Inserted_Mutant(s) == IF op[s] = "draft" THEN {ver[s]} ELSE {}
Inserted(s) == IF Inserts(s) THEN {ver[s]} ELSE {}

CommitPolicy(s) ==
  /\ pc[s] = "done"
  /\ versions' = versions \cup Inserted(s)
  /\ inserts'  = IF Inserts(s) THEN inserts + 1 ELSE inserts
  /\ active'   = (active \ off[s]) \cup Flagged(s)
  /\ named'    = IF Activates(s) THEN ver[s] ELSE named
  /\ EndPolicy(s)

(* A constraint violated, a deadlock the database broke, an exception. *)
AbortPolicy(s) ==
  /\ pc[s] # "idle"
  /\ EndPolicy(s)
  /\ UNCHANGED policyTableVars

PolicyNext ==
  \E s \in Sessions :
    \/ \E act \in BOOLEAN : SetPolicy(s, act)
    \/ \E v \in versions : Activate(s, v)
    \/ FindActive(s) \/ ClearActive(s) \/ TakeKey(s) \/ RaiseFlag(s)
    \/ CommitPolicy(s) \/ AbortPolicy(s)

PolicySpec == PolicyInit /\ [][PolicyNext]_policyVars

-----------------------------------------------------------------------------
PolicyTypeOK ==
  /\ versions \subseteq 1..MaxVersions
  /\ active \subseteq versions
  /\ named \in versions \cup {0}
  /\ inserts \in Nat
  /\ pc \in [Sessions -> {"idle", "clear", "wait", "write", "keyed", "done"}]
  /\ op \in [Sessions -> Ops]
  /\ ver \in [Sessions -> 0..MaxVersions]
  /\ hit \in [Sessions -> SUBSET versions]
  /\ off \in [Sessions -> SUBSET versions]

(* Exactly one version is active from the first activation on, and it is   *)
(* the one the audit log names last ("exactly one active version per       *)
(* workspace", "every change is auditable"): no race of set() and          *)
(* activate() leaves two, none, or one that nobody's log entry explains.   *)
(* Entries of calls that found their target active are not counted: such a *)
(* call may be logged after another version has taken its place.           *)
ActiveIsAudited == active = IF named = 0 THEN {} ELSE {named}

(* Version numbers are dense and never given out twice, though they are    *)
(* computed from what each session happens to see.                         *)
VersionsDense == versions = 1..inserts

(* Policy changes wait for each other in a circle only if one of them, at  *)
(* the index on the active row, has cleared no flag: the version it found  *)
(* active, if it found one, had lost its flag while it waited, and the one *)
(* that took over has to be cleared by another session.                    *)
DeadlockNeedsEmptyUpdate ==
  \A D \in (SUBSET Sessions) \ {{}} :
    (\A s \in D : WaitsFor(s) \cap D # {}) =>
      \E s \in D : pc[s] = "keyed" /\ off[s] = {}

(* One active version, the audited one; dense numbers; and no circle of    *)
(* waits but the one above.                                                *)
PoliciesKept == ActiveIsAudited /\ VersionsDense /\ DeadlockNeedsEmptyUpdate
=============================================================================
