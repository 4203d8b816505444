------------------------------ MODULE Retention ------------------------------
(***************************************************************************)
(* RetentionSweepService.sweep over the tables of a database: one          *)
(* transaction that goes through the retention classes in the order of the *)
(* registry, counts the rows of each that are past their window in one     *)
(* statement and deletes them in another, and leaves it to the foreign     *)
(* keys what becomes of the rows that refer to them.  Each statement sees  *)
(* what other transactions have committed by then: they insert rows, also  *)
(* such as were observed long ago, and activate policies with other        *)
(* windows.                                                                *)
(***************************************************************************)
EXTENDS Schema, Integers, FiniteSetsExt

CONSTANTS
  Database,            \* the tables there are, by name, in the terms of Schema
  Rows,                \* what rows there may be: [table, workspace, refs] by name
  Quarter, Year,       \* the default windows of 90 and 365 days
  Windows,             \* windows a policy may set
  LastDay,             \* bound of the clock
  Absent, NULL         \* the day of a row that is not there; no workspace, no reference

ASSUME RetentionAssumption ==
  /\ {Quarter, Year, LastDay} \cup Windows \subseteq Nat
  /\ Absent \notin Nat /\ IsFiniteSet(DOMAIN Rows) /\ NULL \notin DOMAIN Rows

VARIABLES
  day,                 \* the clock
  created,             \* the observed column of each row
  refers,              \* what each foreign key of a row holds
  windows,             \* the retention section of the active policies, by workspace
  sweep                \* the sweep under way

retentionVars == <<day, created, refers, windows, sweep>>

RowNames   == DOMAIN Rows
Workspaces == {Rows[r].workspace : r \in RowNames} \ {NULL}
Present(r) == created[r] # Absent
Table(r)   == Rows[r].table

Class(name, column, days, locked) ==
  [name |-> name, column |-> column, days |-> days, locked |-> locked]

(* DEFAULT_RETENTION_CLASSES, in their order. *)
Classes ==
  << Class("audit_events",            "created_at",   7 * Year, TRUE),
     Class("test_runs",               "created_at",   Quarter,  FALSE),
     Class("agent_tasks",             "created_at",   Quarter,  FALSE),
     Class("evidence_artifacts",      "created_at",   Quarter,  FALSE),
     Class("failure_classifications", "created_at",   Quarter,  FALSE),
     Class("flakiness_observations",  "observed_at",  Quarter,  FALSE),
     Class("agent_feedback",          "submitted_at", Year,     FALSE),
     Class("usage_records",           "created_at",   Year,     FALSE),
     Class("external_issues",         "created_at",   Year,     FALSE) >>

OVERRIDABLE_RETENTION_CLASSES ==
  {"test_runs", "flakiness_observations", "agent_feedback", "external_issues", "usage_records"}

(* A sweep: the class it is at, its time and the windows it began with;    *)
(* which buckets of the class it still has to do, and which it has counted *)
(* and now deletes; the rows that are gone for it, and the sums it will    *)
(* tell.  due remembers the rows that were past their window as it began.  *)
NoSweep == [at |-> 0, now |-> 0, dry |-> FALSE, windows |-> Nil, buckets |-> {},
            counted |-> {}, due |-> {}, gone |-> {}, would |-> 0, deleted |-> 0]
Sweeping == sweep # NoSweep

RetentionInit ==
  /\ day = 0
  /\ created = [r \in RowNames |-> Absent]
  /\ refers  = [r \in RowNames |-> Rows[r].refs]
  /\ windows = [w \in Workspaces |-> Nil]
  /\ sweep   = NoSweep

-----------------------------------------------------------------------------
(* The other transactions.  The time of a row is that of its transaction;  *)
(* an observation has the one its caller gives it (`observed_at or now`).  *)
Observable(r) == IF Table(r) = "flakiness_observations" THEN 0..LastDay ELSE {day}

(* An INSERT locks the rows it refers to: it waits for a sweep that has    *)
(* deleted one, and fails.                                                 *)
InsertRow(r) ==
  /\ ~Present(r) /\ Table(r) # "audit_events"
  /\ \A c \in DOMAIN Rows[r].refs :
       Present(Rows[r].refs[c]) /\ Rows[r].refs[c] \notin sweep.gone
  /\ \E d \in Observable(r) : created' = [created EXCEPT ![r] = d]
  /\ refers'  = [refers  EXCEPT ![r] = Rows[r].refs]
  /\ UNCHANGED <<day, windows, sweep>>

(* The policy schema has seen to it that only these classes are named;     *)
(* those that no row is of would make no difference.                       *)
Sweepable == OVERRIDABLE_RETENTION_CLASSES \cap {Table(r) : r \in RowNames}

SetWindow(w, cls, days) ==
  /\ windows[w] = Nil
  /\ windows' = [windows EXCEPT ![w] = [c \in {cls} |-> days]]
  /\ UNCHANGED <<day, created, refers, sweep>>

NightFalls == day < LastDay /\ day' = day + 1 /\ UNCHANGED <<created, refers, windows, sweep>>

-----------------------------------------------------------------------------
(* The sweep.  (A definition whose name ends in _Mutant is the next one    *)
(* with a slip in it and no part of the model.)                            *)

(* The window that governs a row: its workspace's, or its class's.         *)
Window(r, policy) ==
  LET cls == CHOOSE k \in ToSet(Classes) : k.name = Table(r)
      w   == Rows[r].workspace
  IN  IF w # NULL /\ cls.name \in DOMAIN policy[w] THEN policy[w][cls.name] ELSE cls.days
Expired(r, policy, now) == /\ Present(r)
                           /\ \E k \in ToSet(Classes) : k.name = Table(r) /\ ~k.locked
                           /\ now - created[r] > Window(r, policy)

(* _class_overrides: the workspaces with a window of their own. *)
Overriding(cls, policy) ==
  IF cls.locked \/ cls.name \notin OVERRIDABLE_RETENTION_CLASSES
    THEN {} ELSE {w \in DOMAIN policy : cls.name \in DOMAIN policy[w]}

(* _plan_buckets: all workspaces but those, and each of those. *)
Buckets(i, policy) ==
  IF i \in DOMAIN Classes THEN {NULL} \cup Overriding(Classes[i], policy) ELSE {}
SweepBucket(cls, w) ==
  IF w = NULL THEN [cutoff |-> sweep.now - cls.days, workspace |-> NULL,
                    exclude |-> Overriding(cls, sweep.windows)]
              ELSE [cutoff |-> sweep.now - sweep.windows[w][cls.name], workspace |-> w,
                    exclude |-> {}]

(* _bucket_predicate; `ws NOT IN (...)` alone is not true of a NULL. *)
InBucket_Mutant(r, b) ==
  /\ created[r] < b.cutoff
  /\ IF b.workspace = NULL THEN b.exclude # {} => Rows[r].workspace \notin b.exclude \cup {NULL}
                           ELSE Rows[r].workspace = b.workspace
InBucket(r, b) ==
  /\ created[r] < b.cutoff
  /\ IF b.workspace = NULL THEN Rows[r].workspace \notin b.exclude
                           ELSE Rows[r].workspace = b.workspace

Aged(cls, w) == {r \in RowNames \ sweep.gone :
                   Present(r) /\ Table(r) = cls.name /\ InBucket(r, SweepBucket(cls, w))}

(* A DELETE takes with it the rows whose reference cascades. *)
Refer(rows, onDelete) ==
  {r \in RowNames : /\ Present(r)
                    /\ \E c \in DOMAIN refers[r] :
                         refers[r][c] \in rows /\ Database[Table(r)].fks[c][2] = onDelete}
Cascade(rows) ==
  LET Grown[n \in 0..Cardinality(RowNames)] ==
        IF n = 0 THEN rows ELSE Grown[n - 1] \cup Refer(Grown[n - 1], "CASCADE")
  IN  Grown[Cardinality(RowNames)]

Start(dry) ==
  /\ ~Sweeping
  /\ sweep' = [NoSweep EXCEPT !.at = 1, !.now = day, !.dry = dry, !.windows = windows,
                              !.buckets = Buckets(1, windows),
                              !.due = {r \in RowNames : Expired(r, windows, day)}]
  /\ UNCHANGED <<day, created, refers, windows>>

(* _sweep_class and _count_and_delete.  The class that is compliance       *)
(* locked is passed over.                                                  *)
AtClass(cls) == Sweeping /\ sweep.at \in DOMAIN Classes /\ cls = Classes[sweep.at]
NextClass(s) == [s EXCEPT !.at = @ + 1, !.buckets = Buckets(s.at + 1, s.windows), !.counted = {}]
NextBucket(s, w) ==
  IF s.buckets = {w} THEN NextClass(s) ELSE [s EXCEPT !.buckets = @ \ {w}, !.counted = {}]

SkipLocked ==
  /\ \E cls \in ToSet(Classes) : AtClass(cls) /\ cls.locked
  /\ sweep' = NextClass(sweep)
  /\ UNCHANGED <<day, created, refers, windows>>

(* A table without the column makes the statement fail, and with it the    *)
(* sweep.                                                                  *)
Selectable(cls) == cls.column \in Columns(Database[cls.name])

CountBucket(cls, w) ==
  /\ AtClass(cls) /\ ~cls.locked /\ Selectable(cls)
  /\ w \in sweep.buckets /\ (NULL \in sweep.buckets => w = NULL)
  /\ sweep.counted = {}
  /\ LET n == Cardinality(Aged(cls, w))
         s == [sweep EXCEPT !.would = @ + n]
     IN  sweep' = IF sweep.dry \/ n = 0 THEN NextBucket(s, w) ELSE [s EXCEPT !.counted = {w}]
  /\ UNCHANGED <<day, created, refers, windows>>

DeleteBucket(cls, w) ==
  /\ AtClass(cls) /\ w \in sweep.counted
  /\ LET aged == Aged(cls, w) IN
       sweep' = NextBucket([sweep EXCEPT !.deleted = @ + Cardinality(aged),
                                         !.gone = @ \cup Cascade(aged)], w)
  /\ UNCHANGED <<day, created, refers, windows>>

(* The commit, with the sweep's own audit event. *)
SweepCommits ==
  /\ sweep.at > Len(Classes)
  /\ created' = [r \in RowNames |-> IF r \in sweep.gone THEN Absent
                                   ELSE IF Table(r) = "audit_events" /\ ~Present(r) THEN day
                                   ELSE created[r]]
  /\ refers' = [r \in RowNames |-> [c \in DOMAIN refers[r] |->
                  IF refers[r][c] \in sweep.gone THEN NULL ELSE refers[r][c]]]
  /\ sweep' = NoSweep
  /\ UNCHANGED <<day, windows>>

SweepFails == Sweeping /\ sweep' = NoSweep /\ UNCHANGED <<day, created, refers, windows>>

RetentionNext ==
  \/ \E r \in RowNames : InsertRow(r)
  \/ \E w \in Workspaces, cls \in Sweepable, d \in Windows : SetWindow(w, cls, d)
  \/ NightFalls
  \/ \E dry \in BOOLEAN : Start(dry)
  \/ \E cls \in ToSet(Classes), w \in Workspaces \cup {NULL} :
       CountBucket(cls, w) \/ DeleteBucket(cls, w)
  \/ SkipLocked \/ SweepCommits \/ SweepFails

RetentionSpec == RetentionInit /\ [][RetentionNext]_retentionVars

-----------------------------------------------------------------------------
RetentionTypeOK ==
  /\ day \in 0..LastDay
  /\ \A r \in RowNames : created[r] \in 0..LastDay \cup {Absent}
  /\ \A r \in RowNames : \A c \in DOMAIN Rows[r].refs : refers[r][c] \in {Rows[r].refs[c], NULL}
  /\ sweep.at \in 0..(Len(Classes) + 1) /\ sweep.gone \subseteq RowNames
  /\ sweep.buckets \subseteq Workspaces \cup {NULL} /\ sweep.counted \subseteq sweep.buckets
  /\ {sweep.would, sweep.deleted} \subseteq Nat /\ (sweep.dry => sweep.gone = {} /\ sweep.deleted = 0)

(* A row goes only in a sweep that is not a dry run, and only if it, or a  *)
(* row it cascades from, is past its own window by the policies the sweep  *)
(* began with ("a default bucket for every workspace without an override   *)
(* plus one bucket per overriding workspace";                              *)
(* test_audit_events_are_never_swept).  All that was past its window as    *)
(* the sweep began goes, with what cascades from it, whatever observations *)
(* of long ago come in between the two statements of a bucket or after     *)
(* them.  No reference is left to a row that is gone.                      *)
SweepsByRule ==
  [][LET gone == {r \in RowNames : Present(r) /\ created'[r] = Absent}
         expired == {r \in RowNames : Expired(r, sweep.windows, sweep.now)}
     IN /\ SweepCommits /\ ~sweep.dry => Cascade(sweep.due) \subseteq gone
        /\ gone # {} =>
             /\ Sweeping /\ ~sweep.dry /\ gone \subseteq Cascade(expired)
             /\ \A r \in RowNames \ gone : \A c \in DOMAIN refers[r] :
                  created'[r] # Absent => refers'[r][c] \notin gone
    ]_retentionVars

(* "By default each data class is pruned on the platform schedule"         *)
(* (docs/user/policy.md): a sweep comes to no class whose rows it cannot   *)
(* select, so that nothing but a lost database keeps it from its commit.   *)
EachClassPruned ==
  \A cls \in ToSet(Classes) : AtClass(cls) /\ ~cls.locked => Selectable(cls)
=============================================================================
