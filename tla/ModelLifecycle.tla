--------------------------- MODULE ModelLifecycle ---------------------------
(***************************************************************************)
(* ModelLifecycleService on the model_registry of one tenant, and the      *)
(* check for overdue decisions.  Every operation is a READ COMMITTED       *)
(* transaction that loads the row of a model, looks at its status, and     *)
(* sends an UPDATE of the columns it has changed, by primary key; nothing  *)
(* holds the row in between.  An UPDATE shows when it is committed and     *)
(* locks the row until then, so the two are one step here.                 *)
(***************************************************************************)
EXTENDS Integers, Sequences, FiniteSets, SequencesExt

CONSTANTS
  Releases,            \* (provider, model_id) pairs
  Curators,            \* transactions that may be open at the same time
  Scorecards,          \* eval scorecard ids
  DecisionSLA,
  ReleaseTime,         \* bound of the clock and of the release dates
  MaxTrail,            \* bound: audited operations
  NoEntry, Null        \* no row; a column that is NULL

ASSUME LifecycleAssumption ==
  {DecisionSLA, ReleaseTime, MaxTrail} \subseteq Nat /\ IsFiniteSet(Releases)

VARIABLES
  today,               \* the service's clock
  registry,            \* model_registry by model
  trail,               \* history: the audit events of a model, each with how many
                       \* of them there were when its transaction loaded the row
  task, entry, seen    \* an open transaction: [act, of, arg], the row as it loaded
                       \* it, the events of the model at that time

registryVars  == <<registry, trail>>
curatorVars   == <<task, entry, seen>>
lifecycleVars == <<today, registryVars, curatorVars>>

Statuses == {"candidate", "pinned", "deprecated", "rejected"}
Verdicts == {"go", "no_go"}
RegistryRow ==
  [released_at : 0..ReleaseTime, status : Statuses,
   decision : Verdicts \cup {Null}, decision_at : 0..ReleaseTime \cup {Null},
   deprecation_at : 0..ReleaseTime \cup {Null}, scorecard : Scorecards \cup {Null}]

ASSUME NullAssumption == NoEntry \notin RegistryRow /\ Null \notin Verdicts \cup Nat

Idle == [act |-> "none", of |-> Null, arg |-> Null]

LifecycleInit ==
  /\ today = 0
  /\ registry = [m \in Releases |-> NoEntry]
  /\ trail    = [m \in Releases |-> <<>>]
  /\ task  = [s \in Curators |-> Idle]
  /\ entry = [s \in Curators |-> NoEntry]
  /\ seen  = [s \in Curators |-> 0]

-----------------------------------------------------------------------------
(* What an operation asks of the row it has loaded, and makes of it.  (A   *)
(* definition whose name ends in _Mutant is the next one with a slip in it *)
(* and no part of the model.)                                              *)

register(date) ==
  [released_at |-> date, status |-> "candidate", decision |-> Null, decision_at |-> Null,
   deprecation_at |-> Null, scorecard |-> Null]

Allowed_Mutant(act, row) == (act = "register") <=> (row = NoEntry)
Allowed(act, row) ==
  CASE act = "register"  -> row = NoEntry          \* otherwise it returns the row
    [] act = "scorecard" -> row # NoEntry
    [] act \in Verdicts -> row # NoEntry /\ row.status = "candidate"
    [] act = "deprecate" -> row # NoEntry /\ row.status = "pinned"

Changed(act, row, arg, now) ==
  CASE act = "register"  -> register(arg)
    [] act = "scorecard" -> [row EXCEPT !.scorecard = arg]
    [] act = "deprecate" -> [row EXCEPT !.deprecation_at = arg, !.status = "deprecated"]
    [] OTHER -> [row EXCEPT !.decision = act, !.decision_at = now,
                            !.status = IF act = "go" THEN "pinned" ELSE "rejected"]

(* The UPDATE: the columns that differ from those loaded, over the row as  *)
(* it is by now.                                                           *)
Update(old, new, row) == [c \in DOMAIN new |-> IF new[c] # old[c] THEN new[c] ELSE row[c]]

-----------------------------------------------------------------------------
(* The transactions. *)

Load(s, act, m, arg) ==
  /\ task[s] = Idle
  /\ Allowed(act, registry[m])
  /\ task'  = [task  EXCEPT ![s] = [act |-> act, of |-> m, arg |-> arg]]
  /\ entry' = [entry EXCEPT ![s] = registry[m]]
  /\ seen'  = [seen  EXCEPT ![s] = Len(trail[m])]
  /\ UNCHANGED <<today, registryVars>>

Done(s) ==
  /\ task'  = [task  EXCEPT ![s] = Idle]
  /\ entry' = [entry EXCEPT ![s] = NoEntry]
  /\ seen'  = [seen  EXCEPT ![s] = 0]
  /\ UNCHANGED today

Room == SumFunction([m \in Releases |-> Len(trail[m])]) < MaxTrail

(* A second INSERT of the model waits for the first at the unique index    *)
(* and fails when that is committed: it has no way but CuratorFails.       *)
CuratorCommits(s) ==
  LET m == task[s].of
      new == Changed(task[s].act, entry[s], task[s].arg, today)
  IN /\ task[s] # Idle
     /\ Room
     /\ task[s].act = "register" => registry[m] = NoEntry
     /\ registry' = [registry EXCEPT ![m] =
          IF @ = NoEntry THEN new ELSE Update(entry[s], new, @)]
     /\ trail' = [trail EXCEPT ![m] =
          Append(@, [act |-> task[s].act, arg |-> task[s].arg, seen |-> seen[s]])]
     /\ Done(s)

CuratorFails(s) == task[s] # Idle /\ Done(s) /\ UNCHANGED registryVars

DayPasses == today < ReleaseTime /\ today' = today + 1 /\ UNCHANGED <<registryVars, curatorVars>>

LifecycleNext ==
  \/ \E s \in Curators :
       \/ \E m \in Releases :
            \/ \E date \in 0..ReleaseTime :
                 Load(s, "register", m, date) \/ Load(s, "deprecate", m, date)
            \/ \E c \in Scorecards : Load(s, "scorecard", m, c)
            \/ \E d \in Verdicts : Load(s, d, m, Null)
       \/ CuratorCommits(s) \/ CuratorFails(s)
  \/ DayPasses

LifecycleSpec == LifecycleInit /\ [][LifecycleNext]_lifecycleVars

-----------------------------------------------------------------------------
(* awaiting_decision(): the open candidates, and what                      *)
(* check_overdue_decisions() pages about.                                  *)
awaiting_decision ==
  {m \in Releases : registry[m] # NoEntry /\ registry[m].status = "candidate"
                                          /\ registry[m].decision = Null}
sla_breached_Mutant(m) == today - registry[m].released_at > DecisionSLA
sla_breached(m) == today - registry[m].released_at >= DecisionSLA

breached == {m \in awaiting_decision : sla_breached(m)}

-----------------------------------------------------------------------------
LifecycleTypeOK ==
  /\ today \in 0..ReleaseTime
  /\ registry \in [Releases -> RegistryRow \cup {NoEntry}]
  /\ \A s \in Curators : entry[s] \in RegistryRow \cup {NoEntry}
  /\ \A m \in Releases : Len(trail[m]) <= MaxTrail

Acts(m) == {trail[m][i].act : i \in DOMAIN trail[m]}
Latest(m, acts) == LET is == {i \in DOMAIN trail[m] : trail[m][i].act \in acts}
                 IN  CHOOSE i \in is : \A j \in is : j <= i

(* Every event was written by a transaction that had loaded the row as the *)
(* event before it left it.                                                *)
Serial(m) == \A i \in DOMAIN trail[m] : trail[m][i].seen = i - 1

(* candidate -> pinned | rejected, pinned -> deprecated ("State            *)
(* transitions are deliberately tight").  A status is always backed by the *)
(* decisions on record, whatever overlaps: pinned by a go that nobody has  *)
(* replaced, deprecated by a go at some time.  And unless transactions     *)
(* overlapped, each is decided once, deprecated only as a go, and has the  *)
(* scorecard that was attached last.                                       *)
StatusBacked ==
  \A m \in Releases : registry[m] # NoEntry =>
    LET row == registry[m] IN
    /\ trail[m][1].act = "register" /\ trail[m][1].seen = 0
    /\ row.status = "candidate" <=> Acts(m) \cap Verdicts = {}
    /\ row.decision # Null <=> row.status # "candidate"
    /\ row.decision # Null => row.decision = trail[m][Latest(m, Verdicts)].act
    /\ row.status \in {"pinned", "deprecated"} => "go" \in Acts(m)
    /\ row.status = "pinned"   => row.decision = "go"
    /\ row.status = "rejected" => row.decision = "no_go"
    /\ row.status = "deprecated" => "deprecate" \in Acts(m)
    /\ Serial(m) =>
         /\ Cardinality({i \in DOMAIN trail[m] : trail[m][i].act \in Verdicts}) <= 1
         /\ row.status = "deprecated" => row.decision = "go"
         /\ row.deprecation_at # Null <=> row.status = "deprecated"
         /\ "scorecard" \in Acts(m) => row.scorecard = trail[m][Latest(m, {"scorecard"})].arg

(* The overdue list misses no model that nobody has decided, and pages     *)
(* about none that somebody has ("Candidates whose go/no-go is still       *)
(* outstanding").                                                          *)
OverdueFound ==
  breached = {m \in Releases :
    /\ trail[m] # <<>> /\ Acts(m) \cap Verdicts = {}
    /\ today >= trail[m][1].arg + DecisionSLA}

(* Every model has the history and the row that belong together. *)
RegistryKept == StatusBacked /\ OverdueFound
=============================================================================
