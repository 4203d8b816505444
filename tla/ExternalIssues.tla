--------------------------- MODULE ExternalIssues ---------------------------
(***************************************************************************)
(* ExternalIssueService over its database and a tracker.  A filing looks   *)
(* for a recent link of its signal, lets the provider create an issue, and *)
(* inserts the link; a webhook loads the link and writes the status it     *)
(* carries.  Each is a READ COMMITTED transaction of its own, the provider *)
(* call is not part of any, and deliveries may be late, repeated, out of   *)
(* order or lost.                                                          *)
(***************************************************************************)
EXTENDS Integers, FiniteSets

CONSTANTS
  Workers,             \* transactions that may be open at the same time
  Signals,             \* signal ids of one workspace, all filed with one provider
  Reports,             \* provider-native statuses, lower-cased
  DedupWindow,
  MaxIssues,           \* bound: issues the tracker numbers
  IssueTime,           \* bound of the clock
  MaxEvents,           \* bound: webhook events the tracker sends
  NoLink, Never        \* no row for an issue; a NULL closed_at

ASSUME IssueAssumption ==
  /\ {DedupWindow, MaxIssues, IssueTime, MaxEvents} \subseteq Nat
  /\ Never \notin Nat
  /\ "new" \in Reports /\ Signals # {}

Issues == 1..MaxIssues

VARIABLES
  clock,
  tracker,             \* the issues the provider has created so far
  sent,                \* webhook events it has sent: issue, status, closedAt
  links,               \* external_issues by issue key
  step, signal, moment, \* an open transaction: what it does, for which signal, since when
  hand,                \* the issue it has filed or the link it loaded
  loaded,              \* the columns of the link it loaded
  event,               \* the event it was called with
  saw,                 \* history: links of the signal committed when it looked
  last, overtaken      \* history of a link: the event written last; whether an
                       \* UPDATE ever met a row that had changed since it was loaded

trackerVars == <<tracker, sent>>
tableVars   == <<links, last, overtaken>>
workVars    == <<step, signal, moment, hand, loaded, event, saw>>
issueVars   == <<clock, trackerVars, tableVars, workVars>>

TrackerStatus == {"open", "in_progress", "resolved", "closed", "rejected"}
Link  == [signal : Signals, openedAt : Nat, status : TrackerStatus,
          closedAt : Nat \cup {Never}, after : SUBSET Issues]
Event == [issue : Issues, status : Reports, closedAt : Nat \cup {Never}]
Snapshot == [status : TrackerStatus, closedAt : Nat \cup {Never}]

ASSUME LinkAssumption == NoLink \notin Link

NoSnapshot == [status |-> "open", closedAt |-> Never]
NoEvent(i) == [issue |-> i, status |-> "new", closedAt |-> Never]

IssueInit ==
  /\ clock = 0 /\ tracker = 0 /\ sent = {}
  /\ links     = [i \in Issues |-> NoLink]
  /\ last      = [i \in Issues |-> NoEvent(i)]
  /\ overtaken = [i \in Issues |-> FALSE]
  /\ step   = [w \in Workers |-> "idle"]
  /\ signal = [w \in Workers |-> CHOOSE g \in Signals : TRUE]
  /\ moment = [w \in Workers |-> 0]
  /\ hand   = [w \in Workers |-> 0]
  /\ loaded = [w \in Workers |-> NoSnapshot]
  /\ event  = [w \in Workers |-> NoEvent(0)]
  /\ saw    = [w \in Workers |-> {}]

Linked(i) == links[i] # NoLink

-----------------------------------------------------------------------------
(* Somebody moves an issue in the tracker, and the webhook event   *)
(* says how it stands then.  Only "done" carries a resolution date.        *)
Move(i, r) ==
  /\ i <= tracker
  /\ Cardinality(sent) < MaxEvents
  /\ sent' = sent \cup {[issue |-> i, status |-> r,
                         closedAt |-> IF r = "done" THEN clock ELSE Never]}
  /\ UNCHANGED <<clock, tracker, tableVars, workVars>>

-----------------------------------------------------------------------------
(* create_or_reuse().  (A definition whose name ends in _Mutant is the     *)
(* next one with a slip in it and no part of the model.)                   *)

LinksOf(g) == {i \in Issues : Linked(i) /\ links[i].signal = g}

Recent_Mutant(g, now) == {i \in LinksOf(g) : links[i].openedAt > now - DedupWindow}
Recent(g, now) == {i \in LinksOf(g) : links[i].openedAt >= now - DedupWindow}

(* No recent link: go on to file.  (A recent one is returned with          *)
(* deduped=True, which changes nothing but the audit log.)  The moment is  *)
(* read, or was given by the caller, before the SELECT.                    *)
BeginFiling(w, g) ==
  /\ step[w] = "idle"
  /\ step'   = [step   EXCEPT ![w] = "called"]
  /\ signal' = [signal EXCEPT ![w] = g]
  /\ moment' = [moment EXCEPT ![w] = clock]
  /\ UNCHANGED <<clock, trackerVars, tableVars, hand, loaded, event, saw>>

LookUp(w) ==
  /\ step[w] = "called"
  /\ Recent(signal[w], moment[w]) = {}
  /\ step' = [step EXCEPT ![w] = "filing"]
  /\ saw'  = [saw  EXCEPT ![w] = LinksOf(signal[w])]
  /\ UNCHANGED <<clock, trackerVars, tableVars, signal, moment, hand, loaded, event>>

(* create() of the client: from here on the issue exists, whatever becomes *)
(* of us, ...                                                              *)
File(w) ==
  /\ step[w] = "filing"
  /\ tracker < MaxIssues
  /\ tracker' = tracker + 1
  /\ hand' = [hand EXCEPT ![w] = tracker + 1]
  /\ step' = [step EXCEPT ![w] = "filed"]
  /\ UNCHANGED <<clock, sent, tableVars, signal, moment, loaded, event, saw>>

Close(w) ==
  /\ step'   = [step   EXCEPT ![w] = "idle"]
  /\ moment' = [moment EXCEPT ![w] = 0]
  /\ hand'   = [hand   EXCEPT ![w] = 0]
  /\ loaded' = [loaded EXCEPT ![w] = NoSnapshot]
  /\ event'  = [event  EXCEPT ![w] = NoEvent(0)]
  /\ saw'    = [saw    EXCEPT ![w] = {}]
  /\ UNCHANGED <<clock, signal>>

(* ... unless the request fails: the provider refuses it, cannot be        *)
(* reached, or has made an issue when its answer is lost or times out.     *)
CreateFails(w) ==
  /\ step[w] = "filing"
  /\ tracker' \in {tracker, tracker + 1} \cap (0..MaxIssues)
  /\ Close(w)
  /\ UNCHANGED <<sent, tableVars>>

(* The INSERT and the commit. *)
CommitLink(w) ==
  /\ step[w] = "filed"
  /\ links' = [links EXCEPT ![hand[w]] =
       [signal |-> signal[w], openedAt |-> moment[w], status |-> "open",
        closedAt |-> Never, after |-> saw[w]]]
  /\ Close(w)
  /\ UNCHANGED <<trackerVars, last, overtaken>>

-----------------------------------------------------------------------------
(* sync_from_provider(), called for any event sent so far. *)

(* Jira's row of _PROVIDER_STATUS_MAP; what it does not know is "open". *)
MapStatus(r) ==
  CASE r = "new" -> "open"
    [] r = "indeterminate" -> "in_progress"
    [] r = "resolved" -> "resolved"
    [] r \in {"done", "closed"} -> "closed"
    [] OTHER -> "open"

(* An event for an issue without a link is swallowed. *)
LoadLink(w, e) ==
  /\ step[w] = "idle"
  /\ Linked(e.issue)
  /\ step'   = [step   EXCEPT ![w] = "syncing"]
  /\ hand'   = [hand   EXCEPT ![w] = e.issue]
  /\ event'  = [event  EXCEPT ![w] = e]
  /\ loaded' = [loaded EXCEPT ![w] = [status   |-> links[e.issue].status,
                                      closedAt |-> links[e.issue].closedAt]]
  /\ UNCHANGED <<clock, trackerVars, tableVars, signal, moment, saw>>

(* What the call sets on the object it loaded. *)
Synced_Mutant(w) == [status   |-> MapStatus(event[w].status),
                     closedAt |-> IF event[w].closedAt = Never
                                    THEN loaded[w].closedAt ELSE event[w].closedAt]
Synced(w) == [status |-> MapStatus(event[w].status), closedAt |-> event[w].closedAt]

(* SQLAlchemy sends an UPDATE of the columns that differ from the loaded   *)
(* ones (last_synced_at always does), and the others keep what the row     *)
(* holds by then.                                                          *)
Merged(new, old, held) == IF new = old THEN held ELSE new

CommitSync(w) ==
  LET i == hand[w]
      row == links[i]
  IN  /\ step[w] = "syncing"
      /\ links' = [links EXCEPT
           ![i].status   = Merged(Synced(w).status, loaded[w].status, row.status),
           ![i].closedAt = Merged(Synced(w).closedAt, loaded[w].closedAt, row.closedAt)]
      /\ last' = [last EXCEPT ![i] = event[w]]
      /\ overtaken' = [overtaken EXCEPT ![i] = @ \/
           [status |-> row.status, closedAt |-> row.closedAt] # loaded[w]]
      /\ Close(w) /\ UNCHANGED trackerVars

(* Whatever else ends a transaction. *)
Rollback(w) ==
  /\ step[w] # "idle"
  /\ Close(w)
  /\ UNCHANGED <<trackerVars, tableVars>>

ClockTick ==
  /\ clock < IssueTime
  /\ clock' = clock + 1
  /\ UNCHANGED <<trackerVars, tableVars, workVars>>

IssueNext ==
  \/ \E i \in Issues, r \in Reports : Move(i, r)
  \/ \E w \in Workers :
       \/ \E g \in Signals : BeginFiling(w, g)
       \/ LookUp(w) \/ File(w) \/ CreateFails(w) \/ CommitLink(w)
       \/ \E e \in sent : LoadLink(w, e)
       \/ CommitSync(w) \/ Rollback(w)
  \/ ClockTick

IssueSpec == IssueInit /\ [][IssueNext]_issueVars

-----------------------------------------------------------------------------
IssueTypeOK ==
  /\ clock \in 0..IssueTime
  /\ tracker \in 0..MaxIssues
  /\ sent \subseteq Event
  /\ links \in [Issues -> Link \cup {NoLink}]
  /\ last \in [Issues -> Event]
  /\ overtaken \in [Issues -> BOOLEAN]
  /\ step \in [Workers -> {"idle", "called", "filing", "filed", "syncing"}]
  /\ signal \in [Workers -> Signals]
  /\ moment \in [Workers -> 0..IssueTime]
  /\ hand \in [Workers -> 0..MaxIssues]
  /\ loaded \in [Workers -> Snapshot]
  /\ \A w \in Workers : event[w] \in Event \cup {NoEvent(0)}
  /\ saw \in [Workers -> SUBSET Issues]

(* Two links of a signal lie further apart than the dedup window, unless   *)
(* the one was committed after the other's transaction had looked: only    *)
(* calls that overlap file the same signal twice.                          *)
FiledApart ==
  \A i, j \in Issues :
    Linked(i) /\ Linked(j) /\ i \in links[j].after =>
      links[j].openedAt - links[i].openedAt > DedupWindow

(* A link whose UPDATEs never overlapped shows the event that was written  *)
(* last, date and status together: no column is left from an earlier one.  *)
SyncedAsTold ==
  \A i \in Issues : Linked(i) /\ ~overtaken[i] =>
    /\ links[i].status = MapStatus(last[i].status)
    /\ links[i].closedAt = last[i].closedAt

(* Signals filed apart, and links that say what was told: both together.   *)
IssuesKept == FiledApart /\ SyncedAsTold
=============================================================================
