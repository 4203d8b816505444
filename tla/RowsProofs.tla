----------------------------- MODULE RowsProofs -----------------------------
(***************************************************************************)
(* Rows that several READ COMMITTED transactions load, wait and write:     *)
(* links to issues, prompt pins, links to repositories, the registry of    *)
(* models, the cases of test plans and the verdicts on failures.  Each     *)
(* part has an inductive invariant of its own; nearly all of them relate   *)
(* what a client or a transaction holds to what has become of the rows it  *)
(* comes from.                                                             *)
(***************************************************************************)
EXTENDS PolicyVersions, ExternalIssues, PromptPins, Workspaces, ModelLifecycle,
        TestGeneration, FailureTriage,
        WellFoundedInduction, SequenceTheorems, FiniteSetTheorems, TLAPS

-----------------------------------------------------------------------------
(* Issues: their invariant. *)

(* The issue a worker has filed has no link yet, and is nobody else's.     *)
FiledInv ==
  /\ \A i \in Issues : Linked(i) => i <= tracker
  /\ \A w \in Workers : step[w] = "filed" =>
       /\ hand[w] \in Issues /\ hand[w] <= tracker /\ ~Linked(hand[w])
       /\ \A v \in Workers : step[v] = "filed" /\ hand[v] = hand[w] => v = w

IssueRows ==
  /\ clock \in Nat /\ tracker \in 0..MaxIssues
  /\ \A e \in sent : e.issue \in Issues /\ e.closedAt \in Nat \cup {Never}
  /\ links \in [Issues -> Link \cup {NoLink}]
  /\ DOMAIN last = Issues /\ DOMAIN overtaken = Issues
  /\ DOMAIN step = Workers /\ DOMAIN signal = Workers /\ moment \in [Workers -> Nat]
  /\ hand \in [Workers -> Nat] /\ loaded \in [Workers -> Snapshot] /\ DOMAIN event = Workers
  /\ saw \in [Workers -> SUBSET Issues]
  /\ \A w \in Workers :
       /\ step[w] \in {"called", "filing", "filed"} => signal[w] \in Signals
       /\ step[w] = "syncing" => /\ hand[w] \in Issues /\ Linked(hand[w])
                                 /\ event[w].closedAt \in Nat \cup {Never}

(* The links a worker saw lie further back than the window.                *)
SawInv ==
  \A w \in Workers : step[w] \in {"filing", "filed"} =>
    \A i \in saw[w] : Linked(i) /\ moment[w] - links[i].openedAt > DedupWindow

(* So do, then, the links that were there before another was looked for.   *)
AfterInv ==
  \A i \in Issues : Linked(i) => \A j \in links[i].after : Linked(j)

(* An issue without a link has had no event yet.                           *)
FreshInv ==
  \A i \in Issues : ~Linked(i) => ~overtaken[i] /\ last[i] = NoEvent(i)

IInv == IssueRows /\ FiledInv /\ SawInv /\ AfterInv /\ FreshInv /\ IssuesKept

-----------------------------------------------------------------------------
LEMMA IInit == IssueInit => IInv
<1> SUFFICES ASSUME IssueInit PROVE IInv
  OBVIOUS
<1> USE DEF IssueInit, Linked
<1>1. 0 \in 0..MaxIssues
  BY IssueAssumption
<1>2. IssueRows
  <2>1. NoSnapshot \in Snapshot
    BY DEF NoSnapshot, Snapshot, TrackerStatus
  <2>. QED
    BY <1>1, <2>1 DEF IssueRows
<1>3. FiledInv /\ SawInv /\ AfterInv /\ FreshInv
  BY DEF FiledInv, SawInv, AfterInv, FreshInv
<1>4. IssuesKept
  BY DEF IssuesKept, FiledApart, SyncedAsTold
<1>. QED
  BY <1>2, <1>3, <1>4 DEF IInv

LEMMA MapStatusType == ASSUME NEW r PROVE MapStatus(r) \in TrackerStatus
  BY DEF MapStatus, TrackerStatus

(* The end of a worker's transaction leaves what holds of the others.      *)
LEMMA IClose ==
  ASSUME IInv, NEW w \in Workers, Close(w)
  PROVE  /\ step'[w] = "idle" /\ \A v \in Workers \ {w} :
              /\ step'[v] = step[v] /\ moment'[v] = moment[v] /\ hand'[v] = hand[v]
              /\ loaded'[v] = loaded[v] /\ event'[v] = event[v] /\ saw'[v] = saw[v]
         /\ DOMAIN step' = Workers /\ moment' \in [Workers -> Nat] /\ hand' \in [Workers -> Nat]
         /\ loaded' \in [Workers -> Snapshot] /\ DOMAIN event' = Workers
         /\ saw' \in [Workers -> SUBSET Issues]
         /\ signal' = signal /\ clock' = clock
<1>1. NoSnapshot \in Snapshot
  BY DEF NoSnapshot, Snapshot, TrackerStatus
<1>. QED
  BY <1>1 DEF IInv, IssueRows, Close

(* Steps that write no link.                                               *)
LEMMA IQuiet ==
  ASSUME IInv, UNCHANGED tableVars, FiledInv', SawInv', IssueRows'
  PROVE  IInv'
<1>1. links' = links /\ last' = last /\ overtaken' = overtaken
  BY DEF tableVars
<1>2. FreshInv' /\ AfterInv'
  BY <1>1 DEF IInv, FreshInv, AfterInv, Linked
<1>3. IssuesKept'
  BY <1>1 DEF IInv, IssuesKept, FiledApart, SyncedAsTold, Linked
<1>. QED
  BY <1>2, <1>3 DEF IInv

LEMMA IWork ==
  ASSUME IInv, NEW w \in Workers,
         \/ \E g \in Signals : BeginFiling(w, g)
         \/ LookUp(w) \/ File(w) \/ CreateFails(w) \/ Rollback(w)
         \/ \E e \in sent : LoadLink(w, e)
  PROVE  IInv'
<1> USE IssueAssumption DEF Issues
<1>1. CASE \E g \in Signals : BeginFiling(w, g)
  <2>1. PICK g \in Signals : BeginFiling(w, g)
    BY <1>1
  <2>2. IssueRows'
    BY <2>1 DEF BeginFiling, IInv, IssueRows, tableVars, trackerVars, Linked
  <2>3. FiledInv' /\ SawInv'
    BY <2>1 DEF BeginFiling, IInv, FiledInv, SawInv, IssueRows, tableVars, trackerVars, Linked
  <2>4. UNCHANGED tableVars
    BY <2>1 DEF BeginFiling
  <2>. QED
    BY <2>2, <2>3, <2>4, IQuiet
<1>2. CASE LookUp(w)
  <2>1. \A i \in LinksOf(signal[w]) :
          i \in Issues /\ Linked(i) /\ moment[w] - links[i].openedAt > DedupWindow
    <3> SUFFICES ASSUME NEW i \in LinksOf(signal[w])
                 PROVE  i \in Issues /\ Linked(i) /\ moment[w] - links[i].openedAt > DedupWindow
      OBVIOUS
    <3>1. i \in Issues /\ Linked(i) /\ ~(links[i].openedAt >= moment[w] - DedupWindow)
      BY <1>2 DEF LinksOf, LookUp, Recent
    <3>2. links[i].openedAt \in Nat /\ moment[w] \in Nat /\ DedupWindow \in Nat
      BY <3>1 DEF IInv, IssueRows, Link, Linked
    <3>. QED
      BY <3>1, <3>2
  <2>2. /\ step' = [step EXCEPT ![w] = "filing"] /\ step[w] = "called"
        /\ saw' = [saw EXCEPT ![w] = LinksOf(signal[w])]
        /\ UNCHANGED <<clock, sent, tracker, links, last, overtaken, signal, moment, hand, loaded, event>>
    BY <1>2 DEF LookUp, trackerVars, tableVars
  <2>3. LinksOf(signal[w]) \subseteq Issues
    BY <2>1
  <2>4. IssueRows'
    BY <2>2, <2>3 DEF IInv, IssueRows, Linked
  <2>5. FiledInv' /\ SawInv'
    BY <2>1, <2>2 DEF IInv, FiledInv, SawInv, IssueRows, Linked
  <2>6. UNCHANGED tableVars
    BY <2>2 DEF tableVars
  <2>. QED
    BY <2>4, <2>5, <2>6, IQuiet
<1>3. CASE File(w)
  <2>1. /\ step[w] = "filing" /\ step' = [step EXCEPT ![w] = "filed"]
        /\ tracker < MaxIssues /\ tracker' = tracker + 1
        /\ hand' = [hand EXCEPT ![w] = tracker + 1]
        /\ UNCHANGED <<clock, sent, links, last, overtaken, signal, moment, loaded, event, saw>>
    BY <1>3 DEF File, tableVars
  <2>2. tracker \in Nat /\ tracker + 1 \in Issues /\ tracker + 1 \in Nat /\ tracker + 1 \in 0..MaxIssues
    BY <2>1 DEF IInv, IssueRows
  <2>3. IssueRows'
    BY <2>1, <2>2 DEF IInv, IssueRows, Linked
  <2>4. ~Linked(tracker + 1) /\ \A v \in Workers : step[v] = "filed" => hand[v] # tracker + 1
    BY <2>2 DEF IInv, FiledInv
  <2>5. FiledInv' /\ SawInv'
    BY <2>1, <2>2, <2>4 DEF IInv, FiledInv, SawInv, IssueRows, Linked
  <2>6. UNCHANGED tableVars
    BY <2>1 DEF tableVars
  <2>. QED
    BY <2>3, <2>5, <2>6, IQuiet
<1>4. CASE CreateFails(w) \/ Rollback(w)
  <2>1. /\ Close(w) /\ UNCHANGED <<sent, tableVars>>
        /\ tracker' \in 0..MaxIssues /\ tracker <= tracker'
    BY <1>4 DEF CreateFails, Rollback, trackerVars, IInv, IssueRows
  <2>2. links' = links /\ last' = last /\ overtaken' = overtaken /\ sent' = sent
    BY <2>1 DEF tableVars
  <2>3. IssueRows'
    BY <2>1, <2>2, IClose DEF IInv, IssueRows, Linked
  <2>4. FiledInv'
    <3>1. \A v \in Workers : step'[v] = "filed" => v # w /\ step[v] = "filed" /\ hand'[v] = hand[v]
      BY <2>1, IClose
    <3>2. tracker \in Nat /\ tracker' \in Nat /\ \A v \in Workers : hand[v] \in Nat
      BY <2>1 DEF IInv, IssueRows
    <3>. QED
      BY <2>1, <2>2, <3>1, <3>2 DEF IInv, FiledInv, Linked
  <2>5. SawInv'
    <3>1. \A v \in Workers : step'[v] \in {"filing", "filed"} =>
            step[v] = step'[v] /\ saw'[v] = saw[v] /\ moment'[v] = moment[v]
      BY <2>1, IClose
    <3>. QED
      BY <2>2, <3>1 DEF IInv, SawInv, Linked
  <2>. QED
    BY <2>1, <2>3, <2>4, <2>5, IQuiet
<1>5. CASE \E e \in sent : LoadLink(w, e)
  <2>1. PICK e \in sent : LoadLink(w, e)
    BY <1>5
  <2>2. /\ step[w] = "idle" /\ step' = [step EXCEPT ![w] = "syncing"] /\ Linked(e.issue)
        /\ hand' = [hand EXCEPT ![w] = e.issue] /\ event' = [event EXCEPT ![w] = e]
        /\ loaded' = [loaded EXCEPT ![w] = [status   |-> links[e.issue].status,
                                            closedAt |-> links[e.issue].closedAt]]
        /\ UNCHANGED <<clock, tracker, sent, links, last, overtaken, signal, moment, saw>>
    BY <2>1 DEF LoadLink, trackerVars, tableVars
  <2>3. e.issue \in Issues /\ e.issue \in Nat /\ e.closedAt \in Nat \cup {Never}
    BY DEF IInv, IssueRows
  <2>4. [status |-> links[e.issue].status, closedAt |-> links[e.issue].closedAt] \in Snapshot
    BY <2>2, <2>3 DEF IInv, IssueRows, Linked, Link, Snapshot
  <2>5. IssueRows'
    BY <2>2, <2>3, <2>4 DEF IInv, IssueRows, Linked
  <2>6. FiledInv' /\ SawInv'
    BY <2>2 DEF IInv, FiledInv, SawInv, IssueRows, Linked
  <2>7. UNCHANGED tableVars
    BY <2>2 DEF tableVars
  <2>. QED
    BY <2>5, <2>6, <2>7, IQuiet
<1>. QED
  BY <1>1, <1>2, <1>3, <1>4, <1>5

(* The link: nothing the worker saw of its signal is as recent as it.      *)
LEMMA ILink == ASSUME IInv, NEW w \in Workers, CommitLink(w) PROVE IInv'
<1> DEFINE i == hand[w]
           row == [signal |-> signal[w], openedAt |-> moment[w], status |-> "open",
                   closedAt |-> Never, after |-> saw[w]]
<1>1. /\ step[w] = "filed" /\ links' = [links EXCEPT ![i] = row] /\ Close(w)
      /\ tracker' = tracker /\ sent' = sent /\ last' = last /\ overtaken' = overtaken
  BY DEF CommitLink, trackerVars
<1>2. /\ i \in Issues /\ i \in Nat /\ i <= tracker /\ ~Linked(i) /\ tracker \in Nat
      /\ \A v \in Workers : step[v] = "filed" /\ hand[v] = i => v = w
  BY <1>1 DEF IInv, FiledInv, IssueRows
<1>3. row \in Link
  BY <1>1 DEF IInv, IssueRows, Link, TrackerStatus
<1>4. /\ links'[i] = row /\ \A j \in Issues \ {i} : links'[j] = links[j]
      /\ links' \in [Issues -> Link \cup {NoLink}] /\ row # NoLink
  BY <1>1, <1>2, <1>3, LinkAssumption DEF IInv, IssueRows
<1>5. \A j \in Issues : Linked(j)' <=> Linked(j) \/ j = i
  BY <1>2, <1>4 DEF Linked
<1> HIDE DEF i
<1>6. IssueRows'
  BY <1>1, <1>4, <1>5, IClose DEF IInv, IssueRows
<1>7. FiledInv'
  <2>0. step'[w] = "idle" /\ \A v \in Workers \ {w} : step'[v] = step[v] /\ hand'[v] = hand[v]
    BY <1>1, IClose
  <2>1. \A j \in Issues : Linked(j)' => j <= tracker'
    BY <1>1, <1>2, <1>5 DEF IInv, FiledInv
  <2>2. ASSUME NEW v \in Workers, step'[v] = "filed"
        PROVE  /\ hand'[v] \in Issues /\ hand'[v] <= tracker' /\ ~Linked(hand[v])'
               /\ \A u \in Workers : step'[u] = "filed" /\ hand'[u] = hand'[v] => u = v
    <3>1. v # w /\ step[v] = "filed" /\ hand'[v] = hand[v]
      BY <2>0, <2>2
    <3>2. /\ hand[v] \in Issues /\ hand[v] <= tracker /\ ~Linked(hand[v]) /\ hand[v] # i
          /\ \A u \in Workers : step[u] = "filed" /\ hand[u] = hand[v] => u = v
      BY <1>2, <3>1 DEF IInv, FiledInv
    <3>3. ASSUME NEW u \in Workers, step'[u] = "filed", hand'[u] = hand'[v]
          PROVE  u = v
      <4>1. step[u] = "filed" /\ hand'[u] = hand[u]
        BY <2>0, <3>3
      <4>. QED
        BY <3>1, <3>2, <3>3, <4>1
    <3>4. hand'[v] \in Issues /\ ~Linked(hand[v])'
      <4>1. links'[hand[v]] = links[hand[v]]
        BY <1>4, <3>2
      <4>. QED
        BY <3>1, <3>2, <4>1 DEF Linked
    <3>. QED
      BY <1>1, <3>1, <3>2, <3>3, <3>4
  <2>. QED
    BY <2>1, <2>2 DEF FiledInv
<1>8. SawInv'
  <2> SUFFICES ASSUME NEW v \in Workers, step'[v] \in {"filing", "filed"}, NEW j \in saw'[v]
               PROVE  Linked(j)' /\ moment'[v] - links'[j].openedAt > DedupWindow
    BY DEF SawInv
  <2>1. v # w /\ step[v] = step'[v] /\ saw'[v] = saw[v] /\ moment'[v] = moment[v]
    BY <1>1, IClose
  <2>2. Linked(j) /\ moment[v] - links[j].openedAt > DedupWindow /\ j \in Issues
    BY <2>1 DEF IInv, SawInv, IssueRows
  <2>. QED
    BY <1>2, <1>4, <1>5, <2>1, <2>2
<1>9. FreshInv'
  BY <1>1, <1>5 DEF IInv, FreshInv
<1>10. FiledApart'
  <2> SUFFICES ASSUME NEW j \in Issues, NEW k \in Issues, Linked(j)', Linked(k)', j \in links'[k].after
               PROVE  links'[k].openedAt - links'[j].openedAt > DedupWindow
    BY DEF FiledApart
  <2>1. CASE k # i /\ j # i
    BY <1>4, <1>5, <2>1 DEF IInv, IssuesKept, FiledApart
  <2>2. CASE k = i
    <3>1. links'[k].after = saw[w] /\ links'[k].openedAt = moment[w]
      BY <1>4, <2>2
    <3>2. Linked(j) /\ moment[w] - links[j].openedAt > DedupWindow
      BY <1>1, <3>1 DEF IInv, SawInv
    <3>. QED
      BY <1>2, <1>4, <3>1, <3>2
  <2>3. CASE k # i /\ j = i
    <3>1. Linked(k) /\ i \in links[k].after /\ links[k] \in Link
      BY <1>4, <1>5, <2>3 DEF IInv, IssueRows, Linked
    <3>. QED
      BY <1>2, <3>1 DEF IInv, AfterInv
  <2>. QED
    BY <2>1, <2>2, <2>3
<1>11. SyncedAsTold'
  <2> SUFFICES ASSUME NEW j \in Issues, Linked(j)', ~overtaken'[j]
               PROVE  /\ links'[j].status = MapStatus(last'[j].status)
                      /\ links'[j].closedAt = last'[j].closedAt
    BY DEF SyncedAsTold
  <2>1. CASE j = i
    <3>1. last[j] = NoEvent(j)
      BY <1>2, <2>1 DEF IInv, FreshInv
    <3>. QED
      BY <1>1, <1>4, <2>1, <3>1 DEF NoEvent, MapStatus
  <2>2. CASE j # i
    BY <1>1, <1>4, <1>5, <2>2 DEF IInv, IssuesKept, SyncedAsTold
  <2>. QED
    BY <2>1, <2>2
<1>12. AfterInv'
  <2> SUFFICES ASSUME NEW j \in Issues, Linked(j)', NEW k \in links'[j].after PROVE Linked(k)'
    BY DEF AfterInv
  <2>1. links'[i].after = saw[w] /\ saw[w] \subseteq Issues
    BY <1>4 DEF IInv, IssueRows
  <2>2. CASE j = i
    BY <1>1, <1>5, <2>1, <2>2 DEF IInv, SawInv
  <2>3. CASE j # i
    <3>1. Linked(j) /\ links'[j] = links[j] /\ links[j] \in Link
      BY <1>4, <1>5, <2>3 DEF IInv, IssueRows, Linked
    <3>2. Linked(k) /\ k \in Issues
      BY <3>1 DEF IInv, AfterInv, Link
    <3>. QED
      BY <1>5, <3>2
  <2>. QED
    BY <2>2, <2>3
<1>. QED
  BY <1>6, <1>7, <1>8, <1>9, <1>10, <1>11, <1>12 DEF IInv, IssuesKept

(* The UPDATE of a sync: a column that the event does not change keeps     *)
(* what the row holds, which is what was loaded unless it was overtaken.   *)
LEMMA ISync == ASSUME IInv, NEW w \in Workers, CommitSync(w) PROVE IInv'
<1> DEFINE i == hand[w]
           row == links[i]
           s == Merged(Synced(w).status, loaded[w].status, row.status)
           c == Merged(Synced(w).closedAt, loaded[w].closedAt, row.closedAt)
<1>1. /\ step[w] = "syncing" /\ Close(w) /\ tracker' = tracker /\ sent' = sent
      /\ links' = [links EXCEPT ![i].status = s, ![i].closedAt = c]
      /\ last' = [last EXCEPT ![i] = event[w]]
      /\ overtaken' = [overtaken EXCEPT ![i] = @ \/
           [status |-> row.status, closedAt |-> row.closedAt] # loaded[w]]
  BY DEF CommitSync, trackerVars
<1>2. /\ i \in Issues /\ Linked(i) /\ row \in Link /\ loaded[w] \in Snapshot
      /\ event[w].closedAt \in Nat \cup {Never} /\ links \in [Issues -> Link \cup {NoLink}]
      /\ DOMAIN last = Issues /\ DOMAIN overtaken = Issues
  BY <1>1 DEF IInv, IssueRows, Linked
<1>3. Synced(w).status = MapStatus(event[w].status) /\ Synced(w).closedAt = event[w].closedAt
  BY DEF Synced
<1>4. MapStatus(event[w].status) \in TrackerStatus
  BY MapStatusType
<1>5. s \in TrackerStatus /\ c \in Nat \cup {Never}
  BY <1>2, <1>3, <1>4 DEF Merged, Link
<1> HIDE DEF s, c, i
<1>6. /\ links'[i] = [row EXCEPT !.status = s, !.closedAt = c]
      /\ \A j \in Issues \ {i} : links'[j] = links[j]
      /\ links' = [j \in Issues |-> links'[j]]
  BY <1>1, <1>2
<1>7. /\ links'[i] \in Link /\ links'[i].status = s /\ links'[i].closedAt = c
      /\ links'[i].openedAt = row.openedAt /\ links'[i].after = row.after
  BY <1>2, <1>5, <1>6 DEF Link
<1>8. /\ \A j \in Issues : Linked(j)' <=> Linked(j)
      /\ links' \in [Issues -> Link \cup {NoLink}]
      /\ \A j \in Issues : Linked(j) =>
           links'[j].openedAt = links[j].openedAt /\ links'[j].after = links[j].after
  <2>1. links'[i] # NoLink /\ links[i] # NoLink /\ links[i] = row
    BY <1>2, <1>7, LinkAssumption DEF row
  <2>2. \A j \in Issues : links'[j] # NoLink <=> links[j] # NoLink
    BY <1>6, <2>1
  <2>3. \A j \in Issues : links'[j] \in Link \cup {NoLink}
    BY <1>2, <1>6, <1>7
  <2>4. \A j \in Issues : links'[j].openedAt = links[j].openedAt /\ links'[j].after = links[j].after
    BY <1>6, <1>7, <2>1
  <2>. QED
    BY <1>6, <2>2, <2>3, <2>4 DEF Linked
<1> HIDE DEF row
<1>9. IssueRows'
  BY <1>1, <1>2, <1>8, IClose, SMTT(40) DEF IInv, IssueRows
<1>10. FiledInv'
  BY <1>1, <1>8, IClose DEF IInv, FiledInv
<1>11. SawInv'
  <2> SUFFICES ASSUME NEW v \in Workers, step'[v] \in {"filing", "filed"}, NEW j \in saw'[v]
               PROVE  Linked(j)' /\ moment'[v] - links'[j].openedAt > DedupWindow
    BY DEF SawInv
  <2>1. v # w /\ step[v] = step'[v] /\ saw'[v] = saw[v] /\ moment'[v] = moment[v]
    BY <1>1, IClose
  <2>2. Linked(j) /\ moment[v] - links[j].openedAt > DedupWindow /\ j \in Issues
    BY <2>1 DEF IInv, SawInv, IssueRows
  <2>. QED
    BY <1>8, <2>1, <2>2
<1>12. AfterInv'
  <2> SUFFICES ASSUME NEW j \in Issues, Linked(j)', NEW k \in links'[j].after PROVE Linked(k)'
    BY DEF AfterInv
  <2>1. Linked(j) /\ links[j] \in Link /\ k \in links[j].after
    BY <1>2, <1>8 DEF Linked
  <2>2. Linked(k) /\ k \in Issues
    BY <2>1 DEF IInv, AfterInv, Link
  <2>. QED
    BY <1>8, <2>2
<1>13. FreshInv'
  BY <1>1, <1>2, <1>8 DEF IInv, FreshInv
<1>14. FiledApart'
  BY <1>8 DEF IInv, IssuesKept, FiledApart
<1>15. SyncedAsTold'
  <2> SUFFICES ASSUME NEW j \in Issues, Linked(j)', ~overtaken'[j]
               PROVE  /\ links'[j].status = MapStatus(last'[j].status)
                      /\ links'[j].closedAt = last'[j].closedAt
    BY DEF SyncedAsTold
  <2>1. CASE j = i
    <3>1. /\ [status |-> row.status, closedAt |-> row.closedAt] = loaded[w]
          /\ last'[i] = event[w]
      BY <1>1, <1>2, <2>1
    <3>2. row.status = loaded[w].status /\ row.closedAt = loaded[w].closedAt
      BY <3>1
    <3>3. s = Synced(w).status /\ c = Synced(w).closedAt
      BY <3>2 DEF s, c, Merged
    <3>. QED
      BY <1>3, <1>7, <2>1, <3>1, <3>3
  <2>2. CASE j # i
    BY <1>1, <1>2, <1>6, <1>8, <2>2 DEF IInv, IssuesKept, SyncedAsTold
  <2>. QED
    BY <2>1, <2>2
<1>. QED
  BY <1>9, <1>10, <1>11, <1>12, <1>13, <1>14, <1>15 DEF IInv, IssuesKept

LEMMA INext == IInv /\ [IssueNext]_issueVars => IInv'
<1> SUFFICES ASSUME IInv, [IssueNext]_issueVars PROVE IInv'
  OBVIOUS
<1>1. CASE \E i \in Issues, r \in Reports : Move(i, r)
  <2>1. PICK i \in Issues, r \in Reports : Move(i, r)
    BY <1>1
  <2> DEFINE e == [issue |-> i, status |-> r, closedAt |-> IF r = "done" THEN clock ELSE Never]
  <2>2. /\ sent' = sent \cup {e} /\ UNCHANGED <<clock, tracker, tableVars, workVars>>
        /\ e.issue \in Issues /\ e.closedAt \in Nat \cup {Never}
    BY <2>1 DEF Move, IInv, IssueRows
  <2> HIDE DEF e
  <2>3. IssueRows'
    BY <2>2 DEF IInv, IssueRows, Linked, tableVars, workVars
  <2>4. FiledInv' /\ SawInv'
    BY <2>2 DEF IInv, FiledInv, SawInv, Linked, tableVars, workVars
  <2>. QED
    BY <2>2, <2>3, <2>4, IQuiet
<1>2. CASE ClockTick
  <2>1. /\ clock' \in Nat /\ UNCHANGED <<tracker, sent, tableVars, workVars>>
    BY <1>2 DEF ClockTick, trackerVars, IInv, IssueRows
  <2>2. IssueRows' /\ FiledInv' /\ SawInv'
    BY <2>1 DEF IInv, IssueRows, FiledInv, SawInv, Linked, tableVars, workVars
  <2>. QED
    BY <2>1, <2>2, IQuiet
<1>3. CASE UNCHANGED issueVars
  <2>1. UNCHANGED <<clock, tracker, sent, tableVars, workVars>>
    BY <1>3 DEF issueVars, trackerVars
  <2>2. IssueRows' /\ FiledInv' /\ SawInv'
    BY <2>1 DEF IInv, IssueRows, FiledInv, SawInv, Linked, tableVars, workVars
  <2>. QED
    BY <2>1, <2>2, IQuiet
<1>. QED
  BY <1>1, <1>2, <1>3, IWork, ILink, ISync DEF IssueNext

(* Signals are filed apart and links say what was told: FiledApart and     *)
(* SyncedAsTold of ExternalIssueService, for every number of workers,      *)
(* issues and events.                                                      *)
THEOREM IssuesTold == IssueSpec => []IssuesKept
<1>1. IInv => IssuesKept
  BY DEF IInv
<1>. QED
  BY IInit, INext, <1>1, PTL DEF IssueSpec

(* The types of the links and of the transactions.                         *)
WorkTypes ==
  /\ step \in [Workers -> {"idle", "called", "filing", "filed", "syncing"}]
  /\ signal \in [Workers -> Signals]
  /\ moment \in [Workers -> 0..IssueTime]
  /\ hand \in [Workers -> 0..MaxIssues]
  /\ loaded \in [Workers -> Snapshot]
  /\ DOMAIN event = Workers /\ \A w \in Workers : event[w] \in Event \cup {NoEvent(0)}
  /\ \A w \in Workers : step[w] = "syncing" => event[w] \in Event
  /\ saw \in [Workers -> SUBSET Issues]

LinkTypes ==
  /\ links \in [Issues -> Link \cup {NoLink}]
  /\ last \in [Issues -> Event]
  /\ overtaken \in [Issues -> BOOLEAN]

TrackerTypes == clock \in 0..IssueTime /\ tracker \in 0..MaxIssues /\ sent \subseteq Event

LEMMA CloseTypes ==
  ASSUME WorkTypes, NEW w \in Workers, Close(w)
  PROVE  WorkTypes' /\ clock' = clock
<1>1. NoSnapshot \in Snapshot /\ 0 \in 0..IssueTime /\ 0 \in 0..MaxIssues
  BY IssueAssumption DEF NoSnapshot, Snapshot, TrackerStatus
<1>2. \A v \in Workers : /\ event'[v] \in Event \cup {NoEvent(0)}
                         /\ step'[v] = "syncing" => event'[v] \in Event
  BY DEF Close, WorkTypes
<1>. QED
  BY <1>1, <1>2 DEF Close, WorkTypes

LEMMA CommitLinkTypes ==
  ASSUME IInv, WorkTypes, LinkTypes, TrackerTypes, NEW w \in Workers, CommitLink(w)
  PROVE  WorkTypes' /\ LinkTypes' /\ TrackerTypes'
<1> DEFINE row == [signal |-> signal[w], openedAt |-> moment[w], status |-> "open",
                   closedAt |-> Never, after |-> saw[w]]
<1>1. links' = [links EXCEPT ![hand[w]] = row] /\ Close(w) /\ UNCHANGED <<trackerVars, last, overtaken>>
  BY DEF CommitLink
<1>2. row \in Link
  <2>1. moment[w] \in Nat /\ signal[w] \in Signals /\ saw[w] \in SUBSET Issues
    BY IssueAssumption DEF WorkTypes
  <2>. QED
    BY <2>1 DEF Link, TrackerStatus
<1> HIDE DEF row
<1>3. LinkTypes'
  BY <1>1, <1>2 DEF LinkTypes
<1>. QED
  BY <1>1, <1>3, CloseTypes DEF TrackerTypes, trackerVars

LEMMA CommitSyncTypes ==
  ASSUME IInv, WorkTypes, LinkTypes, TrackerTypes, NEW w \in Workers, CommitSync(w)
  PROVE  WorkTypes' /\ LinkTypes' /\ TrackerTypes'
<1> DEFINE i == hand[w]
           row == links[i]
           s == Merged(Synced(w).status, loaded[w].status, row.status)
           d == Merged(Synced(w).closedAt, loaded[w].closedAt, row.closedAt)
           o == [status |-> row.status, closedAt |-> row.closedAt] # loaded[w]
           new == [[row EXCEPT !.status = s] EXCEPT !.closedAt = d]
<1>1. i \in Issues /\ Linked(i) /\ event[w].closedAt \in Nat \cup {Never}
  BY DEF CommitSync, IInv, IssueRows
<1>2. /\ links' = [links EXCEPT ![i] = new] /\ last' = [last EXCEPT ![i] = event[w]]
      /\ overtaken' = [overtaken EXCEPT ![i] = @ \/ o] /\ Close(w) /\ UNCHANGED trackerVars
  BY <1>1 DEF CommitSync, LinkTypes
<1>3. row \in Link
  BY <1>1 DEF LinkTypes, Linked
<1>4. s \in TrackerStatus /\ d \in Nat \cup {Never}
  BY <1>1, <1>3, MapStatusType DEF Merged, Synced, Link
<1>5. new \in Link
  BY <1>3, <1>4 DEF Link
<1>6. event[w] \in Event
  BY DEF CommitSync, WorkTypes
<1>7. o \in BOOLEAN
  OBVIOUS
<1> HIDE DEF new, o
<1>8. LinkTypes'
  BY <1>2, <1>5, <1>6, <1>7 DEF LinkTypes
<1>. QED
  BY <1>2, <1>8, CloseTypes DEF TrackerTypes, trackerVars

LEMMA IssueTypesStep == IInv /\ IssueTypeOK /\ WorkTypes /\ [IssueNext]_issueVars => IssueTypeOK' /\ WorkTypes'
<1> SUFFICES ASSUME IInv, WorkTypes, LinkTypes, TrackerTypes, [IssueNext]_issueVars
             PROVE  WorkTypes' /\ LinkTypes' /\ TrackerTypes'
  BY DEF IssueTypeOK, WorkTypes, LinkTypes, TrackerTypes
<1>1. CASE UNCHANGED issueVars
  BY <1>1 DEF issueVars, trackerVars, tableVars, workVars, WorkTypes, LinkTypes, TrackerTypes
<1>2. ASSUME NEW i \in Issues, NEW r \in Reports, Move(i, r)
      PROVE  WorkTypes' /\ LinkTypes' /\ TrackerTypes'
  <2> DEFINE e == [issue |-> i, status |-> r, closedAt |-> IF r = "done" THEN clock ELSE Never]
  <2>1. e \in Event
    BY IssueAssumption DEF TrackerTypes, Event
  <2>2. sent' = sent \cup {e} /\ UNCHANGED <<clock, tracker, tableVars, workVars>>
    BY <1>2 DEF Move
  <2> HIDE DEF e
  <2>. QED
    BY <2>1, <2>2 DEF tableVars, workVars, WorkTypes, LinkTypes, TrackerTypes
<1>3. ASSUME NEW w \in Workers, \/ \E g \in Signals : BeginFiling(w, g)
                                \/ LookUp(w) \/ File(w)
      PROVE  WorkTypes' /\ LinkTypes' /\ TrackerTypes'
  <2>1. ASSUME NEW g \in Signals, BeginFiling(w, g) PROVE WorkTypes' /\ LinkTypes' /\ TrackerTypes'
    BY <2>1 DEF BeginFiling, trackerVars, tableVars, WorkTypes, LinkTypes, TrackerTypes
  <2>2. CASE LookUp(w)
    <3>1. LinksOf(signal[w]) \in SUBSET Issues
      BY DEF LinksOf
    <3>. QED
      BY <2>2, <3>1 DEF LookUp, trackerVars, tableVars, WorkTypes, LinkTypes, TrackerTypes
  <2>3. CASE File(w)
    <3>1. tracker + 1 \in 0..MaxIssues
      BY <2>3, IssueAssumption DEF File, TrackerTypes
    <3>2. WorkTypes'
      BY <2>3, <3>1 DEF File, WorkTypes
    <3>. QED
      BY <2>3, <3>1, <3>2 DEF File, tableVars, LinkTypes, TrackerTypes
  <2>. QED
    BY <1>3, <2>1, <2>2, <2>3
<1>4. ASSUME NEW w \in Workers, CreateFails(w) \/ Rollback(w)
      PROVE  WorkTypes' /\ LinkTypes' /\ TrackerTypes'
  <2>1. Close(w) /\ UNCHANGED <<sent, tableVars>> /\ tracker' \in 0..MaxIssues
    BY <1>4 DEF CreateFails, Rollback, trackerVars, TrackerTypes
  <2>. QED
    BY <2>1, CloseTypes DEF tableVars, LinkTypes, TrackerTypes
<1>5. ASSUME NEW w \in Workers, NEW e \in sent, LoadLink(w, e)
      PROVE  WorkTypes' /\ LinkTypes' /\ TrackerTypes'
  <2> DEFINE old == [status |-> links[e.issue].status, closedAt |-> links[e.issue].closedAt]
  <2>1. e \in Event
    BY DEF TrackerTypes
  <2>2. e.issue \in Issues /\ e.issue \in 0..MaxIssues
    BY <2>1, IssueAssumption DEF Event, Issues
  <2>3. links[e.issue] \in Link
    BY <1>5, <2>2 DEF LoadLink, Linked, LinkTypes
  <2>4. old \in Snapshot
    BY <2>3 DEF Link, Snapshot
  <2>5. /\ step' = [step EXCEPT ![w] = "syncing"] /\ hand' = [hand EXCEPT ![w] = e.issue]
        /\ event' = [event EXCEPT ![w] = e] /\ loaded' = [loaded EXCEPT ![w] = old]
        /\ UNCHANGED <<clock, trackerVars, tableVars, signal, moment, saw>>
    BY <1>5 DEF LoadLink
  <2> HIDE DEF old
  <2>6. WorkTypes'
    BY <2>1, <2>2, <2>4, <2>5 DEF WorkTypes
  <2>. QED
    BY <2>5, <2>6 DEF trackerVars, tableVars, LinkTypes, TrackerTypes
<1>6. CASE ClockTick
  BY <1>6, IssueAssumption DEF ClockTick, trackerVars, tableVars, workVars, WorkTypes, LinkTypes, TrackerTypes
<1>. QED
  BY <1>1, <1>2, <1>3, <1>4, <1>5, <1>6, CommitLinkTypes, CommitSyncTypes DEF IssueNext

(* Links, events and transactions keep their types.                        *)
THEOREM IssueTypeCorrect == IssueSpec => []IssueTypeOK
<1>1. IssueInit => IInv /\ IssueTypeOK /\ WorkTypes
  <2> SUFFICES ASSUME IssueInit PROVE WorkTypes /\ LinkTypes /\ TrackerTypes
    BY IInit DEF IssueTypeOK, WorkTypes, LinkTypes, TrackerTypes
  <2>1. NoSnapshot \in Snapshot /\ 0 \in 0..IssueTime /\ 0 \in 0..MaxIssues
    BY IssueAssumption DEF NoSnapshot, Snapshot, TrackerStatus
  <2>2. \A i \in Issues : NoEvent(i) \in Event
    BY IssueAssumption DEF NoEvent, Event
  <2>3. (CHOOSE g \in Signals : TRUE) \in Signals
    BY IssueAssumption
  <2>4. WorkTypes
    BY <2>1, <2>3 DEF IssueInit, WorkTypes
  <2>. QED
    BY <2>1, <2>2, <2>4 DEF IssueInit, LinkTypes, TrackerTypes
<1>2. IInv /\ IssueTypeOK /\ WorkTypes /\ [IssueNext]_issueVars => IInv' /\ IssueTypeOK' /\ WorkTypes'
  BY INext, IssueTypesStep
<1>. QED
  BY <1>1, <1>2, PTL DEF IssueSpec

-----------------------------------------------------------------------------
(* Pins: their invariant. *)

PinRows ==
  /\ pin \in Pin \cup {NoPin} /\ nextPin \in 1..(MaxPins + 1)
  /\ pinLog \in Seq([ask : Asks, read : Pin \cup {NoPin}, after : Nat])
  /\ asked \in [Pinners -> Asks \cup {-1}]
  /\ readPin \in [Pinners -> Pin \cup {NoPin}] /\ logged \in [Pinners -> Nat]
  /\ \A s \in Pinners : asked[s] = 0 => readPin[s] # NoPin

(* An id that was given stays given, and one that was deleted is gone.     *)
GoneInv ==
  /\ pin # NoPin => pin.id < nextPin
  /\ \A s \in Pinners : readPin[s] # NoPin => readPin[s].id < nextPin
  /\ \A i \in DOMAIN pinLog : pinLog[i].ask = 0 =>
       /\ pinLog[i].read # NoPin /\ pinLog[i].read.id < nextPin
       /\ pin = NoPin \/ pin.id # pinLog[i].read.id

(* After a first pin there is one, unless there was a deletion since.      *)
FirstInv ==
  \A i \in DOMAIN pinLog : pinLog[i].read = NoPin =>
    pin # NoPin \/ \E k \in (i + 1)..Len(pinLog) : pinLog[k].ask = 0

(* Nothing moves the pin but what is audited.                              *)
SinceInv ==
  \A s \in Pinners : asked[s] # -1 =>
    /\ logged[s] <= Len(pinLog)
    /\ logged[s] = Len(pinLog) => readPin[s] = pin

PInv == PinRows /\ GoneInv /\ FirstInv /\ SinceInv /\ PinAsAudited

LEMMA PInit == PinInit => PInv
<1> SUFFICES ASSUME PinInit PROVE PInv
  OBVIOUS
<1> USE PinAssumption DEF PinInit
<1>1. PinRows
  BY DEF PinRows, Asks
<1>2. GoneInv /\ FirstInv /\ SinceInv
  BY DEF GoneInv, FirstInv, SinceInv
<1>3. PinAsAudited
  BY DEF PinAsAudited
<1>. QED
  BY <1>1, <1>2, <1>3 DEF PInv

(* What an audited operation adds to the log: an entry that a later one    *)
(* does not touch.                                                         *)
LEMMA PLogged ==
  ASSUME PInv, NEW s \in Pinners, asked[s] # -1, AuditPin(s)
  PROVE  /\ Len(pinLog') = Len(pinLog) + 1 /\ Len(pinLog) \in Nat
         /\ DOMAIN pinLog = 1..Len(pinLog) /\ DOMAIN pinLog' = 1..(Len(pinLog) + 1)
         /\ pinLog' \in Seq([ask : Asks, read : Pin \cup {NoPin}, after : Nat])
         /\ \A i \in 1..Len(pinLog) : pinLog'[i] = pinLog[i]
         /\ pinLog'[Len(pinLog) + 1].ask = asked[s]
         /\ pinLog'[Len(pinLog) + 1].read = readPin[s]
         /\ pinLog'[Len(pinLog) + 1].after = logged[s]
<1> DEFINE e == [ask |-> asked[s], read |-> readPin[s], after |-> logged[s]]
<1>1. e \in [ask : Asks, read : Pin \cup {NoPin}, after : Nat]
  BY DEF PInv, PinRows
<1>2. pinLog' = Append(pinLog, e) /\ pinLog \in Seq([ask : Asks, read : Pin \cup {NoPin}, after : Nat])
  BY DEF AuditPin, PInv, PinRows
<1>. QED
  BY <1>1, <1>2, AppendProperties, LenProperties

LEMMA PQuiet ==
  ASSUME PInv, UNCHANGED <<pin, pinLog, nextPin>>, PinRows',
         \A s \in Pinners : readPin'[s] = readPin[s] \/ readPin'[s] \in {NoPin, pin},
         SinceInv'
  PROVE  PInv'
<1>1. GoneInv'
  BY DEF PInv, GoneInv
<1>2. FirstInv'
  BY DEF PInv, FirstInv
<1>3. PinAsAudited'
  BY DEF PInv, PinAsAudited, Silent, Overlaps
<1>. QED
  BY <1>1, <1>2, <1>3 DEF PInv

LEMMA PRead ==
  ASSUME PInv, NEW s \in Pinners, FailPin(s) \/ \E ask \in Asks : GetPin(s, ask)
  PROVE  PInv'
<1>1. CASE FailPin(s)
  <2>1. PinRows'
    BY <1>1 DEF FailPin, EndPin, PInv, PinRows
  <2>2. SinceInv'
    BY <1>1 DEF FailPin, EndPin, PInv, SinceInv, PinRows
  <2>3. \A r \in Pinners : readPin'[r] = readPin[r] \/ readPin'[r] = NoPin
    BY <1>1 DEF FailPin, EndPin, PInv, PinRows
  <2>. QED
    BY <1>1, <2>1, <2>2, <2>3, PQuiet DEF FailPin
<1>2. CASE \E ask \in Asks : GetPin(s, ask)
  <2>1. PICK ask \in Asks : GetPin(s, ask)
    BY <1>2
  <2>2. Len(pinLog) \in Nat
    BY LenProperties DEF PInv, PinRows
  <2>3. PinRows'
    BY <2>1, <2>2 DEF GetPin, PInv, PinRows
  <2>4. SinceInv'
    BY <2>1, <2>2 DEF GetPin, PInv, SinceInv, PinRows
  <2>5. \A r \in Pinners : readPin'[r] = readPin[r] \/ readPin'[r] = pin
    BY <2>1 DEF GetPin, PInv, PinRows
  <2>. QED
    BY <2>1, <2>3, <2>4, <2>5, PQuiet DEF GetPin
<1>. QED
  BY <1>1, <1>2

(* What an audited operation has to do to the row.                         *)
LEMMA PAudited ==
  ASSUME PInv, NEW s \in Pinners, asked[s] # -1, AuditPin(s), EndPin(s),
         pin' \in Pin \cup {NoPin}, nextPin' \in 1..(MaxPins + 1), nextPin <= nextPin',
         pin' # NoPin => IF pin = NoPin THEN pin'.id = nextPin /\ nextPin < nextPin' ELSE pin'.id = pin.id,
         pin' = NoPin => pin = NoPin \/ asked[s] = 0,
         asked[s] = 0 => pin' = NoPin \/ pin'.id # readPin[s].id,
         readPin[s] = NoPin => pin = NoPin /\ pin' # NoPin,
         asked[s] > 0 => \/ pin' # NoPin /\ pin'.version = asked[s]
                         \/ /\ readPin[s] # NoPin /\ asked[s] = readPin[s].version
                            /\ logged[s] < Len(pinLog),
         asked[s] > 0 /\ readPin[s] # NoPin /\ asked[s] # readPin[s].version =>
           pin # NoPin /\ pin.id = readPin[s].id
  PROVE  PInv'
<1> DEFINE n == Len(pinLog)
           L == pinLog'
<1>1. /\ Len(L) = n + 1 /\ n \in Nat /\ DOMAIN pinLog = 1..n /\ DOMAIN L = 1..(n + 1)
      /\ L \in Seq([ask : Asks, read : Pin \cup {NoPin}, after : Nat])
      /\ \A i \in 1..n : L[i] = pinLog[i]
      /\ L[n + 1].ask = asked[s] /\ L[n + 1].read = readPin[s] /\ L[n + 1].after = logged[s]
  BY PLogged
<1>2. \A i \in 1..(n + 1) : i \in 1..n \/ i = n + 1
  BY <1>1
<1>3. /\ asked[s] \in Asks /\ readPin[s] \in Pin \cup {NoPin} /\ logged[s] \in Nat
      /\ asked[s] = 0 => readPin[s] # NoPin
  BY DEF PInv, PinRows
<1>4. /\ asked' = [asked EXCEPT ![s] = -1] /\ readPin' = [readPin EXCEPT ![s] = NoPin]
      /\ logged' = [logged EXCEPT ![s] = 0]
  BY DEF EndPin
<1> HIDE DEF n, L
<1>5. PinRows'
  <2>1. \A r \in Pinners : asked'[r] = 0 => readPin'[r] # NoPin
    BY <1>4 DEF PInv, PinRows
  <2>2. /\ asked' \in [Pinners -> Asks \cup {-1}] /\ logged' \in [Pinners -> Nat]
        /\ readPin' \in [Pinners -> Pin \cup {NoPin}]
    BY <1>4 DEF PInv, PinRows
  <2>. QED
    BY <1>1, <2>1, <2>2 DEF PinRows, L
<1>6. GoneInv'
  <2>1. \A m \in Nat : m < nextPin => m < nextPin' /\ m # nextPin
    BY DEF PInv, PinRows
  <2>2. \A q \in Pin : q.id \in Nat
    BY PinAssumption DEF Pin
  <2>3. pin' # NoPin => pin'.id < nextPin'
    BY <2>1, <2>2 DEF PInv, GoneInv, PinRows
  <2>4. \A r \in Pinners : readPin'[r] # NoPin => readPin'[r].id < nextPin'
    BY <1>4, <2>1, <2>2 DEF PInv, GoneInv, PinRows
  <2>5. ASSUME NEW i \in 1..n, L[i].ask = 0
        PROVE  /\ L[i].read # NoPin /\ L[i].read.id < nextPin'
               /\ pin' = NoPin \/ pin'.id # L[i].read.id
    <3>1. pinLog[i].ask = 0 /\ L[i] = pinLog[i] /\ i \in DOMAIN pinLog
      BY <1>1, <2>5
    <3>2. /\ L[i].read # NoPin /\ L[i].read.id < nextPin /\ (pin = NoPin \/ pin.id # L[i].read.id)
      BY <3>1 DEF PInv, GoneInv
    <3>3. pinLog[i] \in [ask : Asks, read : Pin \cup {NoPin}, after : Nat]
      BY <3>1, ElementOfSeq DEF PInv, PinRows, n
    <3>4. L[i].read.id \in Nat
      BY <2>2, <3>1, <3>2, <3>3
    <3>. QED
      BY <2>1, <3>2, <3>4
  <2>6. asked[s] = 0 => /\ readPin[s] # NoPin /\ readPin[s].id < nextPin'
                        /\ pin' = NoPin \/ pin'.id # readPin[s].id
    BY <1>3, <2>1, <2>2 DEF PInv, GoneInv
  <2>7. \A i \in 1..(n + 1) : L[i].ask = 0 =>
          /\ L[i].read # NoPin /\ L[i].read.id < nextPin'
          /\ pin' = NoPin \/ pin'.id # L[i].read.id
    BY <1>1, <1>2, <2>5, <2>6
  <2>. QED
    BY <1>1, <2>3, <2>4, <2>7 DEF GoneInv, L
<1>7. FirstInv'
  <2> SUFFICES ASSUME NEW i \in 1..(n + 1), L[i].read = NoPin, pin' = NoPin
               PROVE  \E k \in (i + 1)..(n + 1) : L[k].ask = 0
    BY <1>1 DEF FirstInv, L
  <2>1. i \in 1..n /\ L[i] = pinLog[i] /\ i \in DOMAIN pinLog
    BY <1>1, <1>2
  <2>2. CASE asked[s] = 0
    BY <1>1, <2>1, <2>2
  <2>3. CASE pin = NoPin
    <3>1. PICK k \in (i + 1)..n : pinLog[k].ask = 0
      BY <2>1, <2>3 DEF PInv, FirstInv, n
    <3>2. k \in 1..n /\ k \in (i + 1)..(n + 1)
      BY <1>1, <2>1
    <3>. QED
      BY <1>1, <3>1, <3>2
  <2>. QED
    BY <2>2, <2>3
<1>8. SinceInv'
  <2> SUFFICES ASSUME NEW r \in Pinners, asked'[r] # -1
               PROVE  logged'[r] <= Len(L) /\ (logged'[r] = Len(L) => readPin'[r] = pin')
    BY DEF SinceInv, L
  <2>1. r # s /\ asked[r] # -1 /\ logged'[r] = logged[r] /\ logged[r] \in Nat
    BY <1>4 DEF PInv, PinRows
  <2>2. logged[r] <= n
    BY <2>1 DEF PInv, SinceInv, n
  <2>. QED
    BY <1>1, <2>1, <2>2
<1>9. PinAsAudited'
  <2> DEFINE Sets(e, f) == e.ask = 0 /\ f.ask > 0 /\ f.read # NoPin /\ ~Silent(f)
             Twice(e, f) == e.read = NoPin /\ f.read = NoPin
  <2>1. LET e == L[n + 1]
            stands == pin' # NoPin /\ pin'.version = e.ask
        IN  IF e.ask = 0 THEN pin' = NoPin \/ pin'.id # e.read.id
                         ELSE stands \/ (Silent(e) /\ e.after < (n + 1) - 1)
    <3>1. asked[s] = 0 \/ asked[s] > 0
      <4>1. \A v \in PinVersions : v \in Nat /\ v # 0
        BY PinAssumption
      <4>2. asked[s] = 0 \/ (asked[s] \in Nat /\ asked[s] # 0)
        BY <1>3, <4>1 DEF Asks
      <4>. QED
        BY <4>2
    <3>2. (n + 1) - 1 = n
      BY <1>1
    <3>3. n = Len(pinLog)
      BY DEF n
    <3>4. CASE asked[s] = 0
      <4>1. L[n + 1].ask = 0 /\ L[n + 1].read = readPin[s]
        BY <1>1, <3>4
      <4>2. pin' = NoPin \/ pin'.id # readPin[s].id
        BY <3>4
      <4>. QED
        BY <4>1, <4>2
    <3>5. CASE asked[s] > 0
      <4>1. asked[s] # 0 /\ L[n + 1].ask = asked[s]
        BY <1>1, <3>5
      <4>2. CASE pin' # NoPin /\ pin'.version = asked[s]
        BY <4>1, <4>2
      <4>3. CASE readPin[s] # NoPin /\ asked[s] = readPin[s].version /\ logged[s] < Len(pinLog)
        <5>1. Silent(L[n + 1]) /\ L[n + 1].after < (n + 1) - 1
          BY <1>1, <3>2, <3>3, <4>3 DEF Silent
        <5>. QED
          BY <4>1, <5>1
      <4>. QED
        BY <3>5, <4>2, <4>3
    <3>. QED
      BY <3>1, <3>4, <3>5
  <2>2. ASSUME NEW i \in 1..(n + 1), NEW j \in 1..(n + 1), i < j, L[j].after < i
        PROVE  /\ Sets(L[i], L[j]) => L[i].read.id # L[j].read.id
               /\ Twice(L[i], L[j]) => \E k \in (i + 1)..(j - 1) : L[k].ask = 0
    <3>1. i \in 1..n /\ L[i] = pinLog[i] /\ i \in DOMAIN pinLog
      BY <1>1, <1>2, <2>2
    <3>2. CASE j \in 1..n
      <4>1. L[j] = pinLog[j] /\ j \in DOMAIN pinLog /\ Overlaps(j, i)
        BY <1>1, <2>2, <3>2 DEF Overlaps
      <4>2. /\ Sets(pinLog[i], pinLog[j]) => pinLog[i].read.id # pinLog[j].read.id
            /\ Twice(pinLog[i], pinLog[j]) => \E k \in (i + 1)..(j - 1) : pinLog[k].ask = 0
        BY <3>1, <4>1 DEF PInv, PinAsAudited
      <4>3. \A k \in (i + 1)..(j - 1) : k \in 1..n
        BY <1>1, <3>1, <3>2, SMTT(40)
      <4>. QED
        BY <1>1, <3>1, <4>1, <4>2, <4>3
    <3>3. CASE j = n + 1
      <4>1. L[j].ask = asked[s] /\ L[j].read = readPin[s] /\ j - 1 = n
        BY <1>1, <3>3
      <4>2. ASSUME Sets(L[i], L[j]) PROVE L[i].read.id # L[j].read.id
        <5>1. pin # NoPin /\ pin.id = readPin[s].id
          BY <4>1, <4>2 DEF Silent
        <5>2. pin.id # pinLog[i].read.id
          BY <3>1, <4>2, <5>1 DEF PInv, GoneInv
        <5>. QED
          BY <3>1, <4>1, <5>1, <5>2
      <4>3. ASSUME Twice(L[i], L[j]) PROVE \E k \in (i + 1)..(j - 1) : L[k].ask = 0
        <5>1. pin = NoPin
          BY <4>1, <4>3
        <5>2. PICK k \in (i + 1)..n : pinLog[k].ask = 0
          BY <3>1, <4>3, <5>1 DEF PInv, FirstInv, n
        <5>3. k \in 1..n
          BY <1>1, <3>1
        <5>. QED
          BY <1>1, <4>1, <5>2, <5>3
      <4>. QED
        BY <4>2, <4>3
    <3>. QED
      BY <1>2, <3>2, <3>3
  <2>3. L # <<>> => Len(L) = n + 1
    BY <1>1
  <2>. QED
    BY <1>1, <2>1, <2>2, <2>3 DEF PinAsAudited, Overlaps, Silent, L
<1>. QED
  BY <1>5, <1>6, <1>7, <1>8, <1>9 DEF PInv

LEMMA PWrites ==
  ASSUME PInv, NEW s \in Pinners, InsertPin(s) \/ UpdatePin(s) \/ DeletePin(s)
  PROVE  PInv'
<1>1. /\ asked[s] \in Asks \cup {-1} /\ readPin[s] \in Pin \cup {NoPin} /\ logged[s] \in Nat
      /\ asked[s] = 0 => readPin[s] # NoPin
      /\ pin \in Pin \cup {NoPin} /\ nextPin \in 1..(MaxPins + 1)
      /\ asked[s] > 0 => asked[s] \in PinVersions
  BY PinAssumption DEF PInv, PinRows, Asks
<1>2. CASE InsertPin(s)
  <2>1. /\ asked[s] > 0 /\ readPin[s] = NoPin /\ pin = NoPin /\ nextPin <= MaxPins
        /\ pin' = [id |-> nextPin, version |-> asked[s]] /\ nextPin' = nextPin + 1
        /\ AuditPin(s) /\ EndPin(s)
    BY <1>2 DEF InsertPin
  <2>2. pin' \in Pin /\ pin'.id = nextPin /\ pin'.version = asked[s]
    BY <1>1, <2>1, PinAssumption DEF Pin
  <2>3. pin' # NoPin
    BY <2>2, NoPinAssumption
  <2>4. nextPin' \in 1..(MaxPins + 1) /\ nextPin < nextPin' /\ nextPin <= nextPin' /\ asked[s] # -1 /\ asked[s] # 0
    BY <1>1, <2>1, PinAssumption
  <2>. QED
    BY <2>1, <2>2, <2>3, <2>4, PAudited
<1>3. CASE UpdatePin(s) /\ asked[s] = readPin[s].version
  <2>1. /\ asked[s] > 0 /\ readPin[s] # NoPin /\ pin' = pin /\ nextPin' = nextPin
        /\ AuditPin(s) /\ EndPin(s)
    BY <1>3 DEF UpdatePin
  <2>2. asked[s] # -1 /\ asked[s] # 0 /\ nextPin <= nextPin'
    BY <1>1, <2>1
  <2>3. logged[s] < Len(pinLog) \/ readPin[s] = pin
    <3>1. /\ logged[s] <= Len(pinLog) /\ (logged[s] = Len(pinLog) => readPin[s] = pin)
          /\ Len(pinLog) \in Nat
      BY <2>2, LenProperties DEF PInv, SinceInv, PinRows
    <3>. QED
      BY <1>1, <3>1
  <2>. QED
    BY <1>1, <1>3, <2>1, <2>2, <2>3, PAudited
<1>4. CASE UpdatePin(s) /\ asked[s] # readPin[s].version
  <2>1. /\ asked[s] > 0 /\ readPin[s] # NoPin /\ Same(s) /\ nextPin' = nextPin
        /\ pin' = [id |-> readPin[s].id, version |-> asked[s]]
        /\ AuditPin(s) /\ EndPin(s)
    BY <1>4 DEF UpdatePin
  <2>2. /\ asked[s] # -1 /\ asked[s] # 0 /\ nextPin <= nextPin'
        /\ pin # NoPin /\ pin.id = readPin[s].id
    BY <1>1, <2>1 DEF Same
  <2>3. pin' \in Pin /\ pin'.id = readPin[s].id /\ pin'.version = asked[s]
    BY <1>1, <2>1 DEF Pin
  <2>4. pin' # NoPin
    BY <2>3, NoPinAssumption
  <2>. QED
    BY <1>1, <1>4, <2>1, <2>2, <2>3, <2>4, PAudited
<1>5. CASE DeletePin(s)
  <2>1. /\ asked[s] = 0 /\ pin' = IF Same(s) THEN NoPin ELSE pin
        /\ nextPin' = nextPin /\ AuditPin(s) /\ EndPin(s)
    BY <1>5 DEF DeletePin
  <2>2. asked[s] # -1 /\ ~(asked[s] > 0) /\ nextPin <= nextPin' /\ readPin[s] # NoPin
    BY <1>1, <2>1
  <2>3. pin' = NoPin \/ pin'.id # readPin[s].id
    BY <2>1, <2>2 DEF Same
  <2>. QED
    BY <1>1, <2>1, <2>2, <2>3, PAudited
<1>. QED
  BY <1>2, <1>3, <1>4, <1>5

LEMMA PNext == PInv /\ [PinNext]_pinVars => PInv'
<1>1. ASSUME PInv, UNCHANGED pinVars PROVE PInv'
  <2>1. PinRows' /\ SinceInv'
    BY <1>1 DEF pinVars, PInv, PinRows, SinceInv
  <2>. QED
    BY <1>1, <2>1, PQuiet DEF pinVars
<1>. QED
  BY <1>1, PRead, PWrites DEF PinNext

(* The pin is what the audit log says last, and what raced with another    *)
(* operation has not worked against it: PinAsAudited of PromptPinService,  *)
(* for every number of transactions, versions and operations.              *)
THEOREM PinsAudited == PinSpec => []PinAsAudited
<1>1. PInv => PinAsAudited
  BY DEF PInv
<1>. QED
  BY PInit, PNext, <1>1, PTL DEF PinSpec

(* The row, the log and the transactions keep their types.                 *)
THEOREM PinTypeCorrect == PinSpec => []PinTypeOK
<1> DEFINE Bounded == Len(pinLog) <= MaxPins
<1>1. PinInit => Bounded
  BY PinAssumption DEF PinInit
<1>2. PInv /\ Bounded /\ [PinNext]_pinVars => Bounded'
  <2> SUFFICES ASSUME PInv, Bounded, [PinNext]_pinVars PROVE Len(pinLog') <= MaxPins
    OBVIOUS
  <2>1. CASE pinLog' = pinLog
    BY <2>1
  <2>2. ASSUME NEW s \in Pinners, Len(pinLog) < MaxPins, InsertPin(s) \/ UpdatePin(s) \/ DeletePin(s)
        PROVE  Len(pinLog') <= MaxPins
    <3>1. AuditPin(s)
      BY <2>2 DEF InsertPin, UpdatePin, DeletePin
    <3>2. asked[s] # -1
      BY <2>2, PinAssumption DEF InsertPin, UpdatePin, DeletePin, PInv, PinRows, Asks
    <3>3. Len(pinLog') = Len(pinLog) + 1 /\ Len(pinLog) \in Nat
      BY <3>1, <3>2, PLogged
    <3>. QED
      BY <2>2, <3>3, PinAssumption
  <2>3. CASE \E s \in Pinners : FailPin(s) \/ \E ask \in Asks : GetPin(s, ask)
    BY <2>1, <2>3 DEF FailPin, GetPin
  <2>. QED
    BY <2>1, <2>2, <2>3 DEF PinNext, pinVars
<1>3. PInv /\ Bounded => PinTypeOK
  BY DEF PInv, PinRows, PinTypeOK
<1> HIDE DEF Bounded
<1>. QED
  BY PInit, PNext, <1>1, <1>2, <1>3, PTL DEF PinSpec

-----------------------------------------------------------------------------
(* Links to repositories: their invariant. *)

LinkRow == [workspace : WorkspaceIds, name : RepositoryNames, active : BOOLEAN, looked : Nat]
CallRow == [op : {"none", "update", "link", "unlink"}, workspace : WorkspaceIds \cup {Nothing},
            arg : RepositoryNames \cup {Nothing}
                    \cup [name : WorkspaceNames, repo_url : {Nothing, Ellipsis}],
            step : {"none", "loaded", "fetched", "flushed", "revoked"}, looked : Nat]

(* The links that were there when a call looked for one of its workspace   *)
(* are not active in it, and no link ever gets active again.               *)
CallInv(s) ==
  /\ call[s] \in CallRow
  /\ call[s].op = "link" =>
       /\ call[s].workspace \in WorkspaceIds /\ call[s].arg \in RepositoryNames
       /\ call[s].looked <= Len(repositories)
       /\ \A l \in 1..call[s].looked :
            ~(repositories[l].active /\ repositories[l].workspace = call[s].workspace)
  /\ call[s].op = "unlink" => mine[s] \in Links
  /\ call[s].step = "revoked" => call[s].op = "unlink"

(* What was revoked was by an unlink that is about to commit, has          *)
(* committed, or was rolled back.                                          *)
EndingInv ==
  \A x \in revoked : \E k \in Links :
    /\ Installation[repositories[k].name] = x
    /\ \/ ~repositories[k].active
       \/ k \in botched
       \/ \E t \in Tenants : At(t, "unlink", "revoked") /\ mine[t] = k

WInv ==
  /\ repositories \in Seq(LinkRow) /\ DOMAIN call = Tenants /\ DOMAIN mine = Tenants
  /\ \A s \in Tenants : CallInv(s)
  /\ EndingInv
  /\ LinksApart

LEMMA NoCallIs == NoCall \in CallRow /\ NoCall.op = "none" /\ NoCall.step = "none" /\ NoCall.looked = 0
  BY DEF NoCall, CallRow

LEMMA WInit == WorkspaceInit => WInv
<1> SUFFICES ASSUME WorkspaceInit PROVE WInv
  OBVIOUS
<1>1. repositories = <<>> /\ revoked = {} /\ call = [s \in Tenants |-> NoCall] /\ DOMAIN mine = Tenants
  BY DEF WorkspaceInit
<1>2. \A s \in Tenants : CallInv(s)
  BY <1>1, NoCallIs DEF CallInv
<1>3. EndingInv /\ LinksApart
  BY <1>1 DEF EndingInv, LinksApart, Links
<1>4. repositories \in Seq(LinkRow) /\ DOMAIN call = Tenants
  BY <1>1
<1>. QED
  BY <1>1, <1>2, <1>3, <1>4 DEF WInv

(* The step of a call that changes no link.                                *)
LEMMA WKeep ==
  ASSUME WInv, NEW s \in Tenants, repositories' = repositories, revoked' = revoked,
         botched \subseteq botched',
         DOMAIN call' = Tenants, DOMAIN mine' = Tenants, CallInv(s)',
         \A t \in Tenants \ {s} : call'[t] = call[t] /\ mine'[t] = mine[t],
         At(s, "unlink", "revoked") => mine[s] \in botched'
  PROVE  WInv'
<1>1. \A t \in Tenants : CallInv(t)'
  <2> SUFFICES ASSUME NEW t \in Tenants, t # s PROVE CallInv(t)'
    OBVIOUS
  <2>. QED
    BY DEF WInv, CallInv, Links
<1>2. EndingInv'
  <2> SUFFICES ASSUME NEW x \in revoked
               PROVE  \E k \in Links :
                        /\ Installation[repositories[k].name] = x
                        /\ \/ ~repositories[k].active
                           \/ k \in botched'
                           \/ \E t \in Tenants : At(t, "unlink", "revoked")' /\ mine'[t] = k
    BY DEF EndingInv, Links
  <2>1. PICK k \in Links :
          /\ Installation[repositories[k].name] = x
          /\ \/ ~repositories[k].active
             \/ k \in botched
             \/ \E t \in Tenants : At(t, "unlink", "revoked") /\ mine[t] = k
    BY DEF WInv, EndingInv
  <2>2. ASSUME NEW t \in Tenants, At(t, "unlink", "revoked"), mine[t] = k
        PROVE  k \in botched' \/ (At(t, "unlink", "revoked")' /\ mine'[t] = k)
    BY <2>2 DEF At
  <2>. QED
    BY <2>1, <2>2
<1>3. LinksApart'
  BY DEF WInv, LinksApart, Links
<1>. QED
  BY <1>1, <1>2, <1>3 DEF WInv

LEMMA WAnswer ==
  ASSUME WInv, NEW s \in Tenants, Answer(s)
  PROVE  /\ DOMAIN call' = Tenants /\ DOMAIN mine' = Tenants
         /\ CallInv(s)' /\ ~At(s, "unlink", "revoked")'
         /\ \A t \in Tenants \ {s} : call'[t] = call[t] /\ mine'[t] = mine[t]
<1>1. /\ call' = [call EXCEPT ![s] = NoCall] /\ mine' = [mine EXCEPT ![s] = Nothing]
      /\ DOMAIN call = Tenants /\ DOMAIN mine = Tenants
  BY DEF Answer, WInv
<1>2. call'[s] = NoCall
  BY <1>1
<1>. QED
  BY <1>1, <1>2, NoCallIs DEF CallInv, At

LEMMA WReceive ==
  ASSUME WInv, NEW s \in Tenants, NEW w \in WorkspaceIds,
         \/ \E n \in WorkspaceNames, u \in {Nothing, Ellipsis} :
              Receive(s, "update", w, [name |-> n, repo_url |-> u], Loaded(w))
         \/ \E r \in RepositoryNames : link(s, w, r)
         \/ unlink(s, w)
  PROVE  WInv'
<1>1. ASSUME NEW kind \in {"update", "link", "unlink"}, NEW arg, NEW row,
             arg \in RepositoryNames \cup {Nothing}
                       \cup [name : WorkspaceNames, repo_url : {Nothing, Ellipsis}],
             Receive(s, kind, w, arg, row),
             kind = "link" => LinksOn(w) = {} /\ arg \in RepositoryNames,
             kind = "unlink" => row \in Links
      PROVE  WInv'
  <2> DEFINE c == [op |-> kind, workspace |-> w, arg |-> arg, step |-> "loaded",
                   looked |-> IF kind = "link" THEN Len(repositories) ELSE 0]
  <2>1. /\ call[s] = NoCall /\ call' = [call EXCEPT ![s] = c] /\ mine' = [mine EXCEPT ![s] = row]
        /\ UNCHANGED <<repositories, revoked, botched>>
    BY <1>1 DEF Receive
  <2>2. DOMAIN call = Tenants /\ DOMAIN mine = Tenants /\ Len(repositories) \in Nat
        /\ Links = 1..Len(repositories)
    BY LenProperties DEF WInv, Links
  <2>3. c \in CallRow /\ c.op = kind /\ c.workspace = w /\ c.arg = arg /\ c.step = "loaded"
        /\ (kind = "link" => c.looked = Len(repositories))
    BY <1>1, <2>2 DEF CallRow
  <2> HIDE DEF c
  <2>4. call'[s] = c /\ mine'[s] = row
    BY <2>1, <2>2
  <2>5. CallInv(s)'
    <3>1. kind = "link" => \A l \in 1..Len(repositories) :
            ~(repositories[l].active /\ repositories[l].workspace = w)
      BY <1>1, <2>2 DEF LinksOn
    <3>. QED
      BY <1>1, <2>1, <2>2, <2>3, <2>4, <3>1 DEF CallInv, Links
  <2>6. ~At(s, "unlink", "revoked")
    BY <2>1, NoCallIs DEF At
  <2>. QED
    BY <2>1, <2>2, <2>5, <2>6, WKeep
<1>2. CASE \E n \in WorkspaceNames, u \in {Nothing, Ellipsis} :
             Receive(s, "update", w, [name |-> n, repo_url |-> u], Loaded(w))
  <2>1. PICK n \in WorkspaceNames, u \in {Nothing, Ellipsis} :
             Receive(s, "update", w, [name |-> n, repo_url |-> u], Loaded(w))
    BY <1>2
  <2>. QED
    BY <1>1, <2>1
<1>3. CASE \E r \in RepositoryNames : link(s, w, r)
  BY <1>1, <1>3 DEF link, get_active
<1>4. CASE unlink(s, w)
  <2>1. PICK l \in get_active(w) : Receive(s, "unlink", w, Nothing, l)
    BY <1>4 DEF unlink
  <2>2. l \in Links
    BY <2>1 DEF get_active, LinksOn
  <2>. QED
    BY <1>1, <2>1, <2>2
<1>. QED
  BY <1>2, <1>3, <1>4

(* A link more, which the call had not seen one of.                        *)
LEMMA WLinked == ASSUME WInv, NEW s \in Tenants, CommitLinked(s) PROVE WInv'
<1> DEFINE w == call[s].workspace
           name == call[s].arg
           n == Len(repositories)
           e == [workspace |-> w, name |-> name, active |-> TRUE, looked |-> call[s].looked]
<1>1. CASE Refuse(s)
  <2>1. ~At(s, "unlink", "revoked")
    BY DEF CommitLinked, At
  <2>. QED
    BY <1>1, <2>1, WKeep, WAnswer DEF Refuse
<1>2. CASE ~Refuse(s)
  <2>1. /\ At(s, "link", "fetched") /\ ~\E l \in LinksOn(w) : repositories[l].name = name
        /\ repositories' = Append(repositories, e) /\ Answer(s) /\ UNCHANGED <<revoked, botched>>
    BY <1>2 DEF CommitLinked
  <2>2. /\ call[s] \in CallRow /\ w \in WorkspaceIds /\ name \in RepositoryNames
        /\ call[s].looked <= n
        /\ \A l \in 1..call[s].looked : ~(repositories[l].active /\ repositories[l].workspace = w)
    BY <2>1 DEF WInv, CallInv, At
  <2>3. e \in LinkRow /\ e.workspace = w /\ e.name = name /\ e.active /\ e.looked = call[s].looked
    BY <2>2 DEF LinkRow, CallRow
  <2>4. call[s].looked \in Nat /\ n \in Nat /\ Links = 1..n
    BY <2>2, LenProperties DEF CallRow, WInv, Links
  <2> HIDE DEF e, n
  <2>5. /\ repositories' \in Seq(LinkRow) /\ Len(repositories') = n + 1 /\ DOMAIN repositories' = 1..(n + 1)
        /\ repositories'[n + 1] = e /\ \A l \in 1..n : repositories'[l] = repositories[l]
    BY <2>1, <2>3, AppendProperties, LenProperties DEF WInv, n
  <2>6. \A l \in 1..(n + 1) : l \in 1..n \/ l = n + 1
    BY <2>4
  <2>7. \A t \in Tenants : CallInv(t)'
    <3> SUFFICES ASSUME NEW t \in Tenants, t # s PROVE CallInv(t)'
      BY <2>1, WAnswer
    <3>1. call'[t] = call[t] /\ mine'[t] = mine[t] /\ CallInv(t)
      BY <2>1, WAnswer DEF WInv
    <3>2. call[t].op = "link" => call[t].looked \in Nat /\ \A l \in 1..call[t].looked : l \in 1..n
      BY <2>4, <3>1 DEF CallInv, CallRow, n
    <3>3. n <= n + 1 /\ \A m \in Nat : m <= n => m <= n + 1
      BY <2>4
    <3>4. mine[t] \in Links => mine[t] \in DOMAIN repositories'
      BY <2>4, <2>5
    <3>. QED
      BY <2>5, <3>1, <3>2, <3>3, <3>4 DEF CallInv, Links, n
  <2>8. EndingInv'
    <3> SUFFICES ASSUME NEW x \in revoked
                 PROVE  \E k \in 1..(n + 1) :
                          /\ Installation[repositories'[k].name] = x
                          /\ \/ ~repositories'[k].active
                             \/ k \in botched'
                             \/ \E t \in Tenants : At(t, "unlink", "revoked")' /\ mine'[t] = k
      BY <2>1, <2>5 DEF EndingInv, Links
    <3>1. PICK k \in Links :
            /\ Installation[repositories[k].name] = x
            /\ \/ ~repositories[k].active
               \/ k \in botched
               \/ \E t \in Tenants : At(t, "unlink", "revoked") /\ mine[t] = k
      BY DEF WInv, EndingInv
    <3>2. k \in 1..(n + 1) /\ repositories'[k] = repositories[k]
      BY <2>4, <2>5, <3>1
    <3>3. ASSUME NEW t \in Tenants, At(t, "unlink", "revoked"), mine[t] = k
          PROVE  At(t, "unlink", "revoked")' /\ mine'[t] = k
      <4>1. t # s
        BY <2>1, <3>3 DEF At
      <4>. QED
        BY <2>1, <3>3, <4>1, WAnswer DEF At
    <3>. QED
      BY <2>1, <3>1, <3>2, <3>3
  <2>9. LinksApart'
    <3> SUFFICES ASSUME NEW l \in 1..(n + 1), NEW k \in 1..(n + 1), l < k,
                        repositories'[l].active, repositories'[k].active,
                        repositories'[l].workspace = repositories'[k].workspace
                 PROVE  repositories'[k].looked < l /\ repositories'[l].name # repositories'[k].name
      BY <2>5 DEF LinksApart, Links
    <3>1. l \in 1..n /\ repositories'[l] = repositories[l]
      BY <2>4, <2>5
    <3>2. CASE k \in 1..n
      BY <2>4, <2>5, <3>1, <3>2 DEF WInv, LinksApart
    <3>3. CASE k = n + 1
      <4>1. repositories'[k] = e
        BY <2>5, <3>3
      <4>2. repositories[l].active /\ repositories[l].workspace = w
        BY <2>3, <3>1, <4>1
      <4>3. l \in LinksOn(w)
        BY <2>4, <3>1, <4>2 DEF LinksOn
      <4>4. ~(l <= call[s].looked)
        BY <2>2, <2>4, <3>1, <4>2
      <4>. QED
        BY <2>1, <2>3, <2>4, <3>1, <4>1, <4>3, <4>4
    <3>. QED
      BY <2>6, <3>2, <3>3
  <2>. QED
    BY <2>1, <2>5, <2>7, <2>8, <2>9, WAnswer DEF WInv
<1>. QED
  BY <1>1, <1>2

(* A link less: the one whose installation is revoked by now.              *)
LEMMA WUnlinked == ASSUME WInv, NEW s \in Tenants, CommitUnlinked(s) PROVE WInv'
<1> DEFINE k == mine[s]
           n == Len(repositories)
<1>1. /\ At(s, "unlink", "revoked") /\ repositories' = [repositories EXCEPT ![k] = Unlinked(k)]
      /\ Answer(s) /\ UNCHANGED <<revoked, botched>>
  BY DEF CommitUnlinked
<1>2. k \in Links /\ n \in Nat /\ Links = 1..n /\ repositories \in Seq(LinkRow)
  BY <1>1, LenProperties DEF WInv, CallInv, At, Links
<1>3. \A l \in 1..n : repositories[l] \in LinkRow
  BY <1>2, ElementOfSeq
<1>4. /\ Unlinked(k) \in LinkRow /\ ~Unlinked(k).active /\ Unlinked(k).name = repositories[k].name
      /\ Unlinked(k).workspace = repositories[k].workspace
      /\ Unlinked(k).looked = repositories[k].looked
  BY <1>2, <1>3 DEF Unlinked, LinkRow
<1> HIDE DEF k, n
<1>5. /\ repositories' \in Seq(LinkRow) /\ Len(repositories') = n /\ DOMAIN repositories' = 1..n
      /\ \A l \in 1..n : repositories'[l] = IF l = k THEN Unlinked(k) ELSE repositories[l]
  BY <1>1, <1>2, <1>4, ExceptSeq, LenProperties DEF n
<1>6. \A l \in 1..n :
        /\ repositories'[l].name = repositories[l].name
        /\ repositories'[l].workspace = repositories[l].workspace
        /\ repositories'[l].looked = repositories[l].looked
        /\ repositories'[l].active => repositories[l].active /\ l # k
  BY <1>4, <1>5
<1>7. \A t \in Tenants : CallInv(t)'
  <2> SUFFICES ASSUME NEW t \in Tenants, t # s PROVE CallInv(t)'
    BY <1>1, WAnswer
  <2>1. call'[t] = call[t] /\ mine'[t] = mine[t] /\ CallInv(t)
    BY <1>1, WAnswer DEF WInv
  <2>2. call[t].op = "link" => call[t].looked \in Nat /\ \A l \in 1..call[t].looked : l \in 1..n
    BY <1>2, <2>1 DEF CallInv, CallRow, n
  <2>. QED
    BY <1>2, <1>5, <1>6, <2>1, <2>2 DEF CallInv, Links, n
<1>8. EndingInv'
  <2> SUFFICES ASSUME NEW x \in revoked
               PROVE  \E l \in 1..n :
                        /\ Installation[repositories'[l].name] = x
                        /\ \/ ~repositories'[l].active
                           \/ l \in botched'
                           \/ \E t \in Tenants : At(t, "unlink", "revoked")' /\ mine'[t] = l
    BY <1>1, <1>5 DEF EndingInv, Links
  <2>1. PICK l \in 1..n :
          /\ Installation[repositories[l].name] = x
          /\ \/ ~repositories[l].active
             \/ l \in botched
             \/ \E t \in Tenants : At(t, "unlink", "revoked") /\ mine[t] = l
    BY <1>2 DEF WInv, EndingInv
  <2>2. Installation[repositories'[l].name] = x
    BY <1>6, <2>1
  <2>3. CASE l = k
    BY <1>4, <1>5, <2>1, <2>2, <2>3
  <2>4. CASE l # k
    <3>1. ASSUME NEW t \in Tenants, At(t, "unlink", "revoked"), mine[t] = l
          PROVE  At(t, "unlink", "revoked")' /\ mine'[t] = l
      <4>1. t # s
        BY <2>4, <3>1 DEF k
      <4>. QED
        BY <1>1, <3>1, <4>1, WAnswer DEF At
    <3>. QED
      BY <1>1, <1>6, <2>1, <2>2, <3>1
  <2>. QED
    BY <2>3, <2>4
<1>9. LinksApart'
  <2>1. \A l, j \in 1..n : l < j /\ repositories[l].active /\ repositories[j].active
             /\ repositories[l].workspace = repositories[j].workspace
             => repositories[j].looked < l /\ repositories[l].name # repositories[j].name
    BY <1>2 DEF WInv, LinksApart
  <2>. QED
    BY <1>5, <1>6, <2>1 DEF LinksApart, Links
<1>. QED
  BY <1>1, <1>5, <1>7, <1>8, <1>9, WAnswer DEF WInv

LEMMA WRevokes == ASSUME WInv, NEW s \in Tenants, Revoke(s) PROVE WInv'
<1> DEFINE c == [call[s] EXCEPT !.step = "revoked"]
<1>1. /\ At(s, "unlink", "flushed") /\ call' = [call EXCEPT ![s] = c]
      /\ revoked' \subseteq revoked \cup {Installation[repositories[mine[s]].name]}
      /\ UNCHANGED <<repositories, mine, botched>>
  BY DEF Revoke, Reaches
<1>2. call[s] \in CallRow /\ call[s].op = "unlink" /\ mine[s] \in Links /\ DOMAIN call = Tenants
  BY <1>1 DEF WInv, CallInv, At
<1>3. c \in CallRow /\ c.op = "unlink" /\ c.step = "revoked"
  BY <1>2 DEF CallRow
<1> HIDE DEF c
<1>4. call'[s] = c /\ DOMAIN call' = Tenants /\ \A t \in Tenants \ {s} : call'[t] = call[t]
  BY <1>1, <1>2
<1>5. \A t \in Tenants : CallInv(t)'
  BY <1>1, <1>2, <1>3, <1>4 DEF WInv, CallInv, Links
<1>6. \A t \in Tenants : At(t, "unlink", "revoked") => At(t, "unlink", "revoked")'
  BY <1>1, <1>4 DEF At
<1>7. At(s, "unlink", "revoked")'
  BY <1>3, <1>4 DEF At
<1>8. EndingInv'
  BY <1>1, <1>2, <1>6, <1>7 DEF WInv, EndingInv, Links
<1>9. LinksApart'
  BY <1>1 DEF WInv, LinksApart, Links
<1>. QED
  BY <1>1, <1>4, <1>5, <1>8, <1>9 DEF WInv

LEMMA WCalls ==
  ASSUME WInv, NEW s \in Tenants, update(s) \/ GetRepository(s) \/ FlushUnlink(s) \/ Lose(s)
  PROVE  WInv'
<1>0. call[s] \in CallRow /\ CallInv(s) /\ DOMAIN call = Tenants /\ DOMAIN mine = Tenants
  BY DEF WInv, CallInv
<1>1. CASE update(s)
  <2>1. ~At(s, "unlink", "revoked") /\ Answer(s) /\ UNCHANGED <<repositories, revoked, botched>>
    BY <1>1 DEF update, Refuse, At
  <2>. QED
    BY <2>1, WKeep, WAnswer
<1>2. CASE GetRepository(s) /\ Refuse(s)
  <2>1. ~At(s, "unlink", "revoked") /\ Answer(s) /\ UNCHANGED <<repositories, revoked, botched>>
    BY <1>2 DEF GetRepository, Refuse, At
  <2>. QED
    BY <2>1, WKeep, WAnswer
<1>3. CASE FlushUnlink(s) \/ (GetRepository(s) /\ ~Refuse(s))
  <2>1. PICK next \in {"fetched", "flushed"} :
          /\ call' = [call EXCEPT ![s] = [call[s] EXCEPT !.step = next]]
          /\ call[s].step = "loaded"
          /\ UNCHANGED <<repositories, revoked, mine, botched>>
    BY <1>3 DEF FlushUnlink, GetRepository, Reaches, At
  <2> DEFINE c == [call[s] EXCEPT !.step = next]
  <2>2. c \in CallRow /\ c.op = call[s].op /\ c.workspace = call[s].workspace /\ c.arg = call[s].arg
        /\ c.looked = call[s].looked /\ c.step = next
    BY <1>0, <2>1 DEF CallRow
  <2>3. call'[s] = c /\ DOMAIN call' = Tenants /\ \A t \in Tenants \ {s} : call'[t] = call[t]
    BY <1>0, <2>1
  <2> HIDE DEF c
  <2>4. CallInv(s)'
    BY <1>0, <2>1, <2>2, <2>3 DEF CallInv, Links
  <2>5. ~At(s, "unlink", "revoked")
    BY <2>1 DEF At
  <2>. QED
    BY <1>0, <2>1, <2>3, <2>4, <2>5, WKeep
<1>4. CASE Lose(s)
  <2>1. /\ Answer(s) /\ UNCHANGED <<repositories, revoked>>
        /\ botched' = IF call[s].step = "revoked" THEN botched \cup {mine[s]} ELSE botched
    BY <1>4 DEF Lose
  <2>2. At(s, "unlink", "revoked") => mine[s] \in botched'
    BY <2>1 DEF At
  <2>3. botched \subseteq botched'
    BY <2>1
  <2>. QED
    BY <2>1, <2>2, <2>3, WKeep, WAnswer
<1>. QED
  BY <1>1, <1>2, <1>3, <1>4

LEMMA WNext == WInv /\ [WorkspaceNext]_workspaceVars => WInv'
<1> SUFFICES ASSUME WInv, [WorkspaceNext]_workspaceVars PROVE WInv'
  OBVIOUS
<1>1. CASE UNCHANGED <<repositories, revoked, call, mine, botched>>
  BY <1>1 DEF WInv, CallInv, EndingInv, LinksApart, Links, At
<1>2. CASE \E w \in WorkspaceIds : archive(w) \/ \E n \in WorkspaceNames : create(w, n)
  BY <1>1, <1>2 DEF archive, create
<1>3. CASE UNCHANGED workspaceVars
  BY <1>1, <1>3 DEF workspaceVars
<1>. QED
  BY <1>2, <1>3, WReceive, WLinked, WUnlinked, WRevokes, WCalls DEF WorkspaceNext

(* Two links of a workspace are active only if the second was looked for   *)
(* before the first was there, and never to one repository; and no link    *)
(* stays active without its installation but by a lost unlink: LinksApart  *)
(* and RevokedByUnlink, for every number of sessions and repositories.     *)
THEOREM LinksStayApart == WorkspaceSpec => []LinksKept
<1>1. WInv => LinksKept
  BY DEF WInv, EndingInv, LinksKept, RevokedByUnlink
<1>. QED
  BY WInit, WNext, <1>1, PTL DEF WorkspaceSpec

(* What an update holds: a row that is there and the columns it loaded.    *)
UpdateInv(s) ==
  call[s].op = "update" =>
    /\ call[s].workspace \in WorkspaceIds /\ workspaces[call[s].workspace] \in WorkspaceRow
    /\ call[s].arg \in [name : WorkspaceNames, repo_url : {Nothing, Ellipsis}]
    /\ DOMAIN mine[s] = {"name", "repo_url"}

LinkInv(s) == call[s].op = "link" => workspaces[call[s].workspace] \in WorkspaceRow

RowTypes ==
  /\ workspaces \in [WorkspaceIds -> WorkspaceRow \cup {NoWorkspace}]
  /\ \A s \in Tenants : UpdateInv(s) /\ LinkInv(s)

LinkTypeInv ==
  /\ \A l \in Links : repositories[l].looked \in 0..(l - 1)
  /\ botched \subseteq Links
  /\ DOMAIN held = Tenants /\ \A s \in Tenants : held[s] \in Links \cup {0}

(* A row that is there stays there, and a transaction that goes on holds   *)
(* what it held.                                                           *)
LEMMA RowsStay ==
  ASSUME RowTypes, NEW s \in Tenants,
         workspaces' \in [WorkspaceIds -> WorkspaceRow \cup {NoWorkspace}],
         \A w \in WorkspaceIds : workspaces[w] \in WorkspaceRow => workspaces'[w] \in WorkspaceRow,
         \A t \in Tenants : call[t].op = "link" => call[t].workspace \in WorkspaceIds,
         \A t \in Tenants \ {s} : call'[t] = call[t] /\ mine'[t] = mine[t],
         \/ call'[s].op \notin {"update", "link"}
         \/ /\ call'[s].op = call[s].op /\ call'[s].workspace = call[s].workspace
            /\ call'[s].arg = call[s].arg /\ mine'[s] = mine[s]
  PROVE  RowTypes'
<1>1. \A t \in Tenants \ {s} : UpdateInv(t)' /\ LinkInv(t)'
  BY DEF RowTypes, UpdateInv, LinkInv
<1>2. UpdateInv(s)' /\ LinkInv(s)'
  BY DEF RowTypes, UpdateInv, LinkInv
<1>. QED
  BY <1>1, <1>2 DEF RowTypes

(* What an update writes is a row again.                                   *)
LEMMA WrittenRow ==
  ASSUME WInv, RowTypes, NEW s \in Tenants, update(s)
  PROVE  RowTypes'
<1> DEFINE w == call[s].workspace
           new == Written(s)
           row == workspaces[w]
           next == [c \in DOMAIN row |-> IF c \in DOMAIN new THEN new[c] ELSE row[c]]
           bad == \/ "repo_url" \in DOMAIN new /\ new.repo_url = Ellipsis
                  \/ "name" \in DOMAIN new /\ Taken(w, new.name)
<1>1. /\ w \in WorkspaceIds /\ row \in WorkspaceRow
      /\ call[s].arg \in [name : WorkspaceNames, repo_url : {Nothing, Ellipsis}]
      /\ DOMAIN mine[s] = {"name", "repo_url"}
  BY DEF update, At, RowTypes, UpdateInv
<1>2. Answer(s)
  BY DEF update, Refuse
<1>3. /\ call'[s].op \notin {"update", "link"}
      /\ \A t \in Tenants \ {s} : call'[t] = call[t] /\ mine'[t] = mine[t]
  <2>1. call' = [call EXCEPT ![s] = NoCall]
    BY <1>2 DEF Answer
  <2>2. call'[s] = NoCall
    BY <2>1 DEF WInv
  <2>. QED
    BY <1>2, <2>2, NoCallIs, WAnswer
<1>4. \A t \in Tenants : call[t].op = "link" => call[t].workspace \in WorkspaceIds
  BY DEF WInv, CallInv
<1>5. CASE workspaces' = workspaces
  BY <1>3, <1>4, <1>5, RowsStay DEF RowTypes
<1>6. CASE ~bad /\ workspaces' = [workspaces EXCEPT ![w] = next]
  <2>1. /\ DOMAIN new \subseteq {"name", "repo_url"}
        /\ "name" \in DOMAIN new => new["name"] = call[s].arg["name"]
        /\ "repo_url" \in DOMAIN new => new["repo_url"] = call[s].arg["repo_url"]
    BY <1>1 DEF Written
  <2>2. /\ "name" \in DOMAIN new => new["name"] \in WorkspaceNames
        /\ "repo_url" \in DOMAIN new => new["repo_url"] = Nothing
    BY <1>1, <1>6, <2>1
  <2>3. DOMAIN row = {"name", "repo_url", "archived"}
        /\ row["name"] \in WorkspaceNames /\ row["repo_url"] \in RepositoryNames \cup {Nothing}
        /\ row["archived"] \in BOOLEAN
    BY <1>1 DEF WorkspaceRow
  <2> HIDE DEF new, row
  <2>4. /\ DOMAIN next = {"name", "repo_url", "archived"}
        /\ next["name"] \in WorkspaceNames /\ next["repo_url"] \in RepositoryNames \cup {Nothing}
        /\ next["archived"] = row["archived"]
    BY <2>1, <2>2, <2>3
  <2>5. next = [name |-> next["name"], repo_url |-> next["repo_url"], archived |-> next["archived"]]
    BY <2>4
  <2>6. next["archived"] \in BOOLEAN
    BY <2>3, <2>4
  <2> HIDE DEF next
  <2>7. next \in WorkspaceRow
    BY <2>4, <2>5, <2>6 DEF WorkspaceRow
  <2>8. /\ workspaces' \in [WorkspaceIds -> WorkspaceRow \cup {NoWorkspace}]
        /\ \A v \in WorkspaceIds : workspaces[v] \in WorkspaceRow => workspaces'[v] \in WorkspaceRow
    BY <1>1, <1>6, <2>7 DEF RowTypes
  <2>. QED
    BY <1>3, <1>4, <2>8, RowsStay
<1>. QED
  BY <1>5, <1>6 DEF update, Refuse

LEMMA ReceivedRow ==
  ASSUME WInv, RowTypes, NEW s \in Tenants, NEW w \in WorkspaceIds,
         \/ \E n \in WorkspaceNames, u \in {Nothing, Ellipsis} :
              Exists(w) /\ Receive(s, "update", w, [name |-> n, repo_url |-> u], Loaded(w))
         \/ \E r \in RepositoryNames : link(s, w, r)
         \/ unlink(s, w)
  PROVE  RowTypes' /\ UNCHANGED <<repositories, held, botched>>
<1>1. PICK kind, arg, row :
        /\ kind \in {"update", "link", "unlink"} /\ Receive(s, kind, w, arg, row)
        /\ kind = "update" => /\ Exists(w) /\ row = Loaded(w)
                              /\ arg \in [name : WorkspaceNames, repo_url : {Nothing, Ellipsis}]
        /\ kind = "link" => Exists(w)
  <2>. DEFINE Given == [name : WorkspaceNames, repo_url : {Nothing, Ellipsis}]
             Goal(kind, arg, row) ==
               /\ kind \in {"update", "link", "unlink"} /\ Receive(s, kind, w, arg, row)
               /\ kind = "update" => Exists(w) /\ row = Loaded(w) /\ arg \in Given
               /\ kind = "link" => Exists(w)
  <2>1. CASE \E n \in WorkspaceNames, u \in {Nothing, Ellipsis} :
               Exists(w) /\ Receive(s, "update", w, [name |-> n, repo_url |-> u], Loaded(w))
    <3>1. PICK n \in WorkspaceNames, u \in {Nothing, Ellipsis} :
            Exists(w) /\ Receive(s, "update", w, [name |-> n, repo_url |-> u], Loaded(w))
      BY <2>1
    <3>2. PICK a : a = [name |-> n, repo_url |-> u]
      OBVIOUS
    <3>3. a \in Given
      BY <3>2
    <3>4. Receive(s, "update", w, a, Loaded(w))
      BY <3>1, <3>2
    <3>. HIDE DEF Given
    <3>. QED
      BY <3>1, <3>3, <3>4
  <2>2. CASE \E r \in RepositoryNames : link(s, w, r)
    <3>1. PICK r \in RepositoryNames : Exists(w) /\ Receive(s, "link", w, r, Loaded(w))
      BY <2>2 DEF link
    <3>. QED
      BY <3>1
  <2>3. CASE unlink(s, w)
    <3>1. PICK l \in get_active(w) : Receive(s, "unlink", w, Nothing, l)
      BY <2>3 DEF unlink
    <3>. QED
      BY <3>1
  <2>4. \E kind, arg, row : Goal(kind, arg, row)
    BY <2>1, <2>2, <2>3
  <2>. QED
    BY <2>4
<1> DEFINE c == [op |-> kind, workspace |-> w, arg |-> arg, step |-> "loaded",
                 looked |-> IF kind = "link" THEN Len(repositories) ELSE 0]
<1>2. /\ call' = [call EXCEPT ![s] = c] /\ mine' = [mine EXCEPT ![s] = row]
      /\ UNCHANGED <<workspaces, repositories, held, botched>>
  BY <1>1 DEF Receive
<1>3. c.op = kind /\ c.workspace = w /\ c.arg = arg
  OBVIOUS
<1> HIDE DEF c
<1>4. /\ call'[s] = c /\ mine'[s] = row
      /\ \A t \in Tenants \ {s} : call'[t] = call[t] /\ mine'[t] = mine[t]
  BY <1>2 DEF WInv
<1>5. Exists(w) => workspaces[w] \in WorkspaceRow
  BY DEF RowTypes, Exists
<1>6. UpdateInv(s)' /\ LinkInv(s)'
  BY <1>1, <1>2, <1>3, <1>4, <1>5 DEF UpdateInv, LinkInv, Loaded
<1>7. \A t \in Tenants \ {s} : UpdateInv(t)' /\ LinkInv(t)'
  BY <1>2, <1>4 DEF RowTypes, UpdateInv, LinkInv
<1>. QED
  BY <1>2, <1>6, <1>7 DEF RowTypes

LEMMA LinkedRow ==
  ASSUME WInv, RowTypes, LinkTypeInv, NEW s \in Tenants, CommitLinked(s)
  PROVE  RowTypes' /\ LinkTypeInv'
<1> DEFINE w == call[s].workspace
           name == call[s].arg
<1>1. /\ w \in WorkspaceIds /\ name \in RepositoryNames /\ workspaces[w] \in WorkspaceRow
      /\ call[s].looked \in 0..Len(repositories)
  BY LenProperties DEF CommitLinked, At, WInv, CallInv, CallRow, RowTypes, LinkInv
<1>2. Answer(s)
  BY DEF CommitLinked, Refuse
<1>3. /\ call'[s].op \notin {"update", "link"}
      /\ \A t \in Tenants \ {s} : call'[t] = call[t] /\ mine'[t] = mine[t]
  <2>1. call' = [call EXCEPT ![s] = NoCall]
    BY <1>2 DEF Answer
  <2>2. call'[s] = NoCall
    BY <2>1 DEF WInv
  <2>. QED
    BY <1>2, <2>2, NoCallIs, WAnswer
<1>4. \A t \in Tenants : call[t].op = "link" => call[t].workspace \in WorkspaceIds
  BY DEF WInv, CallInv
<1>5. held' = [held EXCEPT ![s] = 0] /\ botched' = botched
  BY <1>2 DEF CommitLinked, Refuse, Answer
<1>6. CASE UNCHANGED <<workspaces, repositories>>
  <2>1. RowTypes'
    BY <1>3, <1>4, <1>6, RowsStay DEF RowTypes
  <2>2. LinkTypeInv'
    BY <1>5, <1>6 DEF LinkTypeInv, Links
  <2>. QED
    BY <2>1, <2>2
<1>7. ASSUME NEW url \in {workspaces[w].repo_url, name},
             workspaces' = [workspaces EXCEPT ![w].repo_url = url],
             repositories' = Append(repositories,
               [workspace |-> w, name |-> name, active |-> TRUE, looked |-> call[s].looked])
      PROVE  RowTypes' /\ LinkTypeInv'
  <2>1. [workspaces[w] EXCEPT !.repo_url = url] \in WorkspaceRow
    BY <1>1, <1>7 DEF WorkspaceRow
  <2>2. /\ workspaces' \in [WorkspaceIds -> WorkspaceRow \cup {NoWorkspace}]
        /\ \A v \in WorkspaceIds : workspaces[v] \in WorkspaceRow => workspaces'[v] \in WorkspaceRow
    BY <1>1, <1>7, <2>1 DEF RowTypes
  <2>3. RowTypes'
    BY <1>3, <1>4, <2>2, RowsStay
  <2>4. PICK n \in Nat : n = Len(repositories) /\ DOMAIN repositories = 1..n
    BY LenProperties DEF WInv
  <2> DEFINE l == [workspace |-> w, name |-> name, active |-> TRUE, looked |-> call[s].looked]
  <2>5. l.looked \in 0..n
    BY <1>1, <2>4
  <2>6. repositories' = Append(repositories, l)
    BY <1>7
  <2> HIDE DEF l
  <2>7. /\ DOMAIN repositories' = 1..(n + 1) /\ repositories'[n + 1] = l
        /\ \A i \in 1..n : repositories'[i] = repositories[i]
    BY <2>4, <2>6 DEF WInv
  <2>8. \A i \in Links' : repositories'[i].looked \in 0..(i - 1)
    BY <2>4, <2>5, <2>7 DEF Links, LinkTypeInv
  <2>9. Links \subseteq Links'
    BY <2>4, <2>7 DEF Links
  <2>. QED
    BY <1>5, <2>3, <2>8, <2>9 DEF LinkTypeInv
<1>. QED
  BY <1>6, <1>7 DEF CommitLinked, Refuse

LEMMA CalledRow ==
  ASSUME WInv, RowTypes, LinkTypeInv, NEW s \in Tenants,
         GetRepository(s) \/ FlushUnlink(s) \/ Revoke(s) \/ CommitUnlinked(s) \/ Lose(s)
  PROVE  RowTypes' /\ LinkTypeInv'
<1>0. /\ CallInv(s) /\ call[s] \in CallRow /\ DOMAIN call = Tenants /\ DOMAIN mine = Tenants
      /\ repositories \in Seq(LinkRow)
      /\ \A t \in Tenants : call[t].op = "link" => call[t].workspace \in WorkspaceIds
  BY DEF WInv, CallInv
<1>1. workspaces' = workspaces
  BY DEF GetRepository, FlushUnlink, Revoke, CommitUnlinked, Lose, Refuse
<1>2. RowTypes'
  <2>1. CASE Answer(s)
    <3>1. call' = [call EXCEPT ![s] = NoCall]
      BY <2>1 DEF Answer
    <3>2. call'[s] = NoCall
      BY <1>0, <3>1
    <3>. QED
      BY <1>0, <1>1, <2>1, <3>2, NoCallIs, WAnswer, RowsStay DEF RowTypes
  <2>2. ASSUME NEW next, Reaches(s, next), mine' = mine PROVE RowTypes'
    <3>1. call' = [call EXCEPT ![s] = [call[s] EXCEPT !.step = next]]
      BY <2>2 DEF Reaches
    <3> DEFINE c == [call[s] EXCEPT !.step = next]
    <3>2. c.op = call[s].op /\ c.workspace = call[s].workspace /\ c.arg = call[s].arg
      BY <1>0 DEF CallRow
    <3> HIDE DEF c
    <3>3. call'[s] = c /\ \A t \in Tenants \ {s} : call'[t] = call[t]
      BY <1>0, <3>1 DEF c
    <3>. QED
      BY <1>0, <1>1, <2>2, <3>2, <3>3, RowsStay DEF RowTypes
  <2>. QED
    BY <2>1, <2>2 DEF GetRepository, FlushUnlink, Revoke, CommitUnlinked, Lose, Refuse
<1>3. /\ Links' = Links
      /\ \A l \in Links : repositories'[l].looked = repositories[l].looked
  <2>1. CASE repositories' = repositories
    BY <2>1 DEF Links
  <2>2. CASE CommitUnlinked(s)
    <3>1. mine[s] \in Links /\ repositories' = [repositories EXCEPT ![mine[s]] = [repositories[mine[s]] EXCEPT !.active = FALSE]]
      BY <1>0, <2>2 DEF CommitUnlinked, Unlinked, At, CallInv
    <3>2. repositories[mine[s]] \in LinkRow
      BY <1>0, <3>1, LenProperties, ElementOfSeq DEF Links
    <3>. QED
      BY <3>1, <3>2 DEF Links, LinkRow
  <2>. QED
    BY <2>1, <2>2 DEF GetRepository, FlushUnlink, Revoke, Lose, Refuse
<1>4. botched' \subseteq Links
  BY <1>0 DEF GetRepository, FlushUnlink, Revoke, CommitUnlinked, Lose, Refuse, CallInv, LinkTypeInv
<1>5. DOMAIN held' = Tenants /\ \A t \in Tenants : held'[t] \in Links \cup {0}
  <2>1. held' = held \/ held' = [held EXCEPT ![s] = 0]
        \/ (mine[s] \in Links /\ held' = [held EXCEPT ![s] = mine[s]])
    BY <1>0 DEF GetRepository, FlushUnlink, Revoke, CommitUnlinked, Lose, Refuse, Answer, At, CallInv
  <2>. QED
    BY <2>1 DEF LinkTypeInv
<1>6. LinkTypeInv'
  BY <1>3, <1>4, <1>5 DEF LinkTypeInv
<1>. QED
  BY <1>2, <1>6

(* Workspaces, links and transactions keep their types.                    *)
THEOREM WorkspaceTypeCorrect == WorkspaceSpec => []WorkspaceTypeOK
<1> DEFINE Types == RowTypes /\ LinkTypeInv
<1>1. WorkspaceInit => Types
  <2> SUFFICES ASSUME WorkspaceInit PROVE RowTypes /\ LinkTypeInv
    OBVIOUS
  <2>1. Links = {}
    BY DEF WorkspaceInit, Links
  <2>2. \A s \in Tenants : call[s] = NoCall
    BY DEF WorkspaceInit
  <2>3. RowTypes
    BY <2>2, NoCallIs DEF WorkspaceInit, RowTypes, UpdateInv, LinkInv
  <2>4. LinkTypeInv
    BY <2>1 DEF WorkspaceInit, LinkTypeInv
  <2>. QED
    BY <2>3, <2>4
<1>2. WInv /\ Types /\ [WorkspaceNext]_workspaceVars => Types'
  <2> SUFFICES ASSUME WInv, RowTypes, LinkTypeInv, [WorkspaceNext]_workspaceVars
               PROVE  RowTypes' /\ LinkTypeInv'
    OBVIOUS
  <2>1. UNCHANGED <<repositories, held, botched>> => LinkTypeInv'
    BY DEF LinkTypeInv, Links
  <2>2. ASSUME NEW w \in WorkspaceIds, NEW row \in WorkspaceRow,
               workspaces' = [workspaces EXCEPT ![w] = row],
               UNCHANGED <<repositories, call, mine, held, botched>>
        PROVE  RowTypes' /\ LinkTypeInv'
    <3>1. /\ workspaces' \in [WorkspaceIds -> WorkspaceRow \cup {NoWorkspace}]
          /\ \A v \in WorkspaceIds : workspaces[v] \in WorkspaceRow => workspaces'[v] \in WorkspaceRow
      BY <2>2 DEF RowTypes
    <3>2. \A s \in Tenants : UpdateInv(s)' /\ LinkInv(s)'
      BY <2>2, <3>1 DEF RowTypes, UpdateInv, LinkInv, WInv, CallInv
    <3>. QED
      BY <2>1, <2>2, <3>1, <3>2 DEF RowTypes
  <2>3. ASSUME NEW w \in WorkspaceIds, NEW n \in WorkspaceNames, create(w, n)
        PROVE  RowTypes' /\ LinkTypeInv'
    <3>1. [name |-> n, repo_url |-> Nothing, archived |-> FALSE] \in WorkspaceRow
      BY DEF WorkspaceRow
    <3>. QED
      BY <2>2, <2>3, <3>1 DEF create
  <2>4. ASSUME NEW w \in WorkspaceIds, archive(w) PROVE RowTypes' /\ LinkTypeInv'
    <3>1. workspaces[w] \in WorkspaceRow
      BY <2>4 DEF archive, Exists, RowTypes
    <3>2. [workspaces[w] EXCEPT !.archived = TRUE] \in WorkspaceRow
      BY <3>1 DEF WorkspaceRow
    <3>. QED
      BY <2>2, <2>4, <3>2 DEF archive
  <2>5. ASSUME NEW s \in Tenants, update(s) PROVE RowTypes' /\ LinkTypeInv'
    <3>1. held' = [held EXCEPT ![s] = 0] /\ UNCHANGED <<repositories, botched>>
      BY <2>5 DEF update, Refuse, Answer
    <3>2. LinkTypeInv'
      BY <3>1 DEF LinkTypeInv, Links
    <3>. QED
      BY <2>5, <3>2, WrittenRow
  <2>6. CASE UNCHANGED workspaceVars
    BY <2>1, <2>6 DEF workspaceVars, RowTypes, UpdateInv, LinkInv
  <2>7. ASSUME NEW w \in WorkspaceIds, NEW s \in Tenants,
               \/ \E n \in WorkspaceNames, u \in {Nothing, Ellipsis} :
                    Exists(w) /\ Receive(s, "update", w, [name |-> n, repo_url |-> u], Loaded(w))
               \/ \E r \in RepositoryNames : link(s, w, r)
               \/ unlink(s, w)
        PROVE  RowTypes' /\ LinkTypeInv'
    BY <2>1, <2>7, ReceivedRow
  <2>. QED
    BY <2>3, <2>4, <2>5, <2>6, <2>7, LinkedRow, CalledRow DEF WorkspaceNext
<1>3. WInv /\ Types => WorkspaceTypeOK
  <2> SUFFICES ASSUME WInv, RowTypes, LinkTypeInv PROVE WorkspaceTypeOK
    OBVIOUS
  <2>1. \A l \in Links : repositories[l].name \in RepositoryNames
    <3>1. ASSUME NEW l \in Links PROVE repositories[l] \in LinkRow
      BY <3>1, LenProperties, ElementOfSeq DEF WInv, Links
    <3>. QED
      BY <3>1 DEF LinkRow
  <2>. QED
    BY <2>1 DEF RowTypes, LinkTypeInv, WorkspaceTypeOK
<1> HIDE DEF Types
<1>. QED
  BY WInit, WNext, <1>1, <1>2, <1>3, PTL DEF WorkspaceSpec

-----------------------------------------------------------------------------
(* The registry of models: what its rows and their histories have to do    *)
(* with each other.                                                        *)

RegistryActs == {"register", "scorecard", "deprecate"} \cup Verdicts
TrailEntry == [act : RegistryActs, arg : 0..ReleaseTime \cup Scorecards \cup {Null}, seen : Nat]

ActsOf(t) == {t[i].act : i \in DOMAIN t}
LastAt(t, acts, i) ==
  i \in DOMAIN t /\ t[i].act \in acts /\ \A j \in DOMAIN t : t[j].act \in acts => j <= i
InOrder(t) == \A i \in DOMAIN t : t[i].seen = i - 1

BackedRow(row, t) ==
  /\ t # <<>> /\ t[1].act = "register" /\ t[1].seen = 0 /\ t[1].arg = row.released_at
  /\ row.status = "candidate" <=> ActsOf(t) \cap Verdicts = {}
  /\ row.decision # Null <=> row.status # "candidate"
  /\ row.decision # Null => \E i \in DOMAIN t : LastAt(t, Verdicts, i) /\ row.decision = t[i].act
  /\ row.status \in {"pinned", "deprecated"} => "go" \in ActsOf(t)
  /\ row.status = "pinned"   => row.decision = "go"
  /\ row.status = "rejected" => row.decision = "no_go"
  /\ row.status = "deprecated" => "deprecate" \in ActsOf(t)

(* ... and more of it when no two transactions have overlapped. *)
BackedInOrder(row, t) ==
  InOrder(t) =>
    /\ \A i, j \in DOMAIN t : t[i].act \in Verdicts /\ t[j].act \in Verdicts => i = j
    /\ row.status = "deprecated" => row.decision = "go"
    /\ row.deprecation_at # Null <=> row.status = "deprecated"
    /\ "scorecard" \in ActsOf(t) =>
         \E i \in DOMAIN t : LastAt(t, {"scorecard"}, i) /\ row.scorecard = t[i].arg

(* What an open transaction holds of a row is what that was when it had as *)
(* many events as the transaction has seen.                                *)
HeldRow(job, old, n, row, t) ==
  /\ n <= Len(t) /\ (n = Len(t) => old = row)
  /\ job.act = "register" <=> old = NoEntry
  /\ job.act = "register" => n = 0 /\ job.arg \in 0..ReleaseTime
  /\ old # NoEntry => row # NoEntry
  /\ job.act \in Verdicts => old.status = "candidate" /\ old.decision = Null
  /\ job.act = "deprecate" => old.status = "pinned" /\ "go" \in ActsOf(t) /\ job.arg \in 0..ReleaseTime
  /\ job.act = "scorecard" => job.arg \in Scorecards

Job == [act : RegistryActs, of : Releases, arg : 0..ReleaseTime \cup Scorecards \cup {Null}]

MInv ==
  /\ today \in 0..ReleaseTime
  /\ registry \in [Releases -> RegistryRow \cup {NoEntry}]
  /\ trail \in [Releases -> Seq(TrailEntry)]
  /\ task \in [Curators -> Job \cup {Idle}]
  /\ entry \in [Curators -> RegistryRow \cup {NoEntry}] /\ seen \in [Curators -> Nat]
  /\ \A m \in Releases :
       IF registry[m] = NoEntry THEN trail[m] = <<>>
       ELSE BackedRow(registry[m], trail[m]) /\ BackedInOrder(registry[m], trail[m])
  /\ \A s \in Curators : task[s] # Idle =>
       HeldRow(task[s], entry[s], seen[s], registry[task[s].of], trail[task[s].of])

-----------------------------------------------------------------------------
LEMMA UpdateIs ==
  ASSUME NEW old \in RegistryRow, NEW new \in RegistryRow, NEW row \in RegistryRow
  PROVE  LET r == Update(old, new, row) IN
         /\ r \in RegistryRow
         /\ r.released_at = IF new.released_at # old.released_at THEN new.released_at ELSE row.released_at
         /\ r.status = IF new.status # old.status THEN new.status ELSE row.status
         /\ r.decision = IF new.decision # old.decision THEN new.decision ELSE row.decision
         /\ r.deprecation_at = IF new.deprecation_at # old.deprecation_at
                                 THEN new.deprecation_at ELSE row.deprecation_at
         /\ r.scorecard = IF new.scorecard # old.scorecard THEN new.scorecard ELSE row.scorecard
         /\ old = row => r = new
<1> DEFINE r == Update(old, new, row)
<1>1. DOMAIN new = {"released_at", "status", "decision", "decision_at", "deprecation_at", "scorecard"}
  BY DEF RegistryRow
<1>2. r = [c \in DOMAIN new |-> IF new[c] # old[c] THEN new[c] ELSE row[c]]
  BY DEF Update
<1> HIDE DEF r
<1>3. r \in RegistryRow
  BY <1>1, <1>2 DEF RegistryRow
<1>4. old = row => r = [c \in DOMAIN new |-> new[c]]
  BY <1>2
<1>5. new = [c \in DOMAIN new |-> new[c]]
  BY <1>1 DEF RegistryRow
<1>. QED
  BY <1>1, <1>2, <1>3, <1>4, <1>5 DEF r

LEMMA TrailGrows ==
  ASSUME NEW t \in Seq(TrailEntry), NEW e \in TrailEntry
  PROVE  LET u == Append(t, e) IN
         /\ u \in Seq(TrailEntry) /\ Len(u) = Len(t) + 1 /\ Len(t) \in Nat
         /\ ActsOf(u) = ActsOf(t) \cup {e.act}
         /\ t = <<>> => u[1] = e
         /\ t # <<>> => u[1] = t[1]
         /\ u # <<>>
         /\ InOrder(u) => InOrder(t) /\ e.seen = Len(t)
         /\ DOMAIN u = DOMAIN t \cup {Len(t) + 1} /\ u[Len(t) + 1] = e
         /\ \A i \in DOMAIN t : u[i] = t[i] /\ i # Len(t) + 1
<1> DEFINE u == Append(t, e)
           n == Len(t)
<1>1. /\ u \in Seq(TrailEntry) /\ Len(u) = n + 1 /\ n \in Nat /\ DOMAIN t = 1..n /\ DOMAIN u = 1..(n + 1)
      /\ u[n + 1] = e /\ \A i \in 1..n : u[i] = t[i]
  BY AppendProperties, LenProperties
<1>2. t = <<>> <=> n = 0
  BY EmptySeq
<1> HIDE DEF u, n
<1>3. DOMAIN u = DOMAIN t \cup {n + 1} /\ \A i \in DOMAIN t : u[i] = t[i] /\ i # n + 1
  BY <1>1
<1>4. ActsOf(u) = ActsOf(t) \cup {e.act}
  BY <1>1, <1>3 DEF ActsOf
<1>5. (t = <<>> => u[1] = e) /\ (t # <<>> => u[1] = t[1]) /\ u # <<>>
  BY <1>1, <1>2, EmptySeq
<1>6. InOrder(u) => InOrder(t) /\ e.seen = n
  BY <1>1, <1>3 DEF InOrder
<1>. QED
  BY <1>1, <1>3, <1>4, <1>5, <1>6 DEF u, n

LEMMA LastGrows ==
  ASSUME NEW t \in Seq(TrailEntry), NEW e \in TrailEntry, NEW acts
  PROVE  LET u == Append(t, e) IN
         /\ e.act \in acts => LastAt(u, acts, Len(t) + 1)
         /\ e.act \notin acts => \A i : LastAt(t, acts, i) => LastAt(u, acts, i) /\ u[i] = t[i]
<1> DEFINE u == Append(t, e)
           n == Len(t)
<1>1. /\ n \in Nat /\ DOMAIN t = 1..n /\ DOMAIN u = 1..(n + 1)
      /\ u[n + 1] = e /\ \A i \in 1..n : u[i] = t[i]
  BY AppendProperties, LenProperties
<1> HIDE DEF u, n
<1>. QED
  BY <1>1 DEF LastAt, u, n

LEMMA Registered ==
  ASSUME NEW date \in 0..ReleaseTime
  PROVE  LET t == <<[act |-> "register", arg |-> date, seen |-> 0]>> IN
         register(date) \in RegistryRow /\ BackedRow(register(date), t) /\ BackedInOrder(register(date), t)
<1> DEFINE e == [act |-> "register", arg |-> date, seen |-> 0]
           t == <<e>>
<1>1. DOMAIN t = {1} /\ t[1] = e /\ t # <<>>
  OBVIOUS
<1>2. ActsOf(t) = {"register"}
  BY <1>1 DEF ActsOf
<1>3. register(date) \in RegistryRow
  BY DEF register, RegistryRow, Statuses
<1>. QED
  BY <1>1, <1>2, <1>3 DEF register, BackedRow, BackedInOrder, Verdicts

(* A commit after the first, by its act. *)
LEMMA Attached ==
  ASSUME NEW old \in RegistryRow, NEW row \in RegistryRow, NEW t \in Seq(TrailEntry),
         NEW job \in Job, job.act = "scorecard", NEW n \in Nat, NEW now \in 0..ReleaseTime,
         BackedRow(row, t), BackedInOrder(row, t), HeldRow(job, old, n, row, t)
  PROVE  LET r == Update(old, Changed(job.act, old, job.arg, now), row)
             u == Append(t, [act |-> job.act, arg |-> job.arg, seen |-> n])
         IN  r \in RegistryRow /\ BackedRow(r, u) /\ BackedInOrder(r, u)
<1> DEFINE new == Changed(job.act, old, job.arg, now)
           e == [act |-> job.act, arg |-> job.arg, seen |-> n]
           r == Update(old, new, row)
           u == Append(t, e)
<1>1. new = [old EXCEPT !.scorecard = job.arg] /\ job.arg \in Scorecards
  BY DEF Changed, HeldRow, Verdicts
<1>2. /\ new \in RegistryRow /\ new.scorecard = job.arg /\ new.released_at = old.released_at
      /\ new.status = old.status /\ new.decision = old.decision /\ new.deprecation_at = old.deprecation_at
  BY <1>1 DEF RegistryRow
<1>3. e \in TrailEntry /\ e.act = "scorecard" /\ e.arg = job.arg /\ e.seen = n
  BY DEF TrailEntry, Job
<1> HIDE DEF new, e
<1>4. /\ r \in RegistryRow /\ r.released_at = row.released_at /\ r.status = row.status
      /\ r.decision = row.decision /\ r.deprecation_at = row.deprecation_at
      /\ old = row => r.scorecard = job.arg
  BY <1>2, UpdateIs
<1> HIDE DEF r
<1>5. /\ ActsOf(u) = ActsOf(t) \cup {"scorecard"} /\ u # <<>> /\ (t # <<>> => u[1] = t[1])
      /\ InOrder(u) => InOrder(t) /\ n = Len(t)
      /\ LastAt(u, {"scorecard"}, Len(t) + 1) /\ u[Len(t) + 1] = e
      /\ \A i : LastAt(t, Verdicts, i) => LastAt(u, Verdicts, i) /\ u[i] = t[i]
      /\ DOMAIN u = DOMAIN t \cup {Len(t) + 1}
      /\ \A i \in DOMAIN t : u[i] = t[i] /\ i # Len(t) + 1
  <2>1. e.act \in {"scorecard"} /\ e.act \notin Verdicts
    BY <1>3 DEF Verdicts
  <2>2. /\ ActsOf(u) = ActsOf(t) \cup {e.act} /\ u # <<>> /\ (t # <<>> => u[1] = t[1])
        /\ InOrder(u) => InOrder(t) /\ e.seen = Len(t)
        /\ DOMAIN u = DOMAIN t \cup {Len(t) + 1} /\ u[Len(t) + 1] = e
        /\ \A i \in DOMAIN t : u[i] = t[i] /\ i # Len(t) + 1
    BY <1>3, TrailGrows
  <2>3. /\ e.act \in Verdicts => LastAt(u, Verdicts, Len(t) + 1)
        /\ e.act \notin Verdicts => \A i : LastAt(t, Verdicts, i) => LastAt(u, Verdicts, i) /\ u[i] = t[i]
    BY <1>3, LastGrows
  <2>4. LET acts == {"scorecard"} IN
        /\ e.act \in acts => LastAt(u, acts, Len(t) + 1)
        /\ e.act \notin acts => \A i : LastAt(t, acts, i) => LastAt(u, acts, i) /\ u[i] = t[i]
    <3> DEFINE acts == {"scorecard"}
    <3> HIDE DEF acts
    <3>1. /\ e.act \in acts => LastAt(u, acts, Len(t) + 1)
          /\ e.act \notin acts => \A i : LastAt(t, acts, i) => LastAt(u, acts, i) /\ u[i] = t[i]
      BY <1>3, LastGrows
    <3>. QED
      BY <3>1 DEF acts
  <2>. QED
    BY <1>3, <2>1, <2>2, <2>3, <2>4
<1> HIDE DEF u
<1>6. "scorecard" \notin Verdicts /\ "scorecard" # "deprecate" /\ "scorecard" # "go"
  BY DEF Verdicts
<1>7. BackedRow(r, u)
  <2>1. ActsOf(u) \cap Verdicts = ActsOf(t) \cap Verdicts /\ ActsOf(t) \subseteq ActsOf(u)
    BY <1>5, <1>6
  <2>2. row.decision # Null => \E i \in DOMAIN u : LastAt(u, Verdicts, i) /\ row.decision = u[i].act
    BY <1>5 DEF BackedRow
  <2>. QED
    BY <1>4, <1>5, <2>1, <2>2 DEF BackedRow
<1>8. BackedInOrder(r, u)
  <2> SUFFICES ASSUME InOrder(u)
               PROVE  /\ \A i, j \in DOMAIN u : u[i].act \in Verdicts /\ u[j].act \in Verdicts => i = j
                      /\ r.status = "deprecated" => r.decision = "go"
                      /\ r.deprecation_at # Null <=> r.status = "deprecated"
                      /\ \E i \in DOMAIN u : LastAt(u, {"scorecard"}, i) /\ r.scorecard = u[i].arg
    BY DEF BackedInOrder
  <2>1. InOrder(t) /\ old = row
    BY <1>5 DEF HeldRow
  <2>2. \A i \in DOMAIN u : u[i].act \in Verdicts => i \in DOMAIN t /\ u[i] = t[i]
    BY <1>3, <1>5, <1>6
  <2>. QED
    BY <1>3, <1>4, <1>5, <2>1, <2>2 DEF BackedInOrder
<1>. QED
  BY <1>4, <1>7, <1>8 DEF r, u, new, e

LEMMA Decided ==
  ASSUME NEW old \in RegistryRow, NEW row \in RegistryRow, NEW t \in Seq(TrailEntry),
         NEW job \in Job, job.act \in Verdicts, NEW n \in Nat, NEW now \in 0..ReleaseTime,
         BackedRow(row, t), BackedInOrder(row, t), HeldRow(job, old, n, row, t)
  PROVE  LET r == Update(old, Changed(job.act, old, job.arg, now), row)
             u == Append(t, [act |-> job.act, arg |-> job.arg, seen |-> n])
         IN  r \in RegistryRow /\ BackedRow(r, u) /\ BackedInOrder(r, u)
<1> DEFINE new == Changed(job.act, old, job.arg, now)
           e == [act |-> job.act, arg |-> job.arg, seen |-> n]
           r == Update(old, new, row)
           u == Append(t, e)
           status == IF job.act = "go" THEN "pinned" ELSE "rejected"
<1>1. /\ new = [old EXCEPT !.decision = job.act, !.decision_at = now, !.status = status]
      /\ old.status = "candidate" /\ old.decision = Null
  BY DEF Changed, HeldRow, Verdicts
<1>2. /\ new \in RegistryRow /\ new.scorecard = old.scorecard /\ new.released_at = old.released_at
      /\ new.status = status /\ new.decision = job.act /\ new.deprecation_at = old.deprecation_at
  BY <1>1 DEF RegistryRow, Statuses
<1>3. e \in TrailEntry /\ e.act = job.act /\ e.arg = job.arg /\ e.seen = n
  BY DEF TrailEntry, Job
<1>4. job.act # Null /\ (job.act = "go" \/ job.act = "no_go")
  BY NullAssumption DEF Verdicts
<1> HIDE DEF new, e
<1>5. /\ r \in RegistryRow /\ r.released_at = row.released_at /\ r.status = status
      /\ r.decision = job.act /\ r.deprecation_at = row.deprecation_at
      /\ r.scorecard = row.scorecard
  <2>1. /\ r \in RegistryRow
        /\ r.released_at = IF new.released_at # old.released_at THEN new.released_at ELSE row.released_at
        /\ r.status = IF new.status # old.status THEN new.status ELSE row.status
        /\ r.decision = IF new.decision # old.decision THEN new.decision ELSE row.decision
        /\ r.deprecation_at = IF new.deprecation_at # old.deprecation_at
                                THEN new.deprecation_at ELSE row.deprecation_at
        /\ r.scorecard = IF new.scorecard # old.scorecard THEN new.scorecard ELSE row.scorecard
        /\ old = row => r = new
    BY <1>2, UpdateIs
  <2>. QED
    BY <1>1, <1>2, <1>4, <2>1
<1> HIDE DEF r
<1>6. /\ ActsOf(u) = ActsOf(t) \cup {job.act} /\ u # <<>> /\ (t # <<>> => u[1] = t[1])
      /\ InOrder(u) => InOrder(t) /\ n = Len(t)
      /\ LastAt(u, Verdicts, Len(t) + 1) /\ u[Len(t) + 1] = e
      /\ \A i : LastAt(t, {"scorecard"}, i) => LastAt(u, {"scorecard"}, i) /\ u[i] = t[i]
      /\ DOMAIN u = DOMAIN t \cup {Len(t) + 1}
      /\ \A i \in DOMAIN t : u[i] = t[i] /\ i # Len(t) + 1
  <2>1. e.act \in Verdicts /\ e.act \notin {"scorecard"}
    BY <1>3, <1>4 DEF Verdicts
  <2>2. /\ ActsOf(u) = ActsOf(t) \cup {e.act} /\ u # <<>> /\ (t # <<>> => u[1] = t[1])
        /\ InOrder(u) => InOrder(t) /\ e.seen = Len(t)
        /\ DOMAIN u = DOMAIN t \cup {Len(t) + 1} /\ u[Len(t) + 1] = e
        /\ \A i \in DOMAIN t : u[i] = t[i] /\ i # Len(t) + 1
    BY <1>3, TrailGrows
  <2>3. /\ e.act \in Verdicts => LastAt(u, Verdicts, Len(t) + 1)
        /\ e.act \notin Verdicts => \A i : LastAt(t, Verdicts, i) => LastAt(u, Verdicts, i) /\ u[i] = t[i]
    BY <1>3, LastGrows
  <2>4. LET acts == {"scorecard"} IN
        /\ e.act \in acts => LastAt(u, acts, Len(t) + 1)
        /\ e.act \notin acts => \A i : LastAt(t, acts, i) => LastAt(u, acts, i) /\ u[i] = t[i]
    <3> DEFINE acts == {"scorecard"}
    <3> HIDE DEF acts
    <3>1. /\ e.act \in acts => LastAt(u, acts, Len(t) + 1)
          /\ e.act \notin acts => \A i : LastAt(t, acts, i) => LastAt(u, acts, i) /\ u[i] = t[i]
      BY <1>3, LastGrows
    <3>. QED
      BY <3>1 DEF acts
  <2>. QED
    BY <1>3, <2>1, <2>2, <2>3, <2>4
<1> HIDE DEF u
<1>7. BackedRow(r, u)
  <2>1. ActsOf(u) \cap Verdicts # {} /\ r.status # "candidate" /\ r.status # "deprecated"
    BY <1>4, <1>5, <1>6
  <2>2. r.decision # Null /\ \E i \in DOMAIN u : LastAt(u, Verdicts, i) /\ r.decision = u[i].act
    BY <1>3, <1>4, <1>5, <1>6
  <2>3. /\ r.status = "pinned"   => r.decision = "go" /\ "go" \in ActsOf(u)
        /\ r.status = "rejected" => r.decision = "no_go"
    BY <1>4, <1>5, <1>6
  <2>. QED
    BY <1>5, <1>6, <2>1, <2>2, <2>3 DEF BackedRow
<1>8. BackedInOrder(r, u)
  <2> SUFFICES ASSUME InOrder(u)
               PROVE  /\ \A i, j \in DOMAIN u : u[i].act \in Verdicts /\ u[j].act \in Verdicts => i = j
                      /\ r.status # "deprecated" /\ r.deprecation_at = Null
                      /\ "scorecard" \in ActsOf(u) =>
                           \E i \in DOMAIN u : LastAt(u, {"scorecard"}, i) /\ r.scorecard = u[i].arg
    BY DEF BackedInOrder
  <2>1. InOrder(t) /\ old = row
    BY <1>6 DEF HeldRow
  <2>2. \A i \in DOMAIN t : t[i].act \notin Verdicts
    BY <1>1, <2>1 DEF BackedRow, ActsOf
  <2>3. \A i, j \in DOMAIN u : u[i].act \in Verdicts /\ u[j].act \in Verdicts => i = j
    BY <1>6, <2>2
  <2>4. r.status # "deprecated" /\ r.deprecation_at = Null
    BY <1>1, <1>4, <1>5, <2>1 DEF BackedInOrder
  <2>5. ASSUME "scorecard" \in ActsOf(u)
        PROVE  \E i \in DOMAIN u : LastAt(u, {"scorecard"}, i) /\ r.scorecard = u[i].arg
    <3>1. "scorecard" \in ActsOf(t)
      BY <1>4, <1>6, <2>5
    <3>2. PICK i \in DOMAIN t : LastAt(t, {"scorecard"}, i) /\ row.scorecard = t[i].arg
      BY <2>1, <3>1 DEF BackedInOrder
    <3>. QED
      BY <1>5, <1>6, <3>2
  <2>. QED
    BY <2>3, <2>4, <2>5
<1>. QED
  BY <1>5, <1>7, <1>8 DEF r, u, new, e

LEMMA Deprecates ==
  ASSUME NEW old \in RegistryRow, NEW row \in RegistryRow, NEW t \in Seq(TrailEntry),
         NEW job \in Job, job.act = "deprecate", NEW n \in Nat, NEW now \in 0..ReleaseTime,
         BackedRow(row, t), BackedInOrder(row, t), HeldRow(job, old, n, row, t)
  PROVE  LET r == Update(old, Changed(job.act, old, job.arg, now), row)
             u == Append(t, [act |-> job.act, arg |-> job.arg, seen |-> n])
         IN  r \in RegistryRow /\ BackedRow(r, u) /\ BackedInOrder(r, u)
<1> DEFINE new == Changed(job.act, old, job.arg, now)
           e == [act |-> job.act, arg |-> job.arg, seen |-> n]
           r == Update(old, new, row)
           u == Append(t, e)
<1>1. /\ new = [old EXCEPT !.deprecation_at = job.arg, !.status = "deprecated"]
      /\ old.status = "pinned" /\ "go" \in ActsOf(t) /\ job.arg \in 0..ReleaseTime
  BY DEF Changed, HeldRow, Verdicts
<1>2. /\ new \in RegistryRow /\ new.scorecard = old.scorecard /\ new.released_at = old.released_at
      /\ new.status = "deprecated" /\ new.decision = old.decision /\ new.deprecation_at = job.arg
  BY <1>1 DEF RegistryRow, Statuses
<1>3. e \in TrailEntry /\ e.act = "deprecate" /\ e.arg = job.arg /\ e.seen = n
  BY DEF TrailEntry, Job
<1>4. job.arg # Null
  <2>1. job.arg \in Nat
    BY <1>1, LifecycleAssumption
  <2>. QED
    BY <2>1, NullAssumption
<1> HIDE DEF new, e
<1>5. /\ r \in RegistryRow /\ r.released_at = row.released_at /\ r.status = "deprecated"
      /\ r.decision = row.decision /\ r.scorecard = row.scorecard
      /\ old = row => r.deprecation_at = job.arg
  <2>1. /\ r \in RegistryRow
        /\ r.released_at = IF new.released_at # old.released_at THEN new.released_at ELSE row.released_at
        /\ r.status = IF new.status # old.status THEN new.status ELSE row.status
        /\ r.decision = IF new.decision # old.decision THEN new.decision ELSE row.decision
        /\ r.deprecation_at = IF new.deprecation_at # old.deprecation_at
                                THEN new.deprecation_at ELSE row.deprecation_at
        /\ r.scorecard = IF new.scorecard # old.scorecard THEN new.scorecard ELSE row.scorecard
        /\ old = row => r = new
    BY <1>2, UpdateIs
  <2>. QED
    BY <1>1, <1>2, <2>1
<1> HIDE DEF r
<1>6. /\ ActsOf(u) = ActsOf(t) \cup {"deprecate"} /\ u # <<>> /\ (t # <<>> => u[1] = t[1])
      /\ InOrder(u) => InOrder(t) /\ n = Len(t)
      /\ \A i : LastAt(t, {"scorecard"}, i) => LastAt(u, {"scorecard"}, i) /\ u[i] = t[i]
      /\ \A i : LastAt(t, Verdicts, i) => LastAt(u, Verdicts, i) /\ u[i] = t[i]
      /\ DOMAIN u = DOMAIN t \cup {Len(t) + 1} /\ u[Len(t) + 1] = e
      /\ \A i \in DOMAIN t : u[i] = t[i] /\ i # Len(t) + 1
  <2>1. e.act \notin Verdicts /\ e.act \notin {"scorecard"}
    BY <1>3 DEF Verdicts
  <2>2. /\ ActsOf(u) = ActsOf(t) \cup {e.act} /\ u # <<>> /\ (t # <<>> => u[1] = t[1])
        /\ InOrder(u) => InOrder(t) /\ e.seen = Len(t)
        /\ DOMAIN u = DOMAIN t \cup {Len(t) + 1} /\ u[Len(t) + 1] = e
        /\ \A i \in DOMAIN t : u[i] = t[i] /\ i # Len(t) + 1
    BY <1>3, TrailGrows
  <2>3. /\ e.act \in Verdicts => LastAt(u, Verdicts, Len(t) + 1)
        /\ e.act \notin Verdicts => \A i : LastAt(t, Verdicts, i) => LastAt(u, Verdicts, i) /\ u[i] = t[i]
    BY <1>3, LastGrows
  <2>4. LET acts == {"scorecard"} IN
        /\ e.act \in acts => LastAt(u, acts, Len(t) + 1)
        /\ e.act \notin acts => \A i : LastAt(t, acts, i) => LastAt(u, acts, i) /\ u[i] = t[i]
    <3> DEFINE acts == {"scorecard"}
    <3> HIDE DEF acts
    <3>1. /\ e.act \in acts => LastAt(u, acts, Len(t) + 1)
          /\ e.act \notin acts => \A i : LastAt(t, acts, i) => LastAt(u, acts, i) /\ u[i] = t[i]
      BY <1>3, LastGrows
    <3>. QED
      BY <3>1 DEF acts
  <2>. QED
    BY <1>3, <2>1, <2>2, <2>3, <2>4
<1> HIDE DEF u
<1>7. row.status # "candidate" /\ row.decision # Null
  BY <1>1 DEF BackedRow, Verdicts
<1>8. BackedRow(r, u)
  <2>1. ActsOf(u) \cap Verdicts # {} /\ "go" \in ActsOf(u) /\ "deprecate" \in ActsOf(u)
    BY <1>1, <1>6 DEF Verdicts
  <2>2. \E i \in DOMAIN u : LastAt(u, Verdicts, i) /\ r.decision = u[i].act
    BY <1>5, <1>6, <1>7 DEF BackedRow
  <2>. QED
    BY <1>5, <1>6, <1>7, <2>1, <2>2 DEF BackedRow
<1>9. BackedInOrder(r, u)
  <2> SUFFICES ASSUME InOrder(u)
               PROVE  /\ \A i, j \in DOMAIN u : u[i].act \in Verdicts /\ u[j].act \in Verdicts => i = j
                      /\ r.decision = "go" /\ r.deprecation_at # Null
                      /\ "scorecard" \in ActsOf(u) =>
                           \E i \in DOMAIN u : LastAt(u, {"scorecard"}, i) /\ r.scorecard = u[i].arg
    BY <1>5 DEF BackedInOrder
  <2>1. InOrder(t) /\ old = row
    BY <1>6 DEF HeldRow
  <2>2. \A i \in DOMAIN u : u[i].act \in Verdicts => i \in DOMAIN t /\ u[i] = t[i]
    BY <1>3, <1>6 DEF Verdicts
  <2>3. \A i, j \in DOMAIN u : u[i].act \in Verdicts /\ u[j].act \in Verdicts => i = j
    BY <2>1, <2>2 DEF BackedInOrder
  <2>4. r.decision = "go" /\ r.deprecation_at # Null
    BY <1>1, <1>4, <1>5, <2>1 DEF BackedRow
  <2>5. ASSUME "scorecard" \in ActsOf(u)
        PROVE  \E i \in DOMAIN u : LastAt(u, {"scorecard"}, i) /\ r.scorecard = u[i].arg
    <3>1. "scorecard" \in ActsOf(t)
      BY <1>6, <2>5
    <3>2. PICK i \in DOMAIN t : LastAt(t, {"scorecard"}, i) /\ row.scorecard = t[i].arg
      BY <2>1, <3>1 DEF BackedInOrder
    <3>. QED
      BY <1>5, <1>6, <3>2
  <2>. QED
    BY <2>3, <2>4, <2>5
<1>. QED
  BY <1>5, <1>8, <1>9 DEF r, u, new, e

LEMMA HeldStays ==
  ASSUME NEW job, NEW old, NEW n \in Nat, NEW row, NEW next \in RegistryRow, NEW t \in Seq(TrailEntry),
         NEW e \in TrailEntry, HeldRow(job, old, n, row, t)
  PROVE  HeldRow(job, old, n, next, Append(t, e))
<1>1. Len(Append(t, e)) = Len(t) + 1 /\ Len(t) \in Nat /\ ActsOf(Append(t, e)) = ActsOf(t) \cup {e.act}
  BY TrailGrows
<1>2. next # NoEntry
  BY NullAssumption
<1>3. n <= Len(t) + 1 /\ n # Len(t) + 1
  BY <1>1 DEF HeldRow
<1>. QED
  BY <1>1, <1>2, <1>3 DEF HeldRow

(* The step of one transaction that writes nothing.                        *)
LEMMA MOther ==
  ASSUME MInv, NEW s \in Curators, UNCHANGED registryVars, today' = today,
         task' \in [Curators -> Job \cup {Idle}],
         entry' \in [Curators -> RegistryRow \cup {NoEntry}], seen' \in [Curators -> Nat],
         \A t \in Curators \ {s} : task'[t] = task[t] /\ entry'[t] = entry[t] /\ seen'[t] = seen[t],
         task'[s] # Idle =>
           HeldRow(task'[s], entry'[s], seen'[s], registry[task'[s].of], trail[task'[s].of])
  PROVE  MInv'
BY DEF MInv, registryVars

LEMMA DoneIs ==
  ASSUME MInv, NEW s \in Curators, Done(s)
  PROVE  /\ task' \in [Curators -> Job \cup {Idle}] /\ task'[s] = Idle
         /\ entry' \in [Curators -> RegistryRow \cup {NoEntry}] /\ seen' \in [Curators -> Nat]
         /\ \A t \in Curators \ {s} : task'[t] = task[t] /\ entry'[t] = entry[t] /\ seen'[t] = seen[t]
         /\ today' = today
BY DEF MInv, Done

LEMMA MLoad ==
  ASSUME MInv, NEW s \in Curators, NEW act \in RegistryActs, NEW m \in Releases,
         NEW arg \in 0..ReleaseTime \cup Scorecards \cup {Null}, Load(s, act, m, arg),
         act \in {"register", "deprecate"} => arg \in 0..ReleaseTime,
         act = "scorecard" => arg \in Scorecards
  PROVE  MInv'
<1> DEFINE job == [act |-> act, of |-> m, arg |-> arg]
           row == registry[m]
           t == trail[m]
<1>1. /\ Allowed(act, row) /\ task' = [task EXCEPT ![s] = job] /\ entry' = [entry EXCEPT ![s] = row]
      /\ seen' = [seen EXCEPT ![s] = Len(t)] /\ today' = today /\ UNCHANGED registryVars
  BY DEF Load
<1>2. job \in Job /\ job.act = act /\ job.of = m /\ job.arg = arg
  BY DEF Job
<1>3. row \in RegistryRow \cup {NoEntry} /\ t \in Seq(TrailEntry) /\ Len(t) \in Nat
      /\ (row = NoEntry => t = <<>>) /\ (row # NoEntry => BackedRow(row, t))
  BY LenProperties DEF MInv
<1> HIDE DEF job, row, t
<1>4. HeldRow(job, row, Len(t), row, t)
  <2>1. act = "register" <=> row = NoEntry
    BY <1>1 DEF Allowed, RegistryActs, Verdicts
  <2>2. t = <<>> => Len(t) = 0
    OBVIOUS
  <2>3. act \in Verdicts => row.status = "candidate" /\ row # NoEntry
    BY <1>1 DEF Allowed, Verdicts
  <2>4. act \in Verdicts => row.decision = Null
    BY <1>3, <2>3 DEF BackedRow
  <2>5. act = "deprecate" => row.status = "pinned" /\ row # NoEntry
    BY <1>1 DEF Allowed, Verdicts
  <2>6. act = "deprecate" => "go" \in ActsOf(t)
    BY <1>3, <2>5 DEF BackedRow
  <2>. QED
    BY <1>2, <1>3, <2>1, <2>2, <2>3, <2>4, <2>5, <2>6 DEF HeldRow
<1>5. /\ task' \in [Curators -> Job \cup {Idle}] /\ entry' \in [Curators -> RegistryRow \cup {NoEntry}]
      /\ seen' \in [Curators -> Nat] /\ task'[s] = job /\ entry'[s] = row /\ seen'[s] = Len(t)
      /\ \A r \in Curators \ {s} : task'[r] = task[r] /\ entry'[r] = entry[r] /\ seen'[r] = seen[r]
  BY <1>1, <1>2, <1>3 DEF MInv
<1>6. registry[job.of] = row /\ trail[job.of] = t
  BY <1>2 DEF row, t
<1>. QED
  BY <1>1, <1>4, <1>5, <1>6, MOther

LEMMA MCommit ==
  ASSUME MInv, NEW s \in Curators, CuratorCommits(s)
  PROVE  MInv'
<1> DEFINE job == task[s]
           m == job.of
           new == Changed(job.act, entry[s], job.arg, today)
           next == IF registry[m] = NoEntry THEN new ELSE Update(entry[s], new, registry[m])
           e == [act |-> job.act, arg |-> job.arg, seen |-> seen[s]]
<1>1. /\ job # Idle /\ (job.act = "register" => registry[m] = NoEntry)
      /\ registry' = [registry EXCEPT ![m] = next] /\ trail' = [trail EXCEPT ![m] = Append(trail[m], e)]
      /\ Done(s)
  BY DEF CuratorCommits
<1>2. /\ job \in Job /\ m \in Releases /\ job.act \in RegistryActs /\ seen[s] \in Nat
      /\ HeldRow(job, entry[s], seen[s], registry[m], trail[m])
      /\ entry[s] \in RegistryRow \cup {NoEntry} /\ registry[m] \in RegistryRow \cup {NoEntry}
      /\ trail[m] \in Seq(TrailEntry) /\ today \in 0..ReleaseTime
      /\ IF registry[m] = NoEntry THEN trail[m] = <<>>
         ELSE BackedRow(registry[m], trail[m]) /\ BackedInOrder(registry[m], trail[m])
  BY <1>1 DEF MInv, Job
<1>3. e \in TrailEntry
  BY <1>2 DEF TrailEntry, Job
<1>4. next \in RegistryRow /\ BackedRow(next, Append(trail[m], e)) /\ BackedInOrder(next, Append(trail[m], e))
  <2>1. CASE job.act = "register"
    <3>1. registry[m] = NoEntry /\ trail[m] = <<>> /\ seen[s] = 0 /\ job.arg \in 0..ReleaseTime
      BY <1>1, <1>2, <2>1 DEF HeldRow
    <3>2. next = register(job.arg)
      BY <2>1, <3>1 DEF Changed
    <3>3. Append(trail[m], e) = <<[act |-> "register", arg |-> job.arg, seen |-> 0]>>
      BY <2>1, <3>1
    <3>. QED
      BY <3>1, <3>2, <3>3, Registered
  <2>2. CASE job.act # "register"
    <3>1. entry[s] # NoEntry /\ registry[m] # NoEntry
      BY <1>2, <2>2 DEF HeldRow
    <3>2. next = Update(entry[s], Changed(job.act, entry[s], job.arg, today), registry[m])
      BY <3>1
    <3>3. job.act = "scorecard" \/ job.act = "deprecate" \/ job.act \in Verdicts
      BY <1>2, <2>2 DEF RegistryActs
    <3> HIDE DEF next, job, m
    <3>. QED
      BY <1>2, <3>1, <3>2, <3>3, Attached, Decided, Deprecates DEF new
  <2>. QED
    BY <2>1, <2>2
<1> HIDE DEF next, new, e, job, m
<1>5. /\ registry' \in [Releases -> RegistryRow \cup {NoEntry}] /\ registry'[m] = next
      /\ \A l \in Releases \ {m} : registry'[l] = registry[l] /\ trail'[l] = trail[l]
      /\ trail'[m] = Append(trail[m], e)
  BY <1>1, <1>2, <1>4 DEF MInv
<1>6. trail' \in [Releases -> Seq(TrailEntry)]
  <2>1. Append(trail[m], e) \in Seq(TrailEntry)
    BY <1>2, <1>3, TrailGrows
  <2>. QED
    BY <1>1, <1>2, <2>1 DEF MInv
<1>7. \A l \in Releases :
        IF registry'[l] = NoEntry THEN trail'[l] = <<>>
        ELSE BackedRow(registry'[l], trail'[l]) /\ BackedInOrder(registry'[l], trail'[l])
  <2> SUFFICES ASSUME NEW l \in Releases
               PROVE  IF registry'[l] = NoEntry THEN trail'[l] = <<>>
                      ELSE BackedRow(registry'[l], trail'[l]) /\ BackedInOrder(registry'[l], trail'[l])
    OBVIOUS
  <2>1. CASE l = m
    <3>1. registry'[l] # NoEntry
      BY <1>4, <1>5, <2>1, NullAssumption
    <3>. QED
      BY <1>4, <1>5, <2>1, <3>1
  <2>2. CASE l # m
    BY <1>5, <2>2 DEF MInv
  <2>. QED
    BY <2>1, <2>2
<1>8. ASSUME NEW r \in Curators, task'[r] # Idle
      PROVE  HeldRow(task'[r], entry'[r], seen'[r], registry'[task'[r].of], trail'[task'[r].of])
  <2>1. /\ r # s /\ task'[r] = task[r] /\ entry'[r] = entry[r] /\ seen'[r] = seen[r] /\ seen[r] \in Nat
        /\ task[r] \in Job
    BY <1>1, <1>8, DoneIs DEF MInv
  <2>2. HeldRow(task[r], entry[r], seen[r], registry[task[r].of], trail[task[r].of])
    BY <1>8, <2>1 DEF MInv
  <2>3. task[r].of \in Releases
    BY <2>1 DEF Job
  <2>4. CASE task[r].of = m
    <3>1. HeldRow(task[r], entry[r], seen[r], registry[m], trail[m])
      BY <2>2, <2>4
    <3>2. HeldRow(task[r], entry[r], seen[r], next, Append(trail[m], e))
      BY <1>2, <1>3, <1>4, <2>1, <3>1, HeldStays
    <3>3. registry'[task'[r].of] = next /\ trail'[task'[r].of] = Append(trail[m], e)
      BY <1>5, <2>1, <2>4
    <3>. QED
      BY <2>1, <3>2, <3>3, Zenon
  <2>5. CASE task[r].of # m
    BY <1>5, <2>1, <2>2, <2>3, <2>5
  <2>. QED
    BY <2>4, <2>5
<1>9. /\ task' \in [Curators -> Job \cup {Idle}] /\ today' \in 0..ReleaseTime
      /\ entry' \in [Curators -> RegistryRow \cup {NoEntry}] /\ seen' \in [Curators -> Nat]
  BY <1>1, <1>2, DoneIs
<1>. QED
  BY <1>5, <1>6, <1>7, <1>8, <1>9 DEF MInv

LEMMA MInit == LifecycleInit => MInv
<1> SUFFICES ASSUME LifecycleInit PROVE MInv
  OBVIOUS
<1>1. 0 \in 0..ReleaseTime
  BY LifecycleAssumption
<1>. QED
  BY <1>1 DEF LifecycleInit, MInv

LEMMA MNext == MInv /\ [LifecycleNext]_lifecycleVars => MInv'
<1> SUFFICES ASSUME MInv, [LifecycleNext]_lifecycleVars PROVE MInv'
  OBVIOUS
<1>1. ASSUME NEW s \in Curators, NEW m \in Releases,
             \/ \E date \in 0..ReleaseTime :
                  Load(s, "register", m, date) \/ Load(s, "deprecate", m, date)
             \/ \E c \in Scorecards : Load(s, "scorecard", m, c)
             \/ \E d \in Verdicts : Load(s, d, m, Null)
      PROVE  MInv'
  <2>1. CASE \E date \in 0..ReleaseTime : Load(s, "register", m, date) \/ Load(s, "deprecate", m, date)
    BY <2>1, MLoad DEF RegistryActs
  <2>2. CASE \E c \in Scorecards : Load(s, "scorecard", m, c)
    BY <2>2, MLoad DEF RegistryActs
  <2>3. CASE \E d \in Verdicts : Load(s, d, m, Null)
    <3>1. PICK d \in Verdicts : Load(s, d, m, Null)
      BY <2>3
    <3>2. d \in RegistryActs /\ d \notin {"register", "deprecate"} /\ d # "scorecard"
      BY DEF RegistryActs, Verdicts
    <3>. QED
      BY <3>1, <3>2, MLoad
  <2>. QED
    BY <1>1, <2>1, <2>2, <2>3
<1>2. ASSUME NEW s \in Curators, CuratorFails(s) PROVE MInv'
  <2>1. Done(s) /\ UNCHANGED registryVars
    BY <1>2 DEF CuratorFails
  <2>. QED
    BY <2>1, DoneIs, MOther
<1>3. CASE DayPasses \/ UNCHANGED lifecycleVars
  <2>1. UNCHANGED <<registry, trail, task, entry, seen>>
    BY <1>3 DEF DayPasses, lifecycleVars, registryVars, curatorVars
  <2>2. today' \in 0..ReleaseTime
    BY <1>3, LifecycleAssumption DEF DayPasses, lifecycleVars, MInv
  <2>. QED
    BY <2>1, <2>2 DEF MInv
<1>. QED
  BY <1>1, <1>2, <1>3, MCommit DEF LifecycleNext

(* The last of some events is what Latest chooses. *)
LEMMA LatestIs ==
  ASSUME MInv, NEW m \in Releases, NEW acts, NEW i, LastAt(trail[m], acts, i)
  PROVE  Latest(m, acts) = i
<1> DEFINE is == {j \in DOMAIN trail[m] : trail[m][j].act \in acts}
<1>1. i \in is /\ \A j \in is : j <= i
  BY DEF LastAt
<1>2. \A j \in is : j \in Nat
  BY LenProperties DEF MInv
<1>3. \A k \in is : (\A j \in is : j <= k) => k = i
  BY <1>1, <1>2
<1>4. Latest(m, acts) = CHOOSE k \in is : \A j \in is : j <= k
  BY DEF Latest
<1> HIDE DEF is
<1>. QED
  BY <1>1, <1>3, <1>4

(* Every status of a model is backed by the decisions on record, whatever  *)
(* overlaps, and the overdue list has the candidates nobody has decided:   *)
(* StatusBacked and OverdueFound of ModelLifecycleService.                 *)
THEOREM RegistryBacked == LifecycleSpec => []RegistryKept
<1>1. ASSUME MInv, NEW m \in Releases, registry[m] # NoEntry
      PROVE  /\ BackedRow(registry[m], trail[m]) /\ BackedInOrder(registry[m], trail[m])
             /\ Acts(m) = ActsOf(trail[m]) /\ (Serial(m) <=> InOrder(trail[m]))
             /\ registry[m] \in RegistryRow
  BY <1>1 DEF MInv, Acts, ActsOf, Serial, InOrder
<1>2. ASSUME MInv PROVE StatusBacked
  <2> SUFFICES ASSUME NEW m \in Releases, registry[m] # NoEntry
               PROVE  LET row == registry[m] IN
                      /\ trail[m][1].act = "register" /\ trail[m][1].seen = 0
                      /\ row.status = "candidate" <=> Acts(m) \cap Verdicts = {}
                      /\ row.decision # Null <=> row.status # "candidate"
                      /\ row.decision # Null => row.decision = trail[m][Latest(m, Verdicts)].act
                      /\ row.status \in {"pinned", "deprecated"} => "go" \in Acts(m)
                      /\ row.status = "pinned"   => row.decision = "go"
                      /\ row.status = "rejected" => row.decision = "no_go"
                      /\ row.status = "deprecated" => "deprecate" \in Acts(m)
                      /\ Serial(m) =>
                           /\ Cardinality({i \in DOMAIN trail[m] : trail[m][i].act \in Verdicts}) <= 1
                           /\ row.status = "deprecated" => row.decision = "go"
                           /\ row.deprecation_at # Null <=> row.status = "deprecated"
                           /\ "scorecard" \in Acts(m) =>
                                row.scorecard = trail[m][Latest(m, {"scorecard"})].arg
    BY DEF StatusBacked
  <2> DEFINE row == registry[m]
             t == trail[m]
             is == {i \in DOMAIN t : t[i].act \in Verdicts}
  <2>1. BackedRow(row, t) /\ BackedInOrder(row, t) /\ Acts(m) = ActsOf(t) /\ (Serial(m) <=> InOrder(t))
    BY <1>1, <1>2
  <2>2. row.decision # Null => row.decision = t[Latest(m, Verdicts)].act
    <3> SUFFICES ASSUME row.decision # Null PROVE row.decision = t[Latest(m, Verdicts)].act
      OBVIOUS
    <3>1. PICK i \in DOMAIN t : LastAt(t, Verdicts, i) /\ row.decision = t[i].act
      BY <2>1 DEF BackedRow
    <3>. QED
      BY <1>2, <3>1, LatestIs
  <2>3. Serial(m) => Cardinality(is) <= 1
    <3> SUFFICES ASSUME Serial(m) PROVE Cardinality(is) <= 1
      OBVIOUS
    <3>1. \A i, j \in is : i = j
      BY <2>1 DEF BackedInOrder
    <3> HIDE DEF is
    <3>2. CASE is = {}
      BY <3>2, FS_EmptySet
    <3>3. CASE is # {}
      <4>1. PICK i \in is : TRUE
        BY <3>3
      <4>2. is = {i}
        BY <3>1, <4>1
      <4>3. Cardinality({i}) = 1
        BY FS_Singleton
      <4>. QED
        BY <4>2, <4>3
    <3>. QED
      BY <3>2, <3>3
  <2>4. Serial(m) /\ "scorecard" \in Acts(m) => row.scorecard = t[Latest(m, {"scorecard"})].arg
    <3> SUFFICES ASSUME Serial(m), "scorecard" \in Acts(m)
                 PROVE  row.scorecard = t[Latest(m, {"scorecard"})].arg
      OBVIOUS
    <3>1. PICK i \in DOMAIN t : LastAt(t, {"scorecard"}, i) /\ row.scorecard = t[i].arg
      BY <2>1 DEF BackedInOrder
    <3>. QED
      BY <1>2, <3>1, LatestIs
  <2> HIDE DEF is
  <2>5. Serial(m) =>
          /\ row.status = "deprecated" => row.decision = "go"
          /\ row.deprecation_at # Null <=> row.status = "deprecated"
    BY <2>1 DEF BackedInOrder
  <2>. QED
    BY <2>1, <2>2, <2>3, <2>4, <2>5 DEF BackedRow, is
<1>3. ASSUME MInv PROVE OverdueFound
  <2>1. ASSUME NEW m \in Releases
        PROVE  m \in breached <=> /\ trail[m] # <<>> /\ Acts(m) \cap Verdicts = {}
                                  /\ today >= trail[m][1].arg + DecisionSLA
    <3>1. CASE registry[m] = NoEntry
      <4>1. trail[m] = <<>>
        BY <1>3, <3>1 DEF MInv
      <4>. QED
        BY <3>1, <4>1 DEF breached, awaiting_decision
    <3>2. CASE registry[m] # NoEntry
      <4>1. /\ trail[m] # <<>> /\ trail[m][1].arg = registry[m].released_at
            /\ registry[m].status = "candidate" <=> Acts(m) \cap Verdicts = {}
            /\ registry[m].status = "candidate" <=> registry[m].decision = Null
        BY <1>1, <1>3, <3>2 DEF BackedRow
      <4>2. registry[m].released_at \in 0..ReleaseTime /\ today \in 0..ReleaseTime /\ DecisionSLA \in Nat
        BY <1>1, <1>3, <3>2, LifecycleAssumption DEF RegistryRow, MInv
      <4>3. today - registry[m].released_at >= DecisionSLA
              <=> today >= registry[m].released_at + DecisionSLA
        BY <4>2
      <4>. QED
        BY <3>2, <4>1, <4>3 DEF breached, awaiting_decision, sla_breached
    <3>. QED
      BY <3>1, <3>2
  <2>2. breached \subseteq Releases
    BY DEF breached, awaiting_decision
  <2>. QED
    BY <2>1, <2>2 DEF OverdueFound
<1>. QED
  BY MInit, MNext, <1>2, <1>3, PTL DEF LifecycleSpec, RegistryKept

-----------------------------------------------------------------------------
(* Generated tests: their invariant. *)

GenEntry == [request : Requests, kind : Kinds, plan : Nat, cases : SUBSET Nat, after : Nat]

(* The entries of the log that wrote a case of a plan, and with which kind. *)
AtCase(e, p, i) == e.plan = p /\ i \in e.cases
OfKind(e, p, i, k) == AtCase(e, p, i) /\ e.kind = k

(* The code of a kind that a case had when the log was of length m: what   *)
(* GeneratedCodeKept says of it, by that much of the log.                  *)
CodeTold(log, m, code, p, i, k) ==
  /\ code # Missing => \E n \in 1..m : OfKind(log[n], p, i, k) /\ log[n].request = code
  /\ \A l \in 1..m :
       OfKind(log[l], p, i, k) /\ (\A n \in 1..m : OfKind(log[n], p, i, k) => n <= l) =>
         \/ code = log[l].request
         \/ \E n \in 1..m : AtCase(log[n], p, i) /\ l < n /\ log[n].after < l

GenRows ==
  /\ plans \in Seq(Seq(CaseRow)) /\ genLog \in Seq(GenEntry)
  /\ progress \in [Requests -> Stages] /\ DOMAIN draft = Requests
  /\ \A n \in 1..Len(genLog) : genLog[n].plan \in 1..Len(plans)

(* A call under way has read the cases of a plan as they were then. *)
DraftInv ==
  \A q \in Requests : progress[q] \in {"asking", "flushing", "flushed"} =>
    /\ draft[q] \in DraftRow
    /\ draft[q].plan \in 1..Len(plans) /\ draft[q].after <= Len(genLog)
    /\ DOMAIN draft[q].read = DOMAIN plans[draft[q].plan]
    /\ \A i \in DOMAIN draft[q].read, k \in Kinds :
         CodeTold(genLog, draft[q].after, draft[q].read[i].code[k], draft[q].plan, i, k)

CodeInv ==
  \A p \in 1..Len(plans) : \A i \in DOMAIN plans[p], k \in Kinds :
    CodeTold(genLog, Len(genLog), plans[p][i].code[k], p, i, k)

GInv == GenRows /\ DraftInv /\ CodeInv

-----------------------------------------------------------------------------
LEMMA GInit == GenerationInit => GInv
<1> SUFFICES ASSUME GenerationInit PROVE GInv
  OBVIOUS
<1>1. Len(plans) = 0 /\ Len(genLog) = 0
  BY DEF GenerationInit
<1>2. GenRows
  BY <1>1 DEF GenerationInit, GenRows, Stages
<1>3. DraftInv
  BY DEF GenerationInit, DraftInv
<1>4. CodeInv
  BY <1>1 DEF CodeInv
<1>. QED
  BY <1>2, <1>3, <1>4 DEF GInv

(* The greatest of some numbers that are bounded. *)
LEMMA GreatestIs ==
  ASSUME NEW m \in Nat, NEW S \in SUBSET (1..m), S # {}
  PROVE  Max(S) \in S /\ \A x \in S : x <= Max(S)
<1> DEFINE T == {m - x : x \in S}
<1>0. \A x \in S : x \in Nat /\ x <= m /\ m - x \in Nat
  <2> SUFFICES ASSUME NEW x \in S PROVE x \in Nat /\ x <= m /\ m - x \in Nat
    OBVIOUS
  <2>1. x \in 1..m
    OBVIOUS
  <2>. QED
    BY <2>1
<1>1. T \in SUBSET Nat /\ T # {}
  BY <1>0
<1>2. PICK t \in T : \A y \in T : ~(<<y, t>> \in OpToRel(<, Nat))
  <2> HIDE DEF T
  <2>. QED
    BY <1>1, NatLessThanWellFounded, WFMin
<1>3. PICK x \in S : t = m - x
  BY <1>2
<1>4. ASSUME NEW y \in S PROVE y <= x
  <2>1. m - y \in T /\ m - y \in Nat /\ t \in Nat /\ x \in Nat /\ y \in Nat
    BY <1>0, <1>3
  <2>2. m - y < t => <<m - y, t>> \in OpToRel(<, Nat)
    <3> SUFFICES ASSUME m - y < t PROVE <<m - y, t>> \in OpToRel(<, Nat)
      OBVIOUS
    <3>1. <<m - y, t>> \in Nat \X Nat
      BY <2>1
    <3>. QED
      BY <3>1 DEF OpToRel
  <2>3. ~(m - y < t)
    BY <1>2, <2>1, <2>2
  <2>. QED
    BY <1>3, <2>1, <2>3
<1>6. \E z \in S : \A y \in S : z >= y
  BY <1>0, <1>4
<1>. QED
  BY <1>0, <1>6 DEF Max

LEMMA GKept == GInv => GeneratedCodeKept
<1> SUFFICES ASSUME GInv, NEW p \in DOMAIN plans, NEW i \in DOMAIN plans[p], NEW k \in Kinds
             PROVE  LET own  == {n \in DOMAIN genLog : Wrote(n, p, i) /\ genLog[n].kind = k}
                        code == plans[p][i].code[k]
                    IN  /\ code # Missing => \E n \in own : genLog[n].request = code
                        /\ own # {} =>
                             LET latest == Max(own)
                             IN  \/ code = genLog[latest].request
                                 \/ \E n \in DOMAIN genLog : Wrote(n, p, i) /\ latest < n /\ genLog[n].after < latest
  BY DEF GeneratedCodeKept
<1> DEFINE own == {n \in DOMAIN genLog : Wrote(n, p, i) /\ genLog[n].kind = k}
           code == plans[p][i].code[k]
           m == Len(genLog)
<1>1. m \in Nat /\ DOMAIN genLog = 1..m /\ DOMAIN plans = 1..Len(plans)
  BY LenProperties DEF GInv, GenRows
<1>2. CodeTold(genLog, m, code, p, i, k)
  BY <1>1 DEF GInv, CodeInv
<1>3. \A n : n \in own <=> n \in 1..m /\ OfKind(genLog[n], p, i, k)
  BY <1>1 DEF OfKind, AtCase, Wrote
<1> HIDE DEF own, code
<1>4. code # Missing => \E n \in own : genLog[n].request = code
  BY <1>2, <1>3 DEF CodeTold
<1>5. ASSUME own # {}
      PROVE  \/ code = genLog[Max(own)].request
             \/ \E n \in DOMAIN genLog : Wrote(n, p, i) /\ Max(own) < n /\ genLog[n].after < Max(own)
  <2>1. own \in SUBSET (1..m)
    BY <1>3
  <2>2. Max(own) \in own /\ \A x \in own : x <= Max(own)
    BY <1>1, <1>5, <2>1, GreatestIs
  <2> HIDE DEF m
  <2>. QED
    BY <1>1, <1>2, <1>3, <2>2 DEF CodeTold, AtCase, Wrote
<1>. QED
  BY <1>4, <1>5 DEF own, code

-----------------------------------------------------------------------------
(* A log that has grown tells of its beginning what it told before, and of *)
(* a case that the new entry did not write the same as before.             *)
LEMMA ToldStill ==
  ASSUME NEW log, NEW more, NEW code, NEW m \in Nat, NEW p, NEW i, NEW k,
         \A n \in 1..m : more[n] = log[n], CodeTold(log, m, code, p, i, k)
  PROVE  CodeTold(more, m, code, p, i, k)
  BY DEF CodeTold, OfKind, AtCase

LEMMA ToldMore ==
  ASSUME NEW log, NEW more, NEW code, NEW m \in Nat, NEW p, NEW i, NEW k,
         \A n \in 1..m : more[n] = log[n], CodeTold(log, m, code, p, i, k),
         ~AtCase(more[m + 1], p, i)
  PROVE  CodeTold(more, m + 1, code, p, i, k)
<1>1. \A n \in 1..(m + 1) : n = m + 1 \/ n \in 1..m
  OBVIOUS
<1>2. \A n \in 1..m : n \in 1..(m + 1) /\ n # m + 1
  OBVIOUS
<1>3. \A n \in 1..m : (OfKind(more[n], p, i, k) <=> OfKind(log[n], p, i, k)) /\ (AtCase(more[n], p, i) <=> AtCase(log[n], p, i))
  BY DEF OfKind, AtCase
<1>4. ~OfKind(more[m + 1], p, i, k)
  BY DEF OfKind
<1>5. code # Missing => \E n \in 1..(m + 1) : OfKind(more[n], p, i, k) /\ more[n].request = code
  BY <1>2, <1>3 DEF CodeTold
<1>6. ASSUME NEW l \in 1..(m + 1), OfKind(more[l], p, i, k),
             \A n \in 1..(m + 1) : OfKind(more[n], p, i, k) => n <= l
      PROVE  \/ code = more[l].request
             \/ \E n \in 1..(m + 1) : AtCase(more[n], p, i) /\ l < n /\ more[n].after < l
  <2>1. l \in 1..m /\ OfKind(log[l], p, i, k) /\ \A n \in 1..m : OfKind(log[n], p, i, k) => n <= l
    BY <1>1, <1>2, <1>3, <1>4, <1>6
  <2>2. \/ code = log[l].request
        \/ \E n \in 1..m : AtCase(log[n], p, i) /\ l < n /\ log[n].after < l
    BY <2>1 DEF CodeTold
  <2>. QED
    BY <1>2, <1>3, <2>1, <2>2
<1>. QED
  BY <1>5, <1>6 DEF CodeTold

(* A generation writes back the code that a case had when the log was of   *)
(* length a, with its own for its kind.                                    *)
LEMMA ToldWritten ==
  ASSUME NEW log, NEW more, NEW code, NEW m \in Nat, NEW a \in 0..m, NEW p, NEW i, NEW k,
         \A n \in 1..m : more[n] = log[n], CodeTold(log, a, code, p, i, k),
         AtCase(more[m + 1], p, i), more[m + 1].kind # k, more[m + 1].after = a
  PROVE  CodeTold(more, m + 1, code, p, i, k)
<1>1. \A n \in 1..(m + 1) : n = m + 1 \/ n \in 1..m
  OBVIOUS
<1>2. /\ \A n \in 1..m : n \in 1..(m + 1) /\ n < m + 1
      /\ \A n \in 1..a : n \in 1..m
      /\ \A n \in 1..m : n <= a => n \in 1..a
      /\ m + 1 \in 1..(m + 1)
  OBVIOUS
<1>3. \A n \in 1..m : (OfKind(more[n], p, i, k) <=> OfKind(log[n], p, i, k)) /\ (AtCase(more[n], p, i) <=> AtCase(log[n], p, i))
  BY DEF OfKind, AtCase
<1>4. ~OfKind(more[m + 1], p, i, k)
  BY DEF OfKind
<1>5. code # Missing => \E n \in 1..(m + 1) : OfKind(more[n], p, i, k) /\ more[n].request = code
  BY <1>2, <1>3 DEF CodeTold
<1>6. ASSUME NEW l \in 1..(m + 1), OfKind(more[l], p, i, k),
             \A n \in 1..(m + 1) : OfKind(more[n], p, i, k) => n <= l
      PROVE  \/ code = more[l].request
             \/ \E n \in 1..(m + 1) : AtCase(more[n], p, i) /\ l < n /\ more[n].after < l
  <2>1. l \in 1..m /\ OfKind(log[l], p, i, k) /\ \A n \in 1..m : OfKind(log[n], p, i, k) => n <= l
    BY <1>1, <1>2, <1>3, <1>4, <1>6
  <2>2. CASE a < l
    BY <1>2, <2>1, <2>2
  <2>3. CASE l <= a
    <3>1. l \in 1..a /\ \A n \in 1..a : OfKind(log[n], p, i, k) => n <= l
      BY <1>2, <2>1, <2>3
    <3>2. \/ code = log[l].request
          \/ \E n \in 1..a : AtCase(log[n], p, i) /\ l < n /\ log[n].after < l
      BY <2>1, <3>1 DEF CodeTold
    <3>. QED
      BY <1>2, <1>3, <2>1, <3>2
  <2>. QED
    BY <2>1, <2>2, <2>3
<1>. QED
  BY <1>5, <1>6 DEF CodeTold

(* ... which that tells of its own kind. *)
LEMMA ToldOwn ==
  ASSUME NEW log, NEW more, NEW code, NEW m \in Nat, NEW p, NEW i, NEW k,
         OfKind(more[m + 1], p, i, k), more[m + 1].request = code
  PROVE  CodeTold(more, m + 1, code, p, i, k)
<1>1. m + 1 \in 1..(m + 1)
  OBVIOUS
<1>2. \A l \in 1..(m + 1) : m + 1 <= l => l = m + 1
  OBVIOUS
<1>. QED
  BY <1>1, <1>2 DEF CodeTold

-----------------------------------------------------------------------------
(* What a call has read stands as long as plans and log only grow. *)

Open(q) == progress[q] \in {"asking", "flushing", "flushed"}

DraftOf(q) ==
  /\ draft[q] \in DraftRow
  /\ draft[q].plan \in 1..Len(plans) /\ draft[q].after <= Len(genLog)
  /\ DOMAIN draft[q].read = DOMAIN plans[draft[q].plan]
  /\ \A i \in DOMAIN draft[q].read, k \in Kinds :
       CodeTold(genLog, draft[q].after, draft[q].read[i].code[k], draft[q].plan, i, k)

Grown ==
  /\ Len(plans) <= Len(plans') /\ Len(plans') \in Nat
  /\ \A p \in 1..Len(plans) : DOMAIN plans'[p] = DOMAIN plans[p]
  /\ Len(genLog) <= Len(genLog') /\ Len(genLog') \in Nat
  /\ \A n \in 1..Len(genLog) : genLog'[n] = genLog[n]

LEMMA DraftStands ==
  ASSUME GInv, Grown, NEW q \in Requests, Open(q), draft'[q] \in DraftRow,
         draft'[q].plan = draft[q].plan, draft'[q].read = draft[q].read, draft'[q].after = draft[q].after
  PROVE  DraftOf(q)'
<1>1. /\ draft[q] \in DraftRow /\ draft[q].plan \in 1..Len(plans) /\ draft[q].after <= Len(genLog)
      /\ DOMAIN draft[q].read = DOMAIN plans[draft[q].plan]
      /\ \A i \in DOMAIN draft[q].read, k \in Kinds :
           CodeTold(genLog, draft[q].after, draft[q].read[i].code[k], draft[q].plan, i, k)
  BY DEF GInv, DraftInv, Open
<1>2. draft[q].after \in Nat /\ Len(genLog) \in Nat /\ Len(plans) \in Nat
  BY <1>1, LenProperties DEF DraftRow, GInv, GenRows
<1>3. \A n \in 1..draft[q].after : genLog'[n] = genLog[n]
  BY <1>1, <1>2 DEF Grown
<1>4. \A i \in DOMAIN draft[q].read, k \in Kinds :
        CodeTold(genLog', draft[q].after, draft[q].read[i].code[k], draft[q].plan, i, k)
  BY <1>1, <1>2, <1>3, ToldStill
<1>5. /\ draft[q].plan \in 1..Len(plans') /\ draft[q].after <= Len(genLog')
      /\ DOMAIN draft[q].read = DOMAIN plans'[draft[q].plan]
  BY <1>1, <1>2 DEF Grown
<1>. QED
  BY <1>4, <1>5 DEF DraftOf

LEMMA GrownIf ==
  ASSUME GInv, plans' = plans, genLog' = genLog
  PROVE  Grown /\ CodeInv'
<1>1. Len(plans) \in Nat /\ Len(genLog) \in Nat
  BY LenProperties DEF GInv, GenRows
<1>. QED
  BY <1>1 DEF Grown, CodeInv, GInv

(* Steps that touch neither a plan nor the log. *)
LEMMA GQuiet ==
  ASSUME GInv, plans' = plans, genLog' = genLog, NEW q \in Requests,
         progress' \in [Requests -> Stages], DOMAIN draft' = Requests,
         \A r \in Requests \ {q} : progress'[r] = progress[r] /\ draft'[r] = draft[r],
         Open(q)' => DraftOf(q)'
  PROVE  GInv'
<1>1. Grown /\ CodeInv'
  BY GrownIf
<1>2. GenRows'
  BY DEF GInv, GenRows
<1>3. ASSUME NEW r \in Requests, Open(r)' PROVE DraftOf(r)'
  <2>1. CASE r # q
    <3>1. Open(r) /\ draft'[r] = draft[r] /\ draft[r] \in DraftRow
      BY <1>3, <2>1 DEF Open, GInv, DraftInv
    <3>. QED
      BY <1>1, <3>1, DraftStands
  <2>. QED
    BY <1>3, <2>1
<1>4. DraftInv'
  BY <1>3 DEF DraftInv, DraftOf, Open
<1>. QED
  BY <1>1, <1>2, <1>4 DEF GInv

LEMMA GLeave ==
  ASSUME GInv, plans' = plans, genLog' = genLog, NEW q \in Requests, LeaveGeneration(q)
  PROVE  GInv'
<1>1. /\ progress' \in [Requests -> Stages] /\ DOMAIN draft' = Requests /\ progress'[q] = "done"
      /\ \A r \in Requests \ {q} : progress'[r] = progress[r] /\ draft'[r] = draft[r]
  BY DEF LeaveGeneration, GInv, GenRows, Stages
<1>. QED
  BY <1>1, GQuiet DEF Open

LEMMA GAsk ==
  ASSUME GInv, NEW q \in Requests, NEW kind \in Kinds, NEW p \in DOMAIN plans, AskModel(q, kind, p)
  PROVE  GInv'
<1> DEFINE d == [kind |-> kind, plan |-> p, read |-> plans[p], writes |-> {}, after |-> Len(genLog)]
<1>1. /\ plans' = plans /\ genLog' = genLog /\ progress' = [progress EXCEPT ![q] = "asking"]
      /\ draft' = [draft EXCEPT ![q] = d] /\ GenRows
      /\ Len(genLog) \in Nat /\ p \in 1..Len(plans) /\ p \in Nat /\ plans[p] \in Seq(CaseRow)
  <2>1. /\ plans' = plans /\ genLog' = genLog /\ progress' = [progress EXCEPT ![q] = "asking"]
        /\ draft' = [draft EXCEPT ![q] = d] /\ GenRows
    BY DEF AskModel, GInv
  <2>2. Len(genLog) \in Nat /\ Len(plans) \in Nat /\ DOMAIN plans = 1..Len(plans)
    BY <2>1, LenProperties DEF GenRows
  <2>3. plans[p] \in Seq(CaseRow)
    BY <2>1, <2>2, ElementOfSeq DEF GenRows
  <2>. QED
    BY <2>1, <2>2, <2>3
<1>2. /\ d \in DraftRow /\ d.plan = p /\ d.read = plans[p] /\ d.after = Len(genLog)
  BY <1>1 DEF DraftRow
<1>3. /\ progress' \in [Requests -> Stages] /\ DOMAIN draft' = Requests /\ draft'[q] = d
      /\ \A r \in Requests \ {q} : progress'[r] = progress[r] /\ draft'[r] = draft[r]
  BY <1>1 DEF GenRows, Stages
<1> HIDE DEF d
<1>4. \A i \in DOMAIN plans[p], k \in Kinds : CodeTold(genLog, Len(genLog), plans[p][i].code[k], p, i, k)
  BY <1>1 DEF GInv, CodeInv
<1>5. DraftOf(q)'
  BY <1>1, <1>2, <1>3, <1>4 DEF DraftOf
<1>. QED
  BY <1>1, <1>3, <1>5, GQuiet

LEMMA GAttach ==
  ASSUME GInv, NEW q \in Requests, Open(q), NEW titles, Attach(q, titles)
  PROVE  GInv'
<1>1. PICK by_title \in ByTitle(draft[q].read) :
        draft' = [draft EXCEPT ![q].writes = {by_title[t] : t \in titles \cap DOMAIN by_title}]
  BY DEF Attach
<1> DEFINE W == {by_title[t] : t \in titles \cap DOMAIN by_title}
           d == [draft[q] EXCEPT !.writes = W]
<1>2. /\ plans' = plans /\ genLog' = genLog /\ progress' = [progress EXCEPT ![q] = "flushing"]
      /\ draft' = [draft EXCEPT ![q] = d] /\ GenRows /\ draft[q] \in DraftRow
  BY <1>1 DEF Attach, GInv, GenRows, DraftInv, Open
<1>3. W \in SUBSET Nat
  <2>1. draft[q].read \in Seq(CaseRow)
    BY <1>2 DEF DraftRow
  <2>2. DOMAIN draft[q].read = 1..Len(draft[q].read)
    BY <2>1, LenProperties
  <2>3. \A t \in DOMAIN by_title : by_title[t] \in DOMAIN draft[q].read
    BY <1>1 DEF ByTitle
  <2>. QED
    BY <2>2, <2>3
<1> HIDE DEF W
<1>4. d \in DraftRow /\ d.plan = draft[q].plan /\ d.read = draft[q].read /\ d.after = draft[q].after
  BY <1>2, <1>3 DEF DraftRow
<1>5. /\ progress' \in [Requests -> Stages] /\ DOMAIN draft' = Requests /\ draft'[q] = d
      /\ \A r \in Requests \ {q} : progress'[r] = progress[r] /\ draft'[r] = draft[r]
  BY <1>2 DEF GenRows, Stages
<1> HIDE DEF d
<1>6. DraftOf(q)'
  BY <1>2, <1>4, <1>5, GrownIf, DraftStands
<1>. QED
  BY <1>2, <1>5, <1>6, GQuiet

LEMMA GFlush == ASSUME GInv, NEW q \in Requests, Flush(q) PROVE GInv'
<1>1. /\ plans' = plans /\ genLog' = genLog /\ draft' = draft
      /\ progress[q] = "flushing" /\ progress' = [progress EXCEPT ![q] = "flushed"] /\ GenRows
  BY DEF Flush, GInv
<1>2. /\ progress' \in [Requests -> Stages] /\ DOMAIN draft' = Requests
      /\ \A r \in Requests \ {q} : progress'[r] = progress[r] /\ draft'[r] = draft[r]
  BY <1>1 DEF GenRows, Stages
<1>3. Open(q) /\ draft[q] \in DraftRow
  BY <1>1 DEF Open, GInv, DraftInv
<1>4. DraftOf(q)'
  BY <1>1, <1>3, GrownIf, DraftStands
<1>. QED
  BY <1>1, <1>2, <1>4, GQuiet

LEMMA GPersist ==
  ASSUME GInv, NEW q \in Requests, NEW outline \in Outlines, Persist(q, outline)
  PROVE  GInv'
<1> DEFINE cases == [i \in DOMAIN outline |->
                      [title |-> outline[i].title, type |-> outline[i].type, code |-> NoCodeYet]]
           m == Len(genLog)
<1>1. /\ plans' = Append(plans, cases) /\ genLog' = genLog /\ LeaveGeneration(q)
      /\ GenRows /\ m \in Nat /\ Len(plans) \in Nat
  BY LenProperties DEF Persist, GInv, GenRows
<1>2. cases \in Seq(CaseRow) /\ \A i \in DOMAIN cases : cases[i].code = NoCodeYet
  <2>1. outline \in Seq([title : STRING, type : STRING])
    BY GenerationAssumption
  <2>2. DOMAIN outline = 1..Len(outline) /\ Len(outline) \in Nat
    BY <2>1, LenProperties
  <2>3. \A i \in DOMAIN outline : outline[i] \in [title : STRING, type : STRING]
    BY <2>1, <2>2, ElementOfSeq
  <2>4. NoCodeYet \in [Kinds -> Requests \cup {Missing}]
    BY DEF NoCodeYet
  <2>5. \A i \in DOMAIN outline :
          /\ cases[i] \in CaseRow /\ cases[i].code = NoCodeYet
    BY <2>3, <2>4 DEF CaseRow
  <2> HIDE DEF cases
  <2>6. DOMAIN cases = 1..Len(outline)
    BY <2>2 DEF cases
  <2>. QED
    BY <2>2, <2>5, <2>6, IsASeq DEF cases
<1> HIDE DEF cases
<1>3. /\ plans' \in Seq(Seq(CaseRow)) /\ Len(plans') = Len(plans) + 1
      /\ \A p \in 1..Len(plans) : plans'[p] = plans[p]
      /\ plans'[Len(plans) + 1] = cases
  BY <1>1, <1>2, AppendProperties DEF GenRows
<1>4. /\ progress' \in [Requests -> Stages] /\ DOMAIN draft' = Requests /\ progress'[q] = "done"
      /\ \A r \in Requests \ {q} : progress'[r] = progress[r] /\ draft'[r] = draft[r]
  BY <1>1 DEF LeaveGeneration, GenRows, Stages
<1>5. GenRows'
  BY <1>1, <1>3, <1>4 DEF GenRows
<1>6. Grown
  BY <1>1, <1>3 DEF Grown
<1>7. DraftInv'
  <2>1. ASSUME NEW r \in Requests, Open(r)' PROVE DraftOf(r)'
    <3>1. r # q /\ Open(r) /\ draft'[r] = draft[r]
      BY <1>4, <2>1 DEF Open
    <3>2. draft[r] \in DraftRow
      BY <3>1 DEF GInv, DraftInv, Open
    <3>. QED
      BY <1>6, <3>1, <3>2, DraftStands
  <2>. QED
    BY <2>1 DEF DraftInv, DraftOf, Open
<1>8. CodeInv'
  <2> SUFFICES ASSUME NEW p \in 1..Len(plans'), NEW i \in DOMAIN plans'[p], NEW k \in Kinds
               PROVE  CodeTold(genLog', Len(genLog'), plans'[p][i].code[k], p, i, k)
    BY DEF CodeInv
  <2>1. CASE p \in 1..Len(plans)
    BY <1>1, <1>3, <2>1 DEF GInv, CodeInv
  <2>2. CASE p = Len(plans) + 1
    <3>1. plans'[p][i].code[k] = Missing
      BY <1>2, <1>3, <2>2 DEF NoCodeYet
    <3>2. \A n \in 1..m : genLog[n].plan # p
      BY <1>1, <2>2 DEF GenRows
    <3>. QED
      BY <1>1, <3>1, <3>2 DEF CodeTold, OfKind, AtCase
  <2>. QED
    BY <1>1, <1>3, <2>1, <2>2
<1>. QED
  BY <1>5, <1>7, <1>8 DEF GInv

LEMMA GCommit ==
  ASSUME GInv, NEW q \in Requests, NEW kind \in Kinds, CommitTests(q, kind)
  PROVE  GInv'
<1> DEFINE P == draft[q].plan
           R == draft[q].read
           W == draft[q].writes
           a == draft[q].after
           e == [request |-> q, kind |-> kind, plan |-> P, cases |-> W, after |-> a]
           m == Len(genLog)
           cases == [i \in DOMAIN plans[P] |->
                      IF i \in W THEN [plans[P][i] EXCEPT !.code = metadata_json(q, i)] ELSE plans[P][i]]
<1>1. /\ plans' = [plans EXCEPT ![P] = cases] /\ genLog' = Append(genLog, e) /\ LeaveGeneration(q)
      /\ progress[q] = "flushed" /\ draft[q].kind = kind /\ GenRows /\ m \in Nat /\ Len(plans) \in Nat
  BY LenProperties DEF CommitTests, GInv, GenRows
<1>2. /\ draft[q] \in DraftRow /\ P \in 1..Len(plans) /\ a <= m /\ DOMAIN R = DOMAIN plans[P]
      /\ \A i \in DOMAIN R, k \in Kinds : CodeTold(genLog, a, R[i].code[k], P, i, k)
  BY <1>1 DEF GInv, DraftInv
<1>3. /\ P \in Nat /\ R \in Seq(CaseRow) /\ W \in SUBSET Nat /\ a \in Nat /\ a \in 0..m
  BY <1>1, <1>2 DEF DraftRow
<1>4. plans[P] \in Seq(CaseRow) /\ DOMAIN plans = 1..Len(plans)
  BY <1>1, <1>2, LenProperties, ElementOfSeq DEF GenRows
<1>5. \A i \in DOMAIN R : metadata_json(q, i) \in [Kinds -> Requests \cup {Missing}]
        /\ metadata_json(q, i)[kind] = q
        /\ \A k \in Kinds \ {kind} : metadata_json(q, i)[k] = R[i].code[k]
  <2> SUFFICES ASSUME NEW i \in DOMAIN R
               PROVE  /\ metadata_json(q, i) \in [Kinds -> Requests \cup {Missing}]
                      /\ metadata_json(q, i)[kind] = q
                      /\ \A k \in Kinds \ {kind} : metadata_json(q, i)[k] = R[i].code[k]
    OBVIOUS
  <2>1. R[i] \in CaseRow
    BY <1>3, LenProperties, ElementOfSeq
  <2>2. R[i].code \in [Kinds -> Requests \cup {Missing}]
    BY <2>1 DEF CaseRow
  <2>3. metadata_json(q, i) = [R[i].code EXCEPT ![kind] = q]
    BY <1>1 DEF metadata_json, generated_code, generated_ui_spec, Kinds
  <2> HIDE DEF R
  <2>. QED
    BY <2>2, <2>3
<1>6. /\ cases \in Seq(CaseRow) /\ DOMAIN cases = DOMAIN plans[P]
      /\ \A i \in DOMAIN plans[P] :
           /\ i \in W => cases[i].code = metadata_json(q, i)
           /\ i \notin W => cases[i] = plans[P][i]
  <2>1. /\ DOMAIN plans[P] = 1..Len(plans[P]) /\ Len(plans[P]) \in Nat
        /\ \A i \in DOMAIN plans[P] : plans[P][i] \in CaseRow
    BY <1>4, LenProperties, ElementOfSeq
  <2>2. ASSUME NEW i \in DOMAIN plans[P]
        PROVE  /\ cases[i] \in CaseRow
               /\ i \in W => cases[i].code = metadata_json(q, i)
               /\ i \notin W => cases[i] = plans[P][i]
    <3>1. plans[P][i] \in CaseRow /\ metadata_json(q, i) \in [Kinds -> Requests \cup {Missing}]
      BY <1>2, <1>5, <2>1
    <3>2. /\ [plans[P][i] EXCEPT !.code = metadata_json(q, i)] \in CaseRow
          /\ [plans[P][i] EXCEPT !.code = metadata_json(q, i)].code = metadata_json(q, i)
      BY <3>1 DEF CaseRow
    <3>. QED
      BY <3>1, <3>2
  <2>3. DOMAIN cases = 1..Len(plans[P])
    BY <2>1
  <2> HIDE DEF cases
  <2>4. cases \in [1..Len(plans[P]) -> CaseRow]
    <3>1. cases = [i \in DOMAIN cases |-> cases[i]]
      BY DEF cases
    <3>. QED
      BY <2>1, <2>2, <2>3, <3>1
  <2>. QED
    BY <2>1, <2>2, <2>3, <2>4, SeqDef
<1> HIDE DEF cases
<1>7. /\ plans' \in Seq(Seq(CaseRow)) /\ Len(plans') = Len(plans) /\ plans'[P] = cases
      /\ \A p \in 1..Len(plans) : p # P => plans'[p] = plans[p]
  BY <1>1, <1>2, <1>4, <1>6, ExceptSeq DEF GenRows
<1>8. /\ e \in GenEntry /\ e.request = q /\ e.kind = kind /\ e.plan = P /\ e.cases = W /\ e.after = a
  BY <1>1, <1>3 DEF GenEntry
<1> HIDE DEF e
<1>9. /\ genLog' \in Seq(GenEntry) /\ Len(genLog') = m + 1 /\ genLog'[m + 1] = e
      /\ \A n \in 1..m : genLog'[n] = genLog[n]
  BY <1>1, <1>8, AppendProperties DEF GenRows
<1>10. /\ progress' \in [Requests -> Stages] /\ DOMAIN draft' = Requests /\ progress'[q] = "done"
       /\ \A r \in Requests \ {q} : progress'[r] = progress[r] /\ draft'[r] = draft[r]
  BY <1>1 DEF LeaveGeneration, GenRows, Stages
<1>11. GenRows'
  <2>1. m \in Nat /\ Len(plans) \in Nat /\ P \in 1..Len(plans)
        /\ \A n \in 1..m : genLog[n].plan \in 1..Len(plans)
    BY <1>1, <1>2 DEF GenRows
  <2>2. ASSUME NEW n \in 1..(m + 1) PROVE genLog'[n].plan \in 1..Len(plans)
    <3>1. CASE n = m + 1
      BY <1>8, <1>9, <2>1, <3>1
    <3>2. CASE n # m + 1
      <4>1. n \in 1..m
        BY <2>1, <3>2
      <4>. QED
        BY <1>9, <2>1, <4>1
    <3>. QED
      BY <3>1, <3>2
  <2>. QED
    BY <1>7, <1>9, <1>10, <2>2 DEF GenRows
<1>12. Grown
  BY <1>1, <1>6, <1>7, <1>9 DEF Grown
<1>13. DraftInv'
  <2>1. ASSUME NEW r \in Requests, Open(r)' PROVE DraftOf(r)'
    <3>1. r # q /\ Open(r) /\ draft'[r] = draft[r]
      BY <1>10, <2>1 DEF Open
    <3>2. draft[r] \in DraftRow
      BY <3>1 DEF GInv, DraftInv, Open
    <3>. QED
      BY <1>12, <3>1, <3>2, DraftStands
  <2>. QED
    BY <2>1 DEF DraftInv, DraftOf, Open
<1>14. CodeInv'
  <2> SUFFICES ASSUME NEW p \in 1..Len(plans'), NEW i \in DOMAIN plans'[p], NEW k \in Kinds
               PROVE  CodeTold(genLog', Len(genLog'), plans'[p][i].code[k], p, i, k)
    BY DEF CodeInv
  <2>1. p \in 1..Len(plans) /\ i \in DOMAIN plans[p] /\ CodeTold(genLog, m, plans[p][i].code[k], p, i, k)
    BY <1>6, <1>7 DEF GInv, CodeInv
  <2> HIDE DEF P, R, W, a, m
  <2>2. CASE ~AtCase(e, p, i)
    <3>1. plans'[p][i] = plans[p][i]
      BY <1>6, <1>7, <1>8, <2>1, <2>2 DEF AtCase
    <3>2. ~AtCase(genLog'[m + 1], p, i) /\ m \in Nat
      BY <1>1, <1>9, <2>2
    <3>3. CodeTold(genLog', m + 1, plans[p][i].code[k], p, i, k)
      BY <1>9, <2>1, <3>2, ToldMore
    <3>. QED
      BY <1>9, <3>1, <3>3
  <2>3. CASE AtCase(e, p, i) /\ k = kind
    <3>1. plans'[p][i].code[k] = q
      BY <1>2, <1>5, <1>6, <1>7, <1>8, <2>1, <2>3 DEF AtCase
    <3>2. OfKind(genLog'[m + 1], p, i, k) /\ genLog'[m + 1].request = q
      BY <1>8, <1>9, <2>3 DEF OfKind
    <3>3. CodeTold(genLog', m + 1, q, p, i, k)
      BY <1>1, <3>2, ToldOwn
    <3>. QED
      BY <1>9, <3>1, <3>3
  <2>4. CASE AtCase(e, p, i) /\ k # kind
    <3>1. p = P /\ i \in DOMAIN R /\ plans'[p][i].code[k] = R[i].code[k]
      <4>1. p = P /\ i \in W /\ i \in DOMAIN R /\ k \in Kinds \ {kind}
        BY <1>2, <1>8, <2>1, <2>4 DEF AtCase
      <4>2. plans'[p][i].code = metadata_json(q, i)
        BY <1>2, <1>6, <1>7, <4>1
      <4>. QED
        BY <1>5, <4>1, <4>2
    <3>2. CodeTold(genLog, a, R[i].code[k], p, i, k)
      BY <1>2, <3>1
    <3>3. AtCase(genLog'[m + 1], p, i) /\ genLog'[m + 1].kind # k /\ genLog'[m + 1].after = a
      BY <1>8, <1>9, <2>4
    <3>4. m \in Nat /\ a \in 0..m /\ \A n \in 1..m : genLog'[n] = genLog[n]
      BY <1>1, <1>3, <1>9
    <3>5. CodeTold(genLog', m + 1, R[i].code[k], p, i, k)
      BY <3>2, <3>3, <3>4, ToldWritten
    <3>. QED
      BY <1>9, <3>1, <3>5
  <2>. QED
    BY <2>2, <2>3, <2>4
<1>. QED
  BY <1>11, <1>13, <1>14 DEF GInv

LEMMA GStep == GInv /\ [GenerationNext]_generationVars => GInv'
<1> SUFFICES ASSUME GInv, [GenerationNext]_generationVars PROVE GInv'
  OBVIOUS
<1>1. CASE UNCHANGED generationVars
  BY <1>1 DEF generationVars, GInv, GenRows, DraftInv, CodeInv
<1>2. ASSUME NEW type, NEW parses, Ingest(type, parses) PROVE GInv'
  BY <1>2 DEF Ingest, GInv, GenRows, DraftInv, CodeInv
<1>3. ASSUME NEW q \in Requests, BeginPlan(q) PROVE GInv'
  <2>1. /\ plans' = plans /\ genLog' = genLog /\ draft' = draft /\ progress' = [progress EXCEPT ![q] = "planning"]
        /\ GenRows
    BY <1>3 DEF BeginPlan, GInv
  <2>2. progress' \in [Requests -> Stages] /\ progress'[q] = "planning" /\ DOMAIN draft' = Requests
        /\ \A r \in Requests \ {q} : progress'[r] = progress[r]
    BY <2>1 DEF GenRows, Stages
  <2>. QED
    BY <2>1, <2>2, GQuiet DEF Open
<1>4. ASSUME NEW q \in Requests, PlanFails(q) \/ ApiTestsFail(q) \/ UiTestsFail(q) PROVE GInv'
  BY <1>4, GLeave DEF PlanFails, ApiTestsFail, UiTestsFail, Abandon
<1>5. ASSUME NEW q \in Requests, NEW o \in Outlines, Persist(q, o) PROVE GInv'
  BY <1>5, GPersist
<1>6. ASSUME NEW q \in Requests, NEW p \in DOMAIN plans, BeginApiTests(q, p) \/ BeginUiTests(q, p) PROVE GInv'
  BY <1>6, GAsk DEF BeginApiTests, BeginUiTests, Kinds
<1>7. ASSUME NEW q \in Requests, NEW titles, ApiTestsAnswered(q, titles) \/ UiTestsAnswered(q, titles) PROVE GInv'
  BY <1>7, GAttach DEF ApiTestsAnswered, UiTestsAnswered, Awaits, Open
<1>8. ASSUME NEW q \in Requests, Flush(q) PROVE GInv'
  BY <1>8, GFlush
<1>9. ASSUME NEW q \in Requests, CommitApiTests(q) \/ CommitUiTests(q) PROVE GInv'
  BY <1>9, GCommit DEF CommitApiTests, CommitUiTests, Kinds
<1>. QED
  BY <1>1, <1>2, <1>3, <1>4, <1>5, <1>6, <1>7, <1>8, <1>9 DEF GenerationNext

(* Generated tests: a case has the code of the last audited generation of  *)
(* its kind, or a later writer of the case had read it before that ended;  *)
(* for any number of calls in any processes, any plans and any answers of  *)
(* a model.                                                                *)
THEOREM CodeAsAudited == GenerationSpec => []GeneratedCodeKept
<1>1. GenerationInit => GInv
  BY GInit
<1>2. GInv /\ [GenerationNext]_generationVars => GInv'
  BY GStep
<1>3. GInv => GeneratedCodeKept
  BY GKept
<1>. QED
  BY <1>1, <1>2, <1>3, PTL DEF GenerationSpec

(* Only a call under way has locals, and the plans are bounded.            *)
LocalsInv ==
  /\ requirement \in RequirementRow \cup {Missing} /\ Len(plans) <= MaxPlans
  /\ \A q \in Requests : ~Open(q) => draft[q] = Missing

LEMMA LocalsKept ==
  ASSUME GInv, LocalsInv, GInv', NEW q \in Requests, UNCHANGED requirement, Len(plans') <= MaxPlans,
         \A r \in Requests \ {q} : progress'[r] = progress[r] /\ draft'[r] = draft[r],
         ~Open(q)' => draft'[q] = Missing
  PROVE  LocalsInv'
<1>1. ASSUME NEW r \in Requests, ~Open(r)' PROVE draft'[r] = Missing
  <2>1. CASE r # q
    BY <1>1, <2>1 DEF LocalsInv, Open
  <2>. QED
    BY <1>1, <2>1
<1>. QED
  BY <1>1 DEF LocalsInv

LEMMA LocalsLeft ==
  ASSUME GInv, LocalsInv, GInv', NEW q \in Requests, UNCHANGED requirement, Len(plans') <= MaxPlans,
         LeaveGeneration(q)
  PROVE  LocalsInv'
<1>1. draft'[q] = Missing /\ \A r \in Requests \ {q} : progress'[r] = progress[r] /\ draft'[r] = draft[r]
  BY DEF LeaveGeneration, GInv, GenRows
<1>. QED
  BY <1>1, LocalsKept

LEMMA LocalsStep == GInv /\ LocalsInv /\ [GenerationNext]_generationVars => LocalsInv'
<1> SUFFICES ASSUME GInv, LocalsInv, GInv', [GenerationNext]_generationVars PROVE LocalsInv'
  BY GStep
<1>0. plans' = plans => Len(plans') <= MaxPlans
  BY DEF LocalsInv
<1>1. CASE UNCHANGED generationVars
  BY <1>1 DEF generationVars, LocalsInv, Open
<1>2. ASSUME NEW type \in {"openapi", "user_story"}, NEW parses \in BOOLEAN, Ingest(type, parses)
      PROVE  LocalsInv'
  <2>1. /\ requirement' = [type |-> type, status |-> IF parses THEN "parsed" ELSE "failed"]
        /\ UNCHANGED <<plans, progress, draft>>
    BY <1>2 DEF Ingest
  <2>2. requirement' \in RequirementRow
    <3>1. PICK st \in {"parsed", "failed"} : requirement' = [type |-> type, status |-> st]
      BY <2>1
    <3>. QED
      BY <3>1 DEF RequirementRow
  <2>. QED
    BY <2>1, <2>2 DEF LocalsInv, Open
<1>3. ASSUME NEW q \in Requests, BeginPlan(q) PROVE LocalsInv'
  <2>1. /\ progress[q] = "new" /\ UNCHANGED <<requirement, plans, draft>>
        /\ progress' = [progress EXCEPT ![q] = "planning"]
    BY <1>3 DEF BeginPlan
  <2>2. ~Open(q) /\ \A r \in Requests \ {q} : progress'[r] = progress[r]
    BY <2>1 DEF Open
  <2>. QED
    BY <1>0, <2>1, <2>2, LocalsKept DEF LocalsInv
<1>4. ASSUME NEW q \in Requests, PlanFails(q) \/ ApiTestsFail(q) \/ UiTestsFail(q) PROVE LocalsInv'
  BY <1>0, <1>4, LocalsLeft DEF PlanFails, ApiTestsFail, UiTestsFail, Abandon
<1>5. ASSUME NEW q \in Requests, NEW o \in Outlines, Persist(q, o) PROVE LocalsInv'
  <2>1. PICK cases : plans' = Append(plans, cases)
    BY <1>5 DEF Persist
  <2>2. Len(plans) < MaxPlans /\ LeaveGeneration(q) /\ UNCHANGED requirement
    BY <1>5 DEF Persist
  <2>3. plans \in Seq(Seq(CaseRow)) /\ Len(plans) \in Nat
    BY LenProperties DEF GInv, GenRows
  <2>4. Len(plans') = Len(plans) + 1
    BY <2>1, <2>3
  <2>5. Len(plans') <= MaxPlans
    BY <2>2, <2>3, <2>4, GenerationAssumption
  <2>. QED
    BY <2>2, <2>5, LocalsLeft
<1>6. ASSUME NEW q \in Requests, NEW p \in DOMAIN plans, NEW kind \in Kinds, AskModel(q, kind, p)
      PROVE  LocalsInv'
  <2>1. /\ UNCHANGED <<requirement, plans>> /\ progress'[q] = "asking"
        /\ \A r \in Requests \ {q} : progress'[r] = progress[r] /\ draft'[r] = draft[r]
    BY <1>6 DEF AskModel, GInv, GenRows
  <2>. QED
    BY <1>0, <2>1, LocalsKept DEF Open
<1>7. ASSUME NEW q \in Requests, NEW titles, Attach(q, titles) PROVE LocalsInv'
  <2>1. /\ UNCHANGED <<requirement, plans>> /\ progress'[q] = "flushing"
        /\ \A r \in Requests \ {q} : progress'[r] = progress[r] /\ draft'[r] = draft[r]
    BY <1>7 DEF Attach, GInv, GenRows
  <2>. QED
    BY <1>0, <2>1, LocalsKept DEF Open
<1>8. ASSUME NEW q \in Requests, Flush(q) PROVE LocalsInv'
  <2>1. /\ UNCHANGED <<requirement, plans, draft>> /\ progress'[q] = "flushed"
        /\ \A r \in Requests \ {q} : progress'[r] = progress[r]
    BY <1>8 DEF Flush, GInv, GenRows
  <2>. QED
    BY <1>0, <2>1, LocalsKept DEF Open
<1>9. ASSUME NEW q \in Requests, NEW kind \in Kinds, CommitTests(q, kind) PROVE LocalsInv'
  <2>1. PICK p, cases : plans' = [plans EXCEPT ![p] = cases]
    BY <1>9 DEF CommitTests
  <2>2. plans \in Seq(Seq(CaseRow)) /\ plans' \in Seq(Seq(CaseRow)) /\ DOMAIN plans' = DOMAIN plans
    BY <2>1 DEF GInv, GenRows
  <2>3. Len(plans') = Len(plans)
    <3>1. PICK n \in Nat : n = Len(plans) /\ DOMAIN plans = 1..n
      BY <2>2, LenProperties
    <3>2. PICK k \in Nat : k = Len(plans') /\ DOMAIN plans' = 1..k
      BY <2>2, LenProperties
    <3>. QED
      BY <2>2, <3>1, <3>2
  <2>. QED
    BY <1>9, <2>3, LocalsLeft DEF CommitTests, LocalsInv
<1>10. ASSUME NEW q \in Requests, NEW p \in DOMAIN plans, BeginApiTests(q, p) \/ BeginUiTests(q, p)
       PROVE  LocalsInv'
  BY <1>6, <1>10 DEF BeginApiTests, BeginUiTests, Kinds
<1>11. ASSUME NEW q \in Requests, NEW titles, ApiTestsAnswered(q, titles) \/ UiTestsAnswered(q, titles)
       PROVE  LocalsInv'
  BY <1>7, <1>11 DEF ApiTestsAnswered, UiTestsAnswered
<1>12. ASSUME NEW q \in Requests, CommitApiTests(q) \/ CommitUiTests(q) PROVE LocalsInv'
  BY <1>9, <1>12 DEF CommitApiTests, CommitUiTests, Kinds
<1>. QED
  BY <1>1, <1>2, <1>3, <1>4, <1>5, <1>8, <1>10, <1>11, <1>12 DEF GenerationNext

(* Requirement, plans and calls keep their types.                          *)
THEOREM GenerationTypeCorrect == GenerationSpec => []GenerationTypeOK
<1>1. GenerationInit => LocalsInv
  BY GenerationAssumption DEF GenerationInit, LocalsInv
<1>2. GInv /\ LocalsInv => GenerationTypeOK
  <2> SUFFICES ASSUME GInv, LocalsInv PROVE GenerationTypeOK
    OBVIOUS
  <2>1. ASSUME NEW p \in DOMAIN plans, NEW i \in DOMAIN plans[p]
        PROVE  plans[p][i].code \in [Kinds -> Requests \cup {Missing}]
    <3>1. plans[p] \in Seq(CaseRow)
      BY LenProperties, ElementOfSeq DEF GInv, GenRows
    <3>2. plans[p][i] \in CaseRow
      BY <3>1, LenProperties, ElementOfSeq
    <3>. QED
      BY <3>2 DEF CaseRow
  <2>2. ASSUME NEW q \in Requests
        PROVE  (draft[q] # Missing) <=> (progress[q] \in {"asking", "flushing", "flushed"})
    BY MissingAssumption DEF GInv, DraftInv, LocalsInv, Open
  <2>. QED
    BY <2>1, <2>2 DEF GInv, GenRows, LocalsInv, GenerationTypeOK
<1>. QED
  BY GInit, GStep, LocalsStep, <1>1, <1>2, PTL DEF GenerationSpec

-----------------------------------------------------------------------------
(* Failure triage: its invariant. *)

Asked == [day : Nat, results : Nat]
Failure == [code : Nat \cup {Unset}, text : Texts, score : Nat \cup {Unset}, asked : Asked]
Finding == [category : Category \cup {Unset}, by : {"llm", "heuristic"}, rule : RuleName \cup {Unset}]

(* What a flip rate says of the results that were known when it was asked. *)
ScoreTells(score, known) ==
  score # Unset => /\ score > 0 => Flapped(known)
                   /\ Alternates(known) => score = 100

SignalInv(s) ==
  s \in Failure /\ s.asked.results <= Len(observed) /\ ScoreTells(s.score, Known(s))

(* What FlakyNotBlamed says of one verdict. *)
FairTo(row, s) ==
  row.by = "heuristic" =>
    /\ row.category = "flaky_test" => Flapped(Known(s))
    /\ row.category = "product_defect" => s.score = Unset \/ ~Alternates(Known(s))
    /\ s.code \in {401, 403, 408} => row.category = "environment_issue"

TriageRows ==
  /\ triageDay \in 0..FinalDay /\ observed \in Seq(Result)
  /\ DOMAIN failure = Reporters /\ DOMAIN report = Reporters
  /\ verdicts \in Seq([row : Finding, signal : Failure])

SignalsInv == \A c \in Reporters : \A s : failure[c] = s /\ s # Unset => SignalInv(s)

AnswersInv ==
  \A c \in Reporters : \A s, row :
    failure[c] = s /\ report[c] = row /\ row # Unset => s # Unset /\ row \in Finding /\ FairTo(row, s)

VerdictsInv ==
  \A i \in 1..Len(verdicts) : \A s, row :
    verdicts[i].signal = s /\ verdicts[i].row = row => SignalInv(s) /\ FairTo(row, s)

TInv == TriageRows /\ SignalsInv /\ AnswersInv /\ VerdictsInv

LEMMA TInit == TriageInit => TInv
<1> SUFFICES ASSUME TriageInit PROVE TInv
  OBVIOUS
<1>1. /\ observed = <<>> /\ observed \in Seq(Result) /\ triageDay \in 0..FinalDay
      /\ verdicts = <<>> /\ verdicts \in Seq([row : Finding, signal : Failure]) /\ Len(verdicts) = 0
  BY EmptySeq, TriageAssumption DEF TriageInit
<1>2. \A i \in 1..Len(verdicts) : FALSE
  BY <1>1
<1>. QED
  BY <1>1, <1>2 DEF TriageInit, TInv, TriageRows, SignalsInv, AnswersInv, VerdictsInv

LEMMA TKept == TInv => FlakyNotBlamed
<1> SUFFICES ASSUME TInv PROVE FlakyNotBlamed
  OBVIOUS
<1>1. DOMAIN verdicts = 1..Len(verdicts)
  BY LenProperties DEF TInv, TriageRows
<1>. QED
  BY <1>1 DEF TInv, VerdictsInv, FairTo, FlakyNotBlamed

-----------------------------------------------------------------------------
(* The flip rate of a window. *)

(* An order of the results of a window has every one of them once.         *)
LEMMA OrderedIs ==
  ASSUME TriageRows, NEW obs, obs \subseteq DOMAIN observed, IsFiniteSet(obs), NEW s \in Ordered(obs)
  PROVE  /\ Cardinality(obs) \in Nat /\ s \in [1..Cardinality(obs) -> obs] /\ Len(s) = Cardinality(obs)
         /\ \A k \in obs : \E m \in 1..Len(s) : s[m] = k
         /\ \A i, j \in 1..Len(s) : i < j =>
              s[i] # s[j] /\ observed[s[i]].observed_at <= observed[s[j]].observed_at
<1> DEFINE n == Cardinality(obs)
<1>1. n \in Nat
  BY FS_CardinalityType
<1>2. /\ s \in [1..n -> obs]
      /\ \A i, j \in 1..n : i < j =>
           s[i] # s[j] /\ observed[s[i]].observed_at <= observed[s[j]].observed_at
  BY DEF Ordered
<1>3. s \in Seq(obs) /\ Len(s) = n
  BY <1>1, <1>2, SeqDef, LenProperties
<1>4. Cardinality(1..n) = n
  BY <1>1, FS_Interval
<1>5. \A i, j \in 1..n : s[i] = s[j] => i = j
  BY <1>1, <1>2
<1>6. s \in Injection(1..n, obs)
  BY <1>2, <1>5 DEF Injection, IsInjective
<1>7. s \in Surjection(1..n, obs)
  BY <1>4, <1>6, FS_Injection
<1>. QED
  BY <1>1, <1>2, <1>3, <1>7 DEF Surjection

LEMMA FlipsAre ==
  ASSUME NEW s, Len(s) \in Nat, Len(s) >= 2
  PROVE  /\ IsFiniteSet(flips(s)) /\ Cardinality(flips(s)) \in Nat
         /\ flips(s) = 1..(Len(s) - 1) => Cardinality(flips(s)) = Len(s) - 1
<1>1. IsFiniteSet(1..(Len(s) - 1)) /\ Cardinality(1..(Len(s) - 1)) = Len(s) - 1
  BY FS_Interval
<1>2. flips(s) \in SUBSET (1..(Len(s) - 1))
  BY DEF flips
<1>3. IsFiniteSet(flips(s))
  BY <1>1, <1>2, FS_Subset
<1>. QED
  BY <1>1, <1>3, FS_CardinalityType

(* In percent: of n neighbours, c differ.                                  *)
LEMMA ShareIs ==
  ASSUME NEW c \in Nat, NEW n \in Nat, n >= 1
  PROVE  /\ (100 * c) \div n \in Nat
         /\ c = 0 => (100 * c) \div n = 0
         /\ c = n => (100 * c) \div n = 100
<1>1. (100 * c) \div n \in Nat
  OBVIOUS
<1>2. c = 0 => (100 * c) \div n = 0
  OBVIOUS
<1>3. (100 * n) \div n = 100
  OBVIOUS
<1>. QED
  BY <1>1, <1>2, <1>3

(* Neighbours in the order of a window have no other known result between. *)
LEMMA NeighboursFlip ==
  ASSUME TriageRows, NEW w \in Nat, w <= D90, IsFiniteSet(InWindow(w)), Cardinality(InWindow(w)) >= 2,
         NEW s \in Ordered(InWindow(w)), Alternates(InWindow(D90))
  PROVE  flips(s) = 1..(Len(s) - 1)
<1> DEFINE obs == InWindow(w)
           known == InWindow(D90)
<1>1. obs \subseteq DOMAIN observed /\ IsFiniteSet(obs)
  BY DEF InWindow
<1>2. /\ Len(s) \in Nat /\ s \in [1..Len(s) -> obs]
      /\ \A k \in obs : \E m \in 1..Len(s) : s[m] = k
      /\ \A i, j \in 1..Len(s) : i < j =>
           s[i] # s[j] /\ observed[s[i]].observed_at <= observed[s[j]].observed_at
  BY <1>1, OrderedIs
<1>3. /\ triageDay \in Nat /\ D90 \in Nat
      /\ \A i \in DOMAIN observed : observed[i].observed_at \in Nat
  <2>1. \A i \in DOMAIN observed : observed[i] \in Result
    BY LenProperties, ElementOfSeq DEF TriageRows
  <2>. QED
    BY <2>1, TriageAssumption DEF Result, TriageRows
<1>4. obs \subseteq known
  BY <1>3 DEF InWindow
<1>5. ASSUME NEW i \in 1..(Len(s) - 1)
      PROVE  observed[s[i]].passed # observed[s[i + 1]].passed
  <2>1. i \in 1..Len(s) /\ i + 1 \in 1..Len(s) /\ i < i + 1
    BY <1>2
  <2>2. /\ s[i] \in obs /\ s[i + 1] \in obs /\ s[i] # s[i + 1]
        /\ observed[s[i]].observed_at <= observed[s[i + 1]].observed_at
    BY <1>2, <2>1
  <2>3. observed[s[i]].observed_at < observed[s[i + 1]].observed_at
    <3>1. observed[s[i]].observed_at # observed[s[i + 1]].observed_at
      BY <1>4, <2>2 DEF Alternates
    <3>. QED
      BY <1>1, <1>3, <2>2, <3>1
  <2>4. ASSUME NEW k \in known, observed[s[i]].observed_at < observed[k].observed_at,
               observed[k].observed_at < observed[s[i + 1]].observed_at
        PROVE  FALSE
    <3>1. k \in DOMAIN observed /\ observed[k].observed_at \in Nat
      BY <1>3 DEF InWindow
    <3>2. /\ observed[s[i]].observed_at >= triageDay - w
          /\ observed[s[i]].observed_at \in Nat /\ observed[s[i + 1]].observed_at \in Nat
      BY <1>1, <1>3, <2>2 DEF InWindow
    <3>3. k \in obs
      BY <1>3, <2>4, <3>1, <3>2 DEF InWindow
    <3>4. PICK m \in 1..Len(s) : s[m] = k
      BY <1>2, <3>3
    <3>5. m = i \/ m = i + 1 \/ m < i \/ i + 1 < m
      BY <1>2
    <3>6. CASE m < i
      <4>1. observed[k].observed_at <= observed[s[i]].observed_at
        BY <1>2, <2>1, <3>4, <3>6
      <4>. QED
        BY <2>4, <3>1, <3>2, <4>1
    <3>7. CASE i + 1 < m
      <4>1. observed[s[i + 1]].observed_at <= observed[k].observed_at
        BY <1>2, <2>1, <3>4, <3>7
      <4>. QED
        BY <2>4, <3>1, <3>2, <4>1
    <3>. QED
      BY <2>4, <3>1, <3>2, <3>4, <3>5, <3>6, <3>7
  <2>. QED
    BY <1>4, <2>2, <2>3, <2>4 DEF Alternates
<1>. QED
  BY <1>5 DEF flips

LEMMA WindowIs ==
  ASSUME TriageRows, NEW w \in Nat, w <= D90
  PROVE  /\ InWindow(w) \subseteq InWindow(D90) /\ InWindow(w) \subseteq DOMAIN observed
         /\ IsFiniteSet(InWindow(w)) /\ Cardinality(InWindow(w)) \in Nat
<1>1. /\ triageDay \in Nat /\ D90 \in Nat /\ Len(observed) \in Nat /\ DOMAIN observed = 1..Len(observed)
      /\ \A i \in DOMAIN observed : observed[i] \in Result
  BY LenProperties, ElementOfSeq, TriageAssumption DEF TriageRows
<1>2. \A i \in DOMAIN observed : observed[i].observed_at \in Int
  BY <1>1, TriageAssumption DEF Result
<1>3. InWindow(w) \subseteq InWindow(D90) /\ InWindow(w) \subseteq DOMAIN observed
  BY <1>1, <1>2 DEF InWindow
<1>4. IsFiniteSet(DOMAIN observed)
  BY <1>1, FS_Interval
<1>5. IsFiniteSet(InWindow(w))
  BY <1>3, <1>4, FS_Subset
<1>. QED
  BY <1>3, <1>5, FS_CardinalityType

LEMMA OneWindow ==
  ASSUME TriageRows, NEW w \in Nat, w <= D90, Enough(InWindow(w)), NEW s \in Ordered(InWindow(w))
  PROVE  /\ Len(s) >= 2 /\ (100 * Cardinality(flips(s))) \div (Len(s) - 1) \in Nat
         /\ ScoreTells((100 * Cardinality(flips(s))) \div (Len(s) - 1), InWindow(D90))
<1> DEFINE obs == InWindow(w)
           known == InWindow(D90)
           n == Len(s) - 1
           c == Cardinality(flips(s))
<1>1. /\ obs \subseteq known /\ obs \subseteq DOMAIN observed /\ IsFiniteSet(obs)
      /\ Cardinality(obs) \in Nat /\ Cardinality(obs) >= 2
  BY WindowIs DEF Enough
<1>2. Len(s) = Cardinality(obs) /\ s \in [1..Len(s) -> obs]
  BY <1>1, OrderedIs
<1>3. Len(s) \in Nat /\ Len(s) >= 2 /\ n \in Nat /\ n >= 1
  BY <1>1, <1>2
<1>4. IsFiniteSet(flips(s)) /\ c \in Nat /\ (flips(s) = 1..n => c = n)
  BY <1>3, FlipsAre
<1>5. flips(s) = {} => c = 0
  BY <1>4, FS_EmptySet
<1>6. flips(s) # {} => Flapped(known)
  <2> SUFFICES ASSUME NEW i \in flips(s) PROVE Flapped(known)
    OBVIOUS
  <2>1. i \in 1..Len(s) /\ i + 1 \in 1..Len(s) /\ observed[s[i]].passed # observed[s[i + 1]].passed
    BY <1>3 DEF flips
  <2>2. s[i] \in known /\ s[i + 1] \in known
    BY <1>1, <1>2, <2>1
  <2>. QED
    BY <2>1, <2>2 DEF Flapped
<1>7. Alternates(known) => c = n
  BY <1>1, <1>4, NeighboursFlip
<1> HIDE DEF c, n
<1>8. /\ (100 * c) \div n \in Nat
      /\ c = 0 => (100 * c) \div n = 0
      /\ c = n => (100 * c) \div n = 100
  BY <1>3, <1>4, ShareIs
<1>9. ScoreTells((100 * c) \div n, known)
  BY <1>5, <1>6, <1>7, <1>8 DEF ScoreTells
<1>. QED
  BY <1>3, <1>8, <1>9 DEF c, n

LEMMA ScoreIs ==
  ASSUME TriageRows, NEW score \in flakiness_score
  PROVE  score \in Nat /\ ScoreTells(score, InWindow(D90))
<1> DEFINE told == {w \in {D14, D30, D90} : Enough(InWindow(w))}
           w == CHOOSE u \in told : \A v \in told : u <= v
<1>1. D14 \in Nat /\ D30 \in Nat /\ D90 \in Nat /\ D14 <= D30 /\ D30 <= D90
  BY TriageAssumption
<1>2. CASE told = {}
  <2>1. score = 0
    BY <1>2 DEF flakiness_score
  <2>2. ~Enough(InWindow(D90))
    BY <1>2
  <2>. QED
    BY <2>1, <2>2 DEF ScoreTells, Alternates, Enough
<1>3. CASE told # {}
  <2>1. \E u \in told : \A v \in told : u <= v
    BY <1>1, <1>3
  <2>2. w \in told
    BY <2>1
  <2>3. w \in Nat /\ w <= D90 /\ Enough(InWindow(w))
    <3>1. \A u \in told : u \in Nat /\ u <= D90 /\ Enough(InWindow(u))
      BY <1>1
    <3> HIDE DEF told, w
    <3>. QED
      BY <2>2, <3>1
  <2>4. \E s \in Ordered(InWindow(w)) :
          score = IF Len(s) < 2 THEN 0 ELSE (100 * Cardinality(flips(s))) \div (Len(s) - 1)
    BY <1>3 DEF flakiness_score
  <2> HIDE DEF w
  <2>5. PICK s \in Ordered(InWindow(w)) :
          score = IF Len(s) < 2 THEN 0 ELSE (100 * Cardinality(flips(s))) \div (Len(s) - 1)
    BY <2>4
  <2>6. /\ Len(s) >= 2 /\ (100 * Cardinality(flips(s))) \div (Len(s) - 1) \in Nat
        /\ ScoreTells((100 * Cardinality(flips(s))) \div (Len(s) - 1), InWindow(D90))
    BY <2>3, OneWindow
  <2>7. Len(s) \in Nat /\ ~(Len(s) < 2)
    <3>1. InWindow(w) \subseteq DOMAIN observed /\ IsFiniteSet(InWindow(w))
      BY <2>3, WindowIs
    <3>2. Len(s) \in Nat
      BY <3>1, OrderedIs
    <3>. QED
      BY <2>6, <3>2
  <2>. QED
    BY <2>5, <2>6, <2>7
<1>. QED
  BY <1>2, <1>3

-----------------------------------------------------------------------------
(* The heuristic. *)

(* Some rule that matches is the first one.                                *)
LEMMA LeastIs ==
  ASSUME NEW S \in SUBSET Nat, S # {}
  PROVE  \E x \in S : \A y \in S : x <= y
<1>1. PICK m \in S : \A y \in S : ~(<<y, m>> \in OpToRel(<, Nat))
  BY NatLessThanWellFounded, WFMin
<1>2. \A y \in S : m <= y
  <2> SUFFICES ASSUME NEW y \in S PROVE m <= y
    OBVIOUS
  <2>1. y \in Nat /\ m \in Nat
    OBVIOUS
  <2>2. y < m => <<y, m>> \in OpToRel(<, Nat)
    <3> SUFFICES ASSUME y < m PROVE <<y, m>> \in OpToRel(<, Nat)
      OBVIOUS
    <3>1. <<y, m>> \in Nat \X Nat
      BY <2>1
    <3>. QED
      BY <3>1 DEF OpToRel
  <2>3. ~(y < m)
    BY <1>1, <2>2, Zenon
  <2>. QED
    BY <2>1, <2>3
<1>. QED
  BY <1>2

TextRule(m) == m \in [rule : RuleName, category : Category] /\ m.category # "flaky_test"

LEMMA RuleIs ==
  ASSUME NEW m, TextRule(m)
  PROVE  m # Unset /\ m.category \in Category /\ m.category # Unset /\ m.rule \in RuleName
BY UnsetAssumption DEF TextRule

LEMMA StatusRuleIs ==
  ASSUME NEW code \in Nat
  PROVE  /\ StatusRule(code) # Unset => TextRule(StatusRule(code))
         /\ code \in {401, 403, 408} =>
              StatusRule(code) # Unset /\ StatusRule(code).category = "environment_issue"
<1>1. TextRule(Rule("http_5xx", "product_defect"))
  BY DEF TextRule, Rule, Category, RuleName
<1>2. TextRule(Rule("http_4xx_auth", "environment_issue"))
  BY DEF TextRule, Rule, Category, RuleName
<1>3. TextRule(Rule("http_timeout_status", "environment_issue"))
  BY DEF TextRule, Rule, Category, RuleName
<1>4. CASE code \in 500..599
  BY <1>1, <1>4 DEF StatusRule
<1>5. CASE code \in {401, 403}
  <2>1. StatusRule(code) = Rule("http_4xx_auth", "environment_issue")
    BY <1>5 DEF StatusRule
  <2>. QED
    BY <1>2, <2>1, RuleIs DEF Rule
<1>6. CASE code \in {408, 504}
  <2>1. code \notin {401, 403}
    BY <1>6
  <2>2. code = 408 => code \notin 500..599 /\ StatusRule(code) = Rule("http_timeout_status", "environment_issue")
    BY <1>6, <2>1 DEF StatusRule
  <2>3. code = 504 => StatusRule(code) = Rule("http_5xx", "product_defect")
    BY DEF StatusRule
  <2>4. code \in {401, 403, 408} => code = 408
    BY <2>1
  <2>. QED
    BY <1>1, <1>3, <1>6, <2>2, <2>3, <2>4, RuleIs DEF Rule
<1>7. CASE code \notin 500..599 /\ code \notin {401, 403} /\ code \notin {408, 504}
  BY <1>7 DEF StatusRule
<1>. QED
  BY <1>4, <1>5, <1>6, <1>7

LEMMA TextRulesAre == \A i \in DOMAIN TextRules : i \in 1..8 /\ TextRule(TextRules[i])
<1>1. DOMAIN TextRules = 1..8
  BY DEF TextRules
<1>2. \A name \in RuleName, category \in Category \ {"flaky_test"} : TextRule(Rule(name, category))
  BY DEF TextRule, Rule
<1>3. \A i \in 1..8 : TextRule(TextRules[i])
  <2>1. \A i \in 1..8 : \E name \in RuleName, category \in Category \ {"flaky_test"} : TextRules[i] = Rule(name, category)
    BY DEF TextRules, Category, RuleName
  <2>. QED
    BY <1>2, <2>1
<1>. QED
  BY <1>1, <1>3

LEMMA HeuristicIs ==
  ASSUME NEW s, s.code \in Nat \cup {Unset}
  PROVE  LET m == classify_text(s) IN
         /\ m # Unset => TextRule(m)
         /\ s.code \in {401, 403, 408} => m # Unset /\ m.category = "environment_issue"
<1> DEFINE matching == {i \in DOMAIN TextRules : TextRules[i].rule \in s.text}
           by_code == IF s.code = Unset THEN Unset ELSE StatusRule(s.code)
           first == CHOOSE i \in matching : \A j \in matching : i <= j
<1>1. by_code # Unset => s.code \in Nat /\ by_code = StatusRule(s.code) /\ TextRule(by_code)
  BY StatusRuleIs
<1>2. s.code \in {401, 403, 408} => by_code # Unset /\ by_code.category = "environment_issue"
  <2> SUFFICES ASSUME s.code \in {401, 403, 408} PROVE by_code # Unset /\ by_code.category = "environment_issue"
    OBVIOUS
  <2>1. s.code \in Nat /\ s.code # Unset
    BY TriageAssumption
  <2>. QED
    BY <2>1, StatusRuleIs
<1>3. matching # {} => TextRule(TextRules[first])
  <2> SUFFICES ASSUME matching # {} PROVE TextRule(TextRules[first])
    OBVIOUS
  <2>1. matching \in SUBSET Nat /\ \A i \in matching : TextRule(TextRules[i])
    BY TextRulesAre
  <2> HIDE DEF matching
  <2>2. PICK i \in matching : \A j \in matching : i <= j
    BY <2>1, LeastIs
  <2>3. first \in matching
    BY <2>2
  <2>. QED
    BY <2>1, <2>3
<1>4. classify_text(s) = IF by_code # Unset THEN by_code
                         ELSE IF matching = {} THEN Unset ELSE TextRules[first]
  BY DEF classify_text
<1> HIDE DEF matching, by_code, first
<1>. QED
  BY <1>1, <1>2, <1>3, <1>4

(* What the heuristic answers is true of the signal.                       *)
LEMMA AnswerIs ==
  ASSUME NEW s, SignalInv(s), TriageRows
  PROVE  LET m == apply_flakiness(s, classify_text(s)) IN
         /\ m # Unset => m.category \in Category /\ m.rule \in RuleName
         /\ m # Unset => FairTo([category |-> m.category, by |-> "heuristic", rule |-> m.rule], s)
<1> DEFINE t == classify_text(s)
           m == apply_flakiness(s, t)
           known == Known(s)
<1>1. /\ s.code \in Nat \cup {Unset} /\ s.score \in Nat \cup {Unset} /\ ScoreTells(s.score, known)
      /\ FlipThreshold \in Nat /\ FlipThreshold >= 1 /\ FlipThreshold <= 100
  BY TriageAssumption DEF SignalInv, Failure
<1>2. /\ t # Unset => TextRule(t)
      /\ s.code \in {401, 403, 408} => t # Unset /\ t.category = "environment_issue"
  BY <1>1, HeuristicIs
<1> HIDE DEF t
<1>3. CASE s.score = Unset \/ s.score < FlipThreshold
  <2>1. m = t
    BY <1>3 DEF apply_flakiness
  <2>2. s.score = Unset \/ ~Alternates(known)
    BY <1>1, <1>3 DEF ScoreTells
  <2>3. m # Unset => m.category \in Category /\ m.rule \in RuleName /\ m.category # "flaky_test"
    BY <1>2, <2>1, RuleIs DEF TextRule
  <2>. QED
    BY <1>2, <2>1, <2>2, <2>3 DEF FairTo, t
<1>4. CASE s.score # Unset /\ ~(s.score < FlipThreshold)
  <2>1. Flapped(known)
    BY <1>1, <1>4 DEF ScoreTells
  <2>2. CASE t = Unset
    <3>1. m = Rule("flakiness_observed", "flaky_test")
      BY <1>4, <2>2 DEF apply_flakiness
    <3>2. m.category = "flaky_test" /\ m.rule \in RuleName
      BY <3>1 DEF Rule, RuleName
    <3>. QED
      BY <1>2, <2>1, <2>2, <3>2 DEF FairTo, Category, t
  <2>3. CASE t # Unset /\ t.category = "product_defect"
    <3>1. m = Rule("flakiness_override", "flaky_test")
      BY <1>4, <2>3 DEF apply_flakiness
    <3>2. m.category = "flaky_test" /\ m.rule \in RuleName
      BY <3>1 DEF Rule, RuleName
    <3>. QED
      BY <1>2, <2>1, <2>3, <3>2 DEF FairTo, Category, t
  <2>4. CASE t # Unset /\ t.category # "product_defect"
    <3>1. m = t
      BY <1>4, <2>4 DEF apply_flakiness
    <3>2. m.category \in Category /\ m.rule \in RuleName /\ m.category # "flaky_test"
      BY <1>2, <2>4, <3>1, RuleIs DEF TextRule
    <3>. QED
      BY <1>2, <2>4, <3>1, <3>2 DEF FairTo, t
  <2>. QED
    BY <2>2, <2>3, <2>4
<1>. QED
  BY <1>3, <1>4

-----------------------------------------------------------------------------
(* The steps. *)

(* What was known when a signal was built stays as it was.                 *)
LEMMA KnownStays ==
  ASSUME NEW s, SignalInv(s), TriageRows,
         \/ observed' = observed
         \/ \E r \in Result : observed' = Append(observed, r)
  PROVE  SignalInv(s)' /\ \A row : FairTo(row, s) => FairTo(row, s)'
<1>1. /\ s.asked.results \in Nat /\ s.asked.results <= Len(observed) /\ Len(observed) \in Nat
      /\ s \in Failure /\ ScoreTells(s.score, Known(s))
  BY LenProperties DEF SignalInv, Failure, Asked, TriageRows
<1>2. Len(observed') >= Len(observed) /\ \A i \in 1..Len(observed) : observed'[i] = observed[i]
  <2>1. CASE observed' = observed
    BY <1>1, <2>1
  <2>2. ASSUME NEW r \in Result, observed' = Append(observed, r)
        PROVE  Len(observed') >= Len(observed) /\ \A i \in 1..Len(observed) : observed'[i] = observed[i]
    <3>1. /\ Len(observed') = Len(observed) + 1
          /\ \A i \in 1..Len(observed) : observed'[i] = observed[i]
      BY <2>2, AppendProperties DEF TriageRows
    <3>. QED
      BY <1>1, <3>1
  <2>. QED
    BY <2>1, <2>2
<1>3. \A i \in 1..s.asked.results : observed'[i] = observed[i]
  BY <1>1, <1>2
<1>4. Known(s)' = Known(s)
  BY <1>3 DEF Known
<1>5. Known(s) \subseteq 1..s.asked.results
  BY DEF Known
<1>6. \A i \in Known(s) : observed'[i] = observed[i]
  BY <1>3, <1>5
<1>7. Flapped(Known(s))' <=> Flapped(Known(s))
  BY <1>4, <1>6 DEF Flapped
<1>8. Alternates(Known(s))' <=> Alternates(Known(s))
  <2>1. PICK K : K = Known(s) /\ K = Known(s)'
    BY <1>4
  <2>2. \A i \in K : /\ observed'[i].observed_at = observed[i].observed_at
                     /\ observed'[i].passed = observed[i].passed
    BY <1>6, <2>1
  <2>3. Alternates(K)' <=> Alternates(K)
    BY <2>2 DEF Alternates
  <2>. QED
    BY <2>1, <2>3
<1>9. SignalInv(s)'
  <2>1. Len(observed') \in Nat /\ s.asked.results <= Len(observed')
    <3>1. Len(observed') \in Nat
      BY <1>1, LenProperties, AppendProperties DEF TriageRows
    <3>. QED
      BY <1>1, <1>2, <3>1
  <2>. QED
    BY <1>1, <1>7, <1>8, <2>1 DEF SignalInv, ScoreTells
<1>. QED
  BY <1>7, <1>8, <1>9 DEF FairTo

LEMMA TQuiet ==
  ASSUME TInv, UNCHANGED verdicts, DOMAIN failure' = Reporters, DOMAIN report' = Reporters,
         triageDay' \in 0..FinalDay, observed' \in Seq(Result),
         \/ observed' = observed
         \/ \E r \in Result : observed' = Append(observed, r),
         \A c \in Reporters : failure'[c] # Unset => failure'[c] = failure[c] \/ SignalInv(failure'[c]),
         \A c \in Reporters : report'[c] # Unset =>
           /\ failure'[c] = failure[c]
           /\ \/ report'[c] = report[c]
              \/ failure[c] # Unset /\ report'[c] \in Finding /\ FairTo(report'[c], failure[c])
  PROVE  TInv'
<1>1. TriageRows /\ TriageRows'
  BY DEF TInv, TriageRows
<1>2. ASSUME NEW s, SignalInv(s) PROVE SignalInv(s)' /\ \A row : FairTo(row, s) => FairTo(row, s)'
  BY <1>1, <1>2, KnownStays
<1>3. SignalsInv'
  <2> SUFFICES ASSUME NEW c \in Reporters, NEW s, failure'[c] = s, s # Unset PROVE SignalInv(s)'
    BY DEF SignalsInv
  <2>1. SignalInv(s)
    BY DEF TInv, SignalsInv
  <2>. QED
    BY <1>2, <2>1
<1>4. AnswersInv'
  <2> SUFFICES ASSUME NEW c \in Reporters, NEW s, NEW row, failure'[c] = s, report'[c] = row, row # Unset
               PROVE  s # Unset /\ row \in Finding /\ FairTo(row, s)'
    BY DEF AnswersInv
  <2>1. failure[c] = s /\ s # Unset /\ row \in Finding /\ FairTo(row, s)
    BY DEF TInv, AnswersInv
  <2>2. SignalInv(s)
    BY <2>1 DEF TInv, SignalsInv
  <2>. QED
    BY <1>2, <2>1, <2>2
<1>5. VerdictsInv'
  <2> SUFFICES ASSUME NEW i \in 1..Len(verdicts), NEW s, NEW row, verdicts[i].signal = s, verdicts[i].row = row
               PROVE  SignalInv(s)' /\ FairTo(row, s)'
    BY DEF VerdictsInv
  <2>1. SignalInv(s) /\ FairTo(row, s)
    BY DEF TInv, VerdictsInv
  <2>. QED
    BY <1>2, <2>1
<1>. QED
  BY <1>1, <1>3, <1>4, <1>5 DEF TInv

LEMMA TStep == TInv /\ [TriageNext]_triageVars => TInv'
<1> SUFFICES ASSUME TInv, [TriageNext]_triageVars PROVE TInv'
  OBVIOUS
<1>1. TriageRows
  BY DEF TInv
<1>2. CASE UNCHANGED triageVars
  BY <1>1, <1>2, TQuiet DEF triageVars, TriageRows
<1>3. CASE TriageDayPasses
  BY <1>1, <1>3, TQuiet, TriageAssumption DEF TriageDayPasses, TriageRows
<1>4. ASSUME NEW passed \in BOOLEAN, NEW d \in 0..triageDay, Record(passed, d) PROVE TInv'
  <2> DEFINE r == [passed |-> passed, observed_at |-> d]
  <2>1. r \in Result
    BY <1>4, <1>1, TriageAssumption DEF Result, Record, TriageRows
  <2>2. observed' = Append(observed, r) /\ observed' \in Seq(Result)
    BY <1>1, <1>4, <2>1, AppendProperties DEF Record, TriageRows
  <2>. QED
    BY <1>1, <1>4, <2>1, <2>2, TQuiet DEF Record, TriageRows
<1>5. ASSUME NEW c \in Reporters, NEW code \in Codes \cup {Unset}, NEW text \in Texts,
             NEW score \in flakiness_score \cup {Unset}, BuildSignal(c, code, text, score)
      PROVE  TInv'
  <2> DEFINE s == [code |-> code, text |-> text, score |-> score,
                   asked |-> [day |-> triageDay, results |-> Len(observed)]]
  <2>1. failure[c] = Unset /\ failure' = [failure EXCEPT ![c] = s]
        /\ UNCHANGED <<triageDay, observed, report, verdicts>>
    BY <1>5 DEF BuildSignal
  <2>2. triageDay \in Nat /\ Len(observed) \in Nat /\ DOMAIN observed = 1..Len(observed)
    BY <1>1, LenProperties, TriageAssumption DEF TriageRows
  <2>3. score # Unset => score \in Nat /\ ScoreTells(score, InWindow(D90))
    BY <1>1, ScoreIs
  <2>4. s \in Failure
    BY <2>2, <2>3, TriageAssumption DEF Failure, Asked
  <2>5. Known(s) = InWindow(D90)
    BY <2>2 DEF Known, InWindow
  <2>6. SignalInv(s)
    BY <2>2, <2>3, <2>4, <2>5 DEF SignalInv, ScoreTells
  <2> HIDE DEF s
  <2>8. /\ DOMAIN failure' = Reporters /\ failure'[c] = s
        /\ \A b \in Reporters \ {c} : failure'[b] = failure[b]
    BY <1>1, <2>1 DEF TriageRows
  <2>9. report[c] = Unset
    BY <2>1 DEF TInv, AnswersInv
  <2>. QED
    BY <1>1, <2>1, <2>6, <2>8, <2>9, TQuiet DEF TriageRows
<1>6. ASSUME NEW c \in Reporters, NEW v \in Finding, failure[c] # Unset, FairTo(v, failure[c]),
             report' = [report EXCEPT ![c] = v], UNCHANGED <<triageDay, observed, failure, verdicts>>
      PROVE  TInv'
  <2>1. DOMAIN report' = Reporters /\ \A b \in Reporters : report'[b] = IF b = c THEN v ELSE report[b]
    BY <1>1, <1>6 DEF TriageRows
  <2>. QED
    BY <1>1, <1>6, <2>1, TQuiet DEF TriageRows
<1>7. ASSUME NEW c \in Reporters, ClassifyByRule(c) PROVE TInv'
  <2> DEFINE m == apply_flakiness(failure[c], classify_text(failure[c]))
             byRule == [category |-> m.category, by |-> "heuristic", rule |-> m.rule]
             byModel == [category |-> Unset, by |-> "llm", rule |-> Unset]
  <2>1. failure[c] # Unset /\ UNCHANGED <<triageDay, observed, failure, verdicts>>
        /\ report' = [report EXCEPT ![c] = IF m = Unset THEN byModel ELSE byRule]
    BY <1>7 DEF ClassifyByRule, Verdict
  <2>2. SignalInv(failure[c])
    BY <2>1 DEF TInv, SignalsInv
  <2>3. m # Unset => m.category \in Category /\ m.rule \in RuleName /\ FairTo(byRule, failure[c])
    BY <1>1, <2>2, AnswerIs
  <2>4. m # Unset => byRule \in Finding
    BY <2>3 DEF Finding
  <2>5. byModel \in Finding /\ FairTo(byModel, failure[c])
    BY DEF Finding, FairTo
  <2> HIDE DEF m, byRule, byModel
  <2>. QED
    BY <1>6, <2>1, <2>3, <2>4, <2>5
<1>8. ASSUME NEW c \in Reporters, NEW category \in Category, ClassifyByModel(c, category) PROVE TInv'
  <2> DEFINE byModel == [category |-> category, by |-> "llm", rule |-> Unset]
  <2>1. report[c] # Unset /\ UNCHANGED <<triageDay, observed, failure, verdicts>>
        /\ report' = [report EXCEPT ![c] = byModel]
    BY <1>8 DEF ClassifyByModel, Verdict
  <2>2. failure[c] # Unset
    BY <2>1 DEF TInv, AnswersInv
  <2>3. byModel \in Finding /\ FairTo(byModel, failure[c])
    BY DEF Finding, FairTo
  <2> HIDE DEF byModel
  <2>. QED
    BY <1>6, <2>1, <2>2, <2>3
<1>9. ASSUME NEW c \in Reporters, CommitVerdict(c) PROVE TInv'
  <2> DEFINE v == [row |-> report[c], signal |-> failure[c]]
             n == Len(verdicts)
  <2>1. /\ report[c] # Unset /\ verdicts' = Append(verdicts, v) /\ UNCHANGED <<triageDay, observed>>
        /\ report' = [report EXCEPT ![c] = Unset] /\ failure' = [failure EXCEPT ![c] = Unset]
    BY <1>9 DEF CommitVerdict
  <2>2. SignalInv(failure[c]) /\ report[c] \in Finding /\ FairTo(report[c], failure[c])
    BY <2>1 DEF TInv, SignalsInv, AnswersInv
  <2>3. v \in [row : Finding, signal : Failure] /\ v.row = report[c] /\ v.signal = failure[c]
    BY <2>2 DEF SignalInv
  <2> HIDE DEF v
  <2>4. /\ verdicts' \in Seq([row : Finding, signal : Failure]) /\ n \in Nat /\ Len(verdicts') = n + 1
        /\ verdicts'[n + 1] = v /\ \A i \in 1..n : verdicts'[i] = verdicts[i]
    BY <1>1, <2>1, <2>3, LenProperties, AppendProperties DEF TriageRows
  <2>5. /\ DOMAIN report' = Reporters /\ DOMAIN failure' = Reporters
        /\ report'[c] = Unset /\ failure'[c] = Unset
        /\ \A b \in Reporters \ {c} : report'[b] = report[b] /\ failure'[b] = failure[b]
    BY <1>1, <2>1 DEF TriageRows
  <2>6. TriageRows'
    BY <1>1, <2>1, <2>4, <2>5 DEF TriageRows
  <2>7. ASSUME NEW s, SignalInv(s) PROVE SignalInv(s)' /\ \A row : FairTo(row, s) => FairTo(row, s)'
    BY <1>1, <2>1, <2>7, KnownStays
  <2>8. VerdictsInv'
    <3> SUFFICES ASSUME NEW i \in 1..Len(verdicts'), NEW s, NEW row, verdicts'[i].signal = s, verdicts'[i].row = row
                 PROVE  SignalInv(s)' /\ FairTo(row, s)'
      BY DEF VerdictsInv
    <3>1. SignalInv(s) /\ FairTo(row, s)
      <4>1. CASE i = n + 1
        BY <2>2, <2>3, <2>4, <4>1
      <4>2. CASE i \in 1..n
        BY <2>4, <4>2 DEF TInv, VerdictsInv
      <4>. QED
        BY <2>4, <4>1, <4>2
    <3>. QED
      BY <2>7, <3>1
  <2>9. SignalsInv'
    <3> SUFFICES ASSUME NEW b \in Reporters, NEW s, failure'[b] = s, s # Unset PROVE SignalInv(s)'
      BY DEF SignalsInv
    <3>. QED
      BY <2>5, <2>7 DEF TInv, SignalsInv
  <2>10. AnswersInv'
    <3> SUFFICES ASSUME NEW b \in Reporters, NEW s, NEW row, failure'[b] = s, report'[b] = row, row # Unset
                 PROVE  s # Unset /\ row \in Finding /\ FairTo(row, s)'
      BY DEF AnswersInv
    <3>1. failure[b] = s /\ report[b] = row
      BY <2>5
    <3>. QED
      BY <2>7, <3>1 DEF TInv, AnswersInv, SignalsInv
  <2>. QED
    BY <2>6, <2>8, <2>9, <2>10 DEF TInv
<1>10. ASSUME NEW c \in Reporters, ClassifyFails(c) PROVE TInv'
  <2>1. DOMAIN report' = Reporters /\ \A b \in Reporters : report'[b] = IF b = c THEN Unset ELSE report[b]
    BY <1>1, <1>10 DEF ClassifyFails, TriageRows
  <2>. QED
    BY <1>1, <1>10, <2>1, TQuiet DEF ClassifyFails, TriageRows
<1>. QED
  BY <1>2, <1>3, <1>4, <1>5, <1>7, <1>8, <1>9, <1>10 DEF TriageNext

(* Failure triage: the heuristic calls a test flaky only if both verdicts  *)
(* were on record when the flip rate was asked, blames the product for no  *)
(* failure of a test known to alternate, and the environment for a refused *)
(* credential or a timeout; for any number of clients and results, in any  *)
(* order, and any windows and threshold.                                   *)
THEOREM BlamesByRecord == TriageSpec => []FlakyNotBlamed
<1>1. TriageInit => TInv
  BY TInit
<1>2. TInv /\ [TriageNext]_triageVars => TInv'
  BY TStep
<1>3. TInv => FlakyNotBlamed
  BY TKept
<1>. QED
  BY <1>1, <1>2, <1>3, PTL DEF TriageSpec

(* Results, signals, answers and verdicts keep their types.                *)
THEOREM TriageTypeCorrect == TriageSpec => []TriageTypeOK
<1>1. TriageInit => TInv /\ TriageTypeOK
  <2> SUFFICES ASSUME TriageInit PROVE TriageTypeOK
    BY TInit
  <2>1. observed = <<>> /\ Len(observed) = 0 /\ verdicts = <<>> /\ DOMAIN verdicts = {}
    BY DEF TriageInit
  <2>2. observed \in Seq(Result) /\ triageDay \in 0..FinalDay
    BY TInit DEF TInv, TriageRows
  <2>. QED
    BY <2>1, <2>2, TriageAssumption DEF TriageInit, TriageTypeOK
<1>2. TInv /\ TriageTypeOK /\ [TriageNext]_triageVars => TriageTypeOK'
  <2> SUFFICES ASSUME TInv, TInv', TriageTypeOK, [TriageNext]_triageVars PROVE TriageTypeOK'
    BY TStep
  <2> DEFINE SignalOf(c) == failure[c] # Unset => failure[c].code \in Codes \cup {Unset} /\ failure[c].text \in Texts
             AnswerOf(c) == report[c] # Unset => failure[c] # Unset /\ report[c].category \in Category \cup {Unset}
             Told == \A i \in DOMAIN verdicts : verdicts[i].row.category \in Category
  <2>1. /\ DOMAIN failure = Reporters /\ DOMAIN report = Reporters
        /\ Len(observed) <= MaxResults /\ Told
        /\ \A c \in Reporters : SignalOf(c) /\ AnswerOf(c)
    BY DEF TInv, TriageRows, TriageTypeOK
  <2>2. /\ triageDay' \in 0..FinalDay /\ observed' \in Seq(Result)
    BY DEF TInv, TriageRows
  <2>3. \A c \in Reporters : AnswerOf(c)'
    BY DEF TInv, AnswersInv, Finding
  <2>4. Len(observed') <= MaxResults
    <3>1. CASE observed' = observed
      BY <2>1, <3>1
    <3>2. ASSUME NEW passed, NEW d, Record(passed, d) PROVE Len(observed') <= MaxResults
      <4>1. Len(observed) < MaxResults /\ Len(observed) \in Nat
            /\ Len(observed') = Len(observed) + 1
        BY <3>2, LenProperties, AppendProperties DEF Record, TInv, TriageRows
      <4>. QED
        BY <4>1, TriageAssumption
    <3>3. CASE TriageDayPasses
      BY <3>1, <3>3 DEF TriageDayPasses
    <3>4. ASSUME NEW c \in Reporters, NEW code, NEW text, NEW score,
                 BuildSignal(c, code, text, score)
          PROVE  Len(observed') <= MaxResults
      BY <3>1, <3>4 DEF BuildSignal
    <3>5. ASSUME NEW c \in Reporters,
                 \/ ClassifyByRule(c) \/ CommitVerdict(c) \/ ClassifyFails(c)
                 \/ \E category \in Category : ClassifyByModel(c, category)
          PROVE  Len(observed') <= MaxResults
      BY <3>1, <3>5 DEF ClassifyByRule, CommitVerdict, ClassifyFails, ClassifyByModel
    <3>. QED
      BY <3>1, <3>2, <3>3, <3>4, <3>5 DEF TriageNext, triageVars
  <2>5. /\ \A c \in Reporters : SignalOf(c)'
        /\ Told'
    <3>1. CASE UNCHANGED <<failure, verdicts>>
      BY <2>1, <3>1
    <3>2. ASSUME NEW c \in Reporters, NEW code \in Codes \cup {Unset}, NEW text \in Texts, NEW score,
                 BuildSignal(c, code, text, score)
          PROVE  (\A b \in Reporters : SignalOf(b)') /\ Told'
      <4> DEFINE s == [code |-> code, text |-> text, score |-> score,
                       asked |-> [day |-> triageDay, results |-> Len(observed)]]
      <4>1. failure' = [failure EXCEPT ![c] = s] /\ verdicts' = verdicts
        BY <3>2 DEF BuildSignal
      <4>2. s.code \in Codes \cup {Unset} /\ s.text \in Texts
        BY <3>2
      <4> HIDE DEF s
      <4>. QED
        BY <2>1, <4>1, <4>2
    <3>3. ASSUME NEW c \in Reporters, CommitVerdict(c)
          PROVE  (\A b \in Reporters : SignalOf(b)') /\ Told'
      <4> DEFINE v == [row |-> report[c], signal |-> failure[c]]
      <4>1. /\ report[c] # Unset /\ report[c].category # Unset
            /\ verdicts' = Append(verdicts, v) /\ failure' = [failure EXCEPT ![c] = Unset]
        BY <3>3 DEF CommitVerdict
      <4>2. v.row.category \in Category
        BY <2>1, <4>1
      <4> HIDE DEF v
      <4>3. \A b \in Reporters : SignalOf(b)'
        BY <2>1, <4>1
      <4>4. verdicts \in Seq([row : Finding, signal : Failure]) /\ verdicts' \in Seq([row : Finding, signal : Failure])
        BY DEF TInv, TriageRows
      <4>5. \A i \in DOMAIN verdicts' : (i \in DOMAIN verdicts /\ verdicts'[i] = verdicts[i]) \/ verdicts'[i] = v
        <5>1. PICK n \in Nat : n = Len(verdicts) /\ DOMAIN verdicts = 1..n
          BY <4>4, LenProperties
        <5>2. DOMAIN verdicts' = 1..(n + 1) /\ verdicts'[n + 1] = v /\ \A i \in 1..n : verdicts'[i] = verdicts[i]
          BY <4>1, <5>1
        <5>. QED
          BY <5>1, <5>2
      <4>. QED
        BY <2>1, <4>2, <4>3, <4>5
    <3>4. CASE TriageDayPasses \/ \E passed \in BOOLEAN, d \in 0..triageDay : Record(passed, d)
      BY <3>1, <3>4 DEF TriageDayPasses, Record
    <3>5. ASSUME NEW c \in Reporters,
                 \/ ClassifyByRule(c) \/ ClassifyFails(c)
                 \/ \E category \in Category : ClassifyByModel(c, category)
          PROVE  UNCHANGED <<failure, verdicts>>
      BY <3>5 DEF ClassifyByRule, ClassifyFails, ClassifyByModel
    <3>. QED
      BY <3>1, <3>2, <3>3, <3>4, <3>5 DEF TriageNext, triageVars
  <2>6. \A v \in {verdicts'[i] : i \in DOMAIN verdicts'} : v.row.category \in Category
    BY <2>5
  <2>. QED
    BY <2>2, <2>3, <2>4, <2>5, <2>6 DEF TriageTypeOK
<1>. QED
  BY <1>1, <1>2, TStep, PTL DEF TriageSpec

-----------------------------------------------------------------------------
(* Policy versions: their invariant.                                       *)

(* What a session has picked fits the table it will be written to: a       *)
(* version to insert is at most the next one, and is the next one once the *)
(* session has entered it in the index; a version to activate is there.    *)
PickInv ==
  \A s \in Sessions :
    /\ Inserts(s) => ver[s] \in 1..(inserts + 1)
    /\ Inserts(s) /\ Key(s) # {} => ver[s] = inserts + 1
    /\ op[s] = "activate" => ver[s] \in versions

(* Locks are held by one session, on rows whose flag nobody else touches,  *)
(* and from the UPDATE to the end of the transaction only.                 *)
LockInv ==
  /\ \A s, o \in Sessions : s # o => Locks(s) \cap Locks(o) = {}
  /\ \A s \in Sessions :
       /\ off[s] \subseteq active
       /\ off[s] # {} => Activates(s) /\ pc[s] \in {"write", "keyed", "done"}
       /\ pc[s] \in {"clear", "wait"} => Activates(s)

(* One session at a time has its row in the index on the active row, and   *)
(* no other row is there but those it has cleared.                         *)
FlagInv ==
  /\ \A s, o \in Sessions : s # o => Flagged(s) = {} \/ Flagged(o) = {}
  /\ \A s \in Sessions : Flagged(s) # {} => Rivals(s) = {}

VInv == /\ PolicyTypeOK /\ ActiveIsAudited /\ VersionsDense
        /\ inserts <= MaxVersions
        /\ PickInv /\ LockInv /\ FlagInv

-----------------------------------------------------------------------------
(* The next version is one more than have been committed. *)
LEMMA NextIsDense ==
  ASSUME VersionsDense, inserts \in Nat
  PROVE  NextVersion = inserts + 1
<1>1. /\ inserts \in versions \cup {0}
      /\ \A v \in versions \cup {0} : v \in Int /\ inserts >= v
  BY DEF VersionsDense
<1>2. \A x \in versions \cup {0} : (\A y \in versions \cup {0} : x >= y) => x = inserts
  BY <1>1
<1>3. Max(versions \cup {0}) = inserts
  BY <1>1, <1>2 DEF Max
<1>. QED
  BY <1>3 DEF NextVersion

LEMMA VInit == PolicyInit => VInv
<1> SUFFICES ASSUME PolicyInit PROVE VInv
  OBVIOUS
<1> USE PolicyAssumption DEF PolicyInit
<1>1. PolicyTypeOK
  BY DEF PolicyTypeOK, Ops
<1>2. ActiveIsAudited /\ VersionsDense /\ inserts <= MaxVersions
  BY DEF ActiveIsAudited, VersionsDense
<1>3. PickInv
  BY DEF PickInv, Inserts
<1>4. LockInv
  BY DEF LockInv, Locks, Key
<1>5. FlagInv
  BY DEF FlagInv, Flagged
<1>. QED
  BY <1>1, <1>2, <1>3, <1>4, <1>5 DEF VInv

-----------------------------------------------------------------------------
(* One lemma for each kind of statement. *)

(* A session that has just begun holds nothing. *)
LEMMA VBegin ==
  ASSUME VInv, NEW s \in Sessions, NEW what \in Ops, NEW v \in 0..MaxVersions,
         NEW first \in {"clear", "write", "done"},
         BeginPolicy(s, what, v, first),
         first = "done" => what = "noop",
         first = "clear" => what \in {"set", "activate"},
         what \in {"set", "draft"} => v = inserts + 1,
         what = "activate" => v \in versions
  PROVE  VInv'
<1> USE DEF VInv
<1>1. /\ pc[s] = "idle" /\ UNCHANGED <<versions, active, named, inserts, hit, off>>
      /\ pc' = [pc EXCEPT ![s] = first]
      /\ op' = [op EXCEPT ![s] = what]
      /\ ver' = [ver EXCEPT ![s] = v]
  BY DEF BeginPolicy, Goto, policyTableVars
<1>2. PolicyTypeOK'
  BY <1>1 DEF PolicyTypeOK
<1>3. ActiveIsAudited' /\ VersionsDense' /\ inserts' <= MaxVersions
  BY <1>1 DEF ActiveIsAudited, VersionsDense
<1>4. Key(s)' = {} /\ Flagged(s)' = {} /\ off[s] = {}
  BY <1>1 DEF Key, Flagged, Activates, PolicyTypeOK, LockInv
<1>5. \A o \in Sessions \ {s} :
        /\ Key(o)' = Key(o) /\ Flagged(o)' = Flagged(o) /\ Rivals(o)' = Rivals(o)
        /\ pc'[o] = pc[o] /\ op'[o] = op[o] /\ ver'[o] = ver[o]
  BY <1>1 DEF Key, Flagged, Rivals, Activates, PolicyTypeOK
<1>6. PickInv'
  <2>1. op'[s] = what /\ ver'[s] = v
    BY <1>1 DEF PolicyTypeOK
  <2>. QED
    BY <1>1, <1>4, <1>5, <2>1 DEF PickInv, Inserts, PolicyTypeOK
<1>7. LockInv'
  BY <1>1, <1>4, <1>5 DEF LockInv, Locks, Activates, PolicyTypeOK
<1>8. FlagInv'
  BY <1>4, <1>5 DEF FlagInv
<1>. QED
  BY <1>2, <1>3, <1>6, <1>7, <1>8

LEMMA VFind ==
  ASSUME VInv, NEW s \in Sessions, FindActive(s)
  PROVE  VInv'
<1> USE DEF VInv
<1>1. /\ pc[s] = "clear" /\ pc' = [pc EXCEPT ![s] = "wait"]
      /\ hit' = [hit EXCEPT ![s] = active]
      /\ UNCHANGED <<versions, active, named, inserts, op, ver, off>>
  BY DEF FindActive, Goto, policyTableVars
<1>2. PolicyTypeOK'
  BY <1>1 DEF PolicyTypeOK
<1>3. ActiveIsAudited' /\ VersionsDense' /\ inserts' <= MaxVersions
  BY <1>1 DEF ActiveIsAudited, VersionsDense
<1>4. off[s] = {}
  BY <1>1 DEF LockInv
<1>5. \A o \in Sessions :
        Key(o)' = Key(o) /\ Flagged(o)' = Flagged(o) /\ Rivals(o)' = Rivals(o)
  BY <1>1 DEF Key, Flagged, Rivals, Activates, PolicyTypeOK
<1>6. PickInv'
  BY <1>1, <1>5 DEF PickInv, Inserts
<1>7. LockInv'
  BY <1>1, <1>4, <1>5 DEF LockInv, Locks, Activates, PolicyTypeOK
<1>8. FlagInv'
  BY <1>5 DEF FlagInv
<1>. QED
  BY <1>2, <1>3, <1>6, <1>7, <1>8

LEMMA VClear ==
  ASSUME VInv, NEW s \in Sessions, ClearActive(s)
  PROVE  VInv'
<1> USE DEF VInv
<1>1. /\ pc[s] = "wait" /\ pc' = [pc EXCEPT ![s] = "write"]
      /\ off' = [off EXCEPT ![s] = hit[s] \cap active]
      /\ UNCHANGED <<versions, active, named, inserts, op, ver, hit>>
      /\ WaitsFor(s) = {}
  BY DEF ClearActive, Goto, policyTableVars, StillActive
<1>2. PolicyTypeOK'
  BY <1>1 DEF PolicyTypeOK
<1>3. ActiveIsAudited' /\ VersionsDense' /\ inserts' <= MaxVersions
  BY <1>1 DEF ActiveIsAudited, VersionsDense
<1>4. \A o \in Sessions \ {s} : hit[s] \cap Locks(o) = {}
  BY <1>1 DEF WaitsFor, Needs
<1>5. Key(s)' = {} /\ Flagged(s)' = {} /\ off'[s] \subseteq active /\ off'[s] \subseteq hit[s]
  BY <1>1 DEF Key, Flagged, PolicyTypeOK
<1>6. \A o \in Sessions \ {s} :
        /\ Key(o)' = Key(o) /\ Flagged(o)' = Flagged(o) /\ Rivals(o)' = Rivals(o)
        /\ pc'[o] = pc[o] /\ off'[o] = off[o] /\ Locks(o)' = Locks(o)
  BY <1>1 DEF Key, Flagged, Rivals, Activates, Locks, PolicyTypeOK
<1>7. PickInv'
  BY <1>1, <1>5, <1>6 DEF PickInv, Inserts
<1>8. LockInv'
  <2>1. Locks(s)' \subseteq hit[s] /\ pc'[s] = "write"
    BY <1>1, <1>5 DEF Locks, PolicyTypeOK
  <2>2. \A o \in Sessions \ {s} : Locks(s)' \cap Locks(o)' = {}
    BY <1>4, <1>6, <2>1
  <2>3. \A o, p \in Sessions \ {s} : o # p => Locks(o)' \cap Locks(p)' = {}
    BY <1>6 DEF LockInv
  <2>. QED
    BY <1>1, <1>5, <1>6, <2>1, <2>2, <2>3 DEF LockInv, Activates
<1>9. FlagInv'
  BY <1>5, <1>6 DEF FlagInv
<1>. QED
  BY <1>2, <1>3, <1>7, <1>8, <1>9

LEMMA VTakeKey ==
  ASSUME VInv, NEW s \in Sessions, TakeKey(s)
  PROVE  VInv'
<1> USE DEF VInv
<1> DEFINE l == IF Activates(s) THEN "keyed" ELSE "done"
<1>1. /\ pc[s] = "write" /\ pc' = [pc EXCEPT ![s] = l]
      /\ UNCHANGED <<versions, active, named, inserts, op, ver, hit, off>>
      /\ WaitsFor(s) = {} /\ Unique(s)
  BY DEF TakeKey, Goto, policyTableVars
<1>2. PolicyTypeOK'
  BY <1>1 DEF PolicyTypeOK
<1>3. ActiveIsAudited' /\ VersionsDense' /\ inserts' <= MaxVersions
  BY <1>1 DEF ActiveIsAudited, VersionsDense
<1>4. \A o \in Sessions \ {s} : ver[s] \notin Locks(o)
  BY <1>1 DEF WaitsFor, Needs
<1>5. pc'[s] = l /\ Key(s)' \subseteq {ver[s]} /\ Flagged(s)' = {} /\ Activates(s)' = Activates(s)
  BY <1>1 DEF Key, Flagged, Activates, PolicyTypeOK
<1>6. \A o \in Sessions \ {s} :
        /\ Key(o)' = Key(o) /\ Flagged(o)' = Flagged(o) /\ Rivals(o)' = Rivals(o)
        /\ pc'[o] = pc[o] /\ Locks(o)' = Locks(o)
  BY <1>1 DEF Key, Flagged, Rivals, Activates, Locks, PolicyTypeOK
<1>7. PickInv'
  <2>1. Inserts(s) => ver[s] = inserts + 1
    BY <1>1 DEF Unique, PickInv, VersionsDense, PolicyTypeOK
  <2>. QED
    BY <1>1, <1>6, <2>1 DEF PickInv, Inserts
<1>8. LockInv'
  <2>1. Locks(s)' \subseteq Locks(s) \cup {ver[s]}
    BY <1>1, <1>5 DEF Locks
  <2>2. \A o \in Sessions \ {s} : Locks(s)' \cap Locks(o)' = {}
    BY <1>4, <1>6, <2>1 DEF LockInv
  <2>3. \A o, p \in Sessions \ {s} : o # p => Locks(o)' \cap Locks(p)' = {}
    BY <1>6 DEF LockInv
  <2>. QED
    BY <1>1, <1>5, <1>6, <2>2, <2>3 DEF LockInv, Activates
<1>9. FlagInv'
  BY <1>5, <1>6 DEF FlagInv
<1>. QED
  BY <1>2, <1>3, <1>7, <1>8, <1>9

LEMMA VRaise ==
  ASSUME VInv, NEW s \in Sessions, RaiseFlag(s)
  PROVE  VInv'
<1> USE DEF VInv
<1>1. /\ pc[s] = "keyed" /\ pc' = [pc EXCEPT ![s] = "done"]
      /\ UNCHANGED <<versions, active, named, inserts, op, ver, hit, off>>
      /\ WaitsFor(s) = {} /\ Rivals(s) = {}
  BY DEF RaiseFlag, Goto, policyTableVars
<1>2. PolicyTypeOK'
  BY <1>1 DEF PolicyTypeOK
<1>3. ActiveIsAudited' /\ VersionsDense' /\ inserts' <= MaxVersions
  BY <1>1 DEF ActiveIsAudited, VersionsDense
<1>4. \A o \in Sessions \ {s} : Flagged(o) = {}
  BY <1>1 DEF WaitsFor, Needs
<1>5. Key(s)' = Key(s) /\ Rivals(s)' = {} /\ pc'[s] = "done"
  BY <1>1 DEF Key, Rivals, PolicyTypeOK
<1>6. \A o \in Sessions \ {s} :
        /\ Key(o)' = Key(o) /\ Flagged(o)' = Flagged(o)
        /\ pc'[o] = pc[o]
  BY <1>1 DEF Key, Flagged, Activates, PolicyTypeOK
<1>7. PickInv'
  BY <1>1, <1>5, <1>6 DEF PickInv, Inserts
<1>8. LockInv'
  BY <1>1, <1>5, <1>6 DEF LockInv, Locks, Activates
<1>9. FlagInv'
  BY <1>4, <1>5, <1>6 DEF FlagInv
<1>. QED
  BY <1>2, <1>3, <1>7, <1>8, <1>9

-----------------------------------------------------------------------------
(* A session that has ended holds nothing, and the others what they held. *)
LEMMA SessionEnds ==
  ASSUME PolicyTypeOK, NEW s \in Sessions, EndPolicy(s)
  PROVE  /\ pc'[s] = "idle" /\ op'[s] = "noop" /\ ver'[s] = 0 /\ hit'[s] = {} /\ off'[s] = {}
         /\ Key(s)' = {} /\ Flagged(s)' = {} /\ Locks(s)' = {}
         /\ \A o \in Sessions \ {s} :
              /\ pc'[o] = pc[o] /\ op'[o] = op[o] /\ ver'[o] = ver[o]
              /\ hit'[o] = hit[o] /\ off'[o] = off[o]
              /\ Key(o)' = Key(o) /\ Flagged(o)' = Flagged(o) /\ Locks(o)' = Locks(o)
<1>1. /\ pc'[s] = "idle" /\ op'[s] = "noop" /\ ver'[s] = 0 /\ hit'[s] = {} /\ off'[s] = {}
      /\ \A o \in Sessions \ {s} :
           /\ pc'[o] = pc[o] /\ op'[o] = op[o] /\ ver'[o] = ver[o]
           /\ hit'[o] = hit[o] /\ off'[o] = off[o]
  BY DEF EndPolicy, Goto, PolicyTypeOK
<1>. QED
  BY <1>1 DEF Key, Flagged, Locks, Activates

LEMMA SessionEndsType ==
  ASSUME PolicyTypeOK, NEW s \in Sessions, EndPolicy(s), versions \subseteq versions'
  PROVE  /\ pc' \in [Sessions -> {"idle", "clear", "wait", "write", "keyed", "done"}]
         /\ op' \in [Sessions -> Ops]
         /\ ver' \in [Sessions -> 0..MaxVersions]
         /\ hit' \in [Sessions -> SUBSET versions']
         /\ off' \in [Sessions -> SUBSET versions']
<1>1. hit \in [Sessions -> SUBSET versions'] /\ off \in [Sessions -> SUBSET versions']
  BY DEF PolicyTypeOK
<1>2. /\ hit' \in [Sessions -> SUBSET versions']
      /\ off' \in [Sessions -> SUBSET versions']
  BY <1>1 DEF EndPolicy
<1>3. ver' \in [Sessions -> 0..MaxVersions]
  BY PolicyAssumption DEF EndPolicy, PolicyTypeOK
<1>4. pc' \in [Sessions -> {"idle", "clear", "wait", "write", "keyed", "done"}]
  BY DEF EndPolicy, Goto, PolicyTypeOK
<1>5. op' \in [Sessions -> Ops]
  BY DEF EndPolicy, PolicyTypeOK, Ops
<1>. QED
  BY <1>2, <1>3, <1>4, <1>5

LEMMA VAbort ==
  ASSUME VInv, NEW s \in Sessions, AbortPolicy(s)
  PROVE  VInv'
<1> USE DEF VInv
<1>1. EndPolicy(s) /\ UNCHANGED <<versions, active, named, inserts>>
  BY DEF AbortPolicy, policyTableVars
<1>2. PolicyTypeOK'
  BY <1>1, SessionEndsType DEF PolicyTypeOK
<1>3. ActiveIsAudited' /\ VersionsDense' /\ inserts' <= MaxVersions
  BY <1>1 DEF ActiveIsAudited, VersionsDense
<1>4. PickInv'
  BY <1>1, SessionEnds DEF PickInv, Inserts
<1>5. LockInv'
  BY <1>1, SessionEnds DEF LockInv, Activates
<1>6. FlagInv'
  <2>1. \A o \in Sessions \ {s} : Rivals(o)' = Rivals(o)
    BY <1>1, SessionEnds DEF Rivals
  <2>. QED
    BY <1>1, <2>1, SessionEnds DEF FlagInv
<1>. QED
  BY <1>2, <1>3, <1>4, <1>5, <1>6

(* The table after a commit. *)
LEMMA VCommit ==
  ASSUME VInv, NEW s \in Sessions, CommitPolicy(s)
  PROVE  VInv'
<1> USE DEF VInv
<1>1. /\ pc[s] = "done" /\ EndPolicy(s)
      /\ versions' = versions \cup Inserted(s)
      /\ inserts' = IF Inserts(s) THEN inserts + 1 ELSE inserts
      /\ active' = (active \ off[s]) \cup Flagged(s)
      /\ named' = IF Activates(s) THEN ver[s] ELSE named
  BY DEF CommitPolicy
<1>2. Inserts(s) => ver[s] = inserts + 1 /\ Key(s) = {ver[s]}
  BY <1>1 DEF PickInv, Key, Inserts
<1>3. inserts' \in Nat /\ inserts <= inserts' /\ versions \subseteq versions'
  BY <1>1 DEF PolicyTypeOK
<1>4. VersionsDense'
  <2>1. CASE Inserts(s)
    <3>1. versions' = 1..inserts \cup {inserts + 1} /\ inserts' = inserts + 1
      BY <1>1, <1>2, <2>1 DEF Inserted, VersionsDense
    <3>. QED
      BY <3>1 DEF VersionsDense, PolicyTypeOK
  <2>2. CASE ~Inserts(s)
    BY <1>1, <2>2 DEF Inserted, VersionsDense
  <2>. QED
    BY <2>1, <2>2
<1>5. inserts' <= MaxVersions
  <2>1. Inserts(s) => inserts + 1 \in 0..MaxVersions
    BY <1>2 DEF PolicyTypeOK
  <2>. QED
    BY <1>1, <2>1 DEF PolicyTypeOK
<1>6. Activates(s) => /\ active' = {ver[s]} /\ ver[s] \in versions' /\ ver[s] # 0
  <2> SUFFICES ASSUME Activates(s) PROVE active' = {ver[s]} /\ ver[s] \in versions' /\ ver[s] # 0
    OBVIOUS
  <2>1. Flagged(s) = {ver[s]} /\ active \subseteq off[s] \cup {ver[s]}
    BY <1>1 DEF Flagged, FlagInv, Rivals
  <2>2. ver[s] \in versions'
    BY <1>1, <1>2 DEF Inserted, Inserts, Activates, PickInv
  <2>. QED
    BY <1>1, <1>4, <2>1, <2>2 DEF VersionsDense
<1>7. ~Activates(s) => off[s] = {} /\ Flagged(s) = {} /\ active' = active
  BY <1>1 DEF LockInv, Flagged
<1>8. ActiveIsAudited'
  BY <1>1, <1>6, <1>7 DEF ActiveIsAudited
<1>9. PolicyTypeOK'
  <2>1. versions' \subseteq 1..MaxVersions
    BY <1>3, <1>4, <1>5, PolicyAssumption DEF VersionsDense
  <2>2. active' \subseteq versions' /\ named' \in versions' \cup {0}
    BY <1>1, <1>3, <1>6, <1>7 DEF PolicyTypeOK
  <2>. QED
    BY <1>1, <1>3, <2>1, <2>2, SessionEndsType DEF PolicyTypeOK
<1>10. PickInv'
  <2> SUFFICES ASSUME NEW o \in Sessions \ {s}
               PROVE  /\ Inserts(o)' => ver'[o] \in 1..(inserts' + 1)
                      /\ Inserts(o)' /\ Key(o)' # {} => ver'[o] = inserts' + 1
                      /\ op'[o] = "activate" => ver'[o] \in versions'
    BY <1>1, SessionEnds DEF PickInv, Inserts
  <2>1. ver'[o] = ver[o] /\ op'[o] = op[o] /\ Key(o)' = Key(o)
    BY <1>1, SessionEnds
  <2>2. Inserts(s) /\ Inserts(o) => Key(o) = {}
    <3> SUFFICES ASSUME Inserts(s), Inserts(o), Key(o) # {} PROVE FALSE
      OBVIOUS
    <3>1. ver[o] = inserts + 1 /\ Key(o) = {ver[o]}
      BY DEF PickInv, Key
    <3>2. Locks(s) \cap Locks(o) = {}
      BY DEF LockInv
    <3>. QED
      BY <1>2, <3>1, <3>2 DEF Locks
  <2>3. Inserts(o)' => ver'[o] \in 1..(inserts' + 1)
    <3>1. Inserts(o)' => ver[o] \in 1..(inserts + 1)
      BY <2>1 DEF Inserts, PickInv
    <3>. QED
      BY <1>3, <2>1, <3>1 DEF PolicyTypeOK
  <2>4. Inserts(o)' /\ Key(o)' # {} => ver'[o] = inserts' + 1
    BY <1>1, <2>1, <2>2 DEF Inserts, PickInv
  <2>5. op'[o] = "activate" => ver'[o] \in versions'
    BY <1>3, <2>1 DEF PickInv
  <2>. QED
    BY <2>3, <2>4, <2>5
<1>11. LockInv'
  <2>1. \A o \in Sessions \ {s} : off[o] \cap off[s] = {}
    BY DEF LockInv, Locks
  <2>2. \A o \in Sessions \ {s} : off'[o] \subseteq active'
    BY <1>1, <2>1, SessionEnds DEF LockInv
  <2>. QED
    BY <1>1, <2>2, SessionEnds DEF LockInv, Activates
<1>12. FlagInv'
  <2> SUFFICES ASSUME NEW o \in Sessions \ {s}, Flagged(o) # {}
               PROVE  Rivals(o)' = {}
    BY <1>1, SessionEnds DEF FlagInv
  <2>1. Flagged(s) = {} /\ Rivals(o) = {}
    BY DEF FlagInv
  <2>2. active' \subseteq active /\ ver'[o] = ver[o] /\ off'[o] = off[o]
    BY <1>1, <2>1, SessionEnds
  <2>. QED
    BY <2>1, <2>2 DEF Rivals
<1>. QED
  BY <1>4, <1>5, <1>8, <1>9, <1>10, <1>11, <1>12

-----------------------------------------------------------------------------
LEMMA VNext == VInv /\ [PolicyNext]_policyVars => VInv'
<1> SUFFICES ASSUME VInv, [PolicyNext]_policyVars PROVE VInv'
  OBVIOUS
<1>1. CASE UNCHANGED policyVars
  BY <1>1 DEF VInv, PolicyTypeOK, ActiveIsAudited, VersionsDense, PickInv, LockInv, FlagInv, Inserts, Activates,
       Key, Locks, Flagged, Rivals, policyVars, policyTableVars, txVars
<1>2. ASSUME NEW s \in Sessions, NEW act \in BOOLEAN, SetPolicy(s, act)
      PROVE  VInv'
  <2>1. NextVersion = inserts + 1 /\ NextVersion \in 0..MaxVersions
    BY <1>2, NextIsDense, PolicyAssumption DEF SetPolicy, VInv, PolicyTypeOK
  <2>2. CASE act
    <3>1. BeginPolicy(s, "set", NextVersion, "clear")
      BY <1>2, <2>2 DEF SetPolicy
    <3>. QED
      BY <2>1, <3>1, VBegin DEF Ops
  <2>3. CASE ~act
    <3>1. BeginPolicy(s, "draft", NextVersion, "write")
      BY <1>2, <2>3 DEF SetPolicy
    <3>. QED
      BY <2>1, <3>1, VBegin DEF Ops
  <2>. QED
    BY <2>2, <2>3
<1>3. ASSUME NEW s \in Sessions, NEW v \in versions, Activate(s, v)
      PROVE  VInv'
  <2>1. v \in 0..MaxVersions
    BY DEF VInv, PolicyTypeOK
  <2>2. CASE v \in active
    <3>1. BeginPolicy(s, "noop", v, "done")
      BY <1>3, <2>2 DEF Activate
    <3>. QED
      BY <2>1, <3>1, VBegin DEF Ops
  <2>3. CASE v \notin active
    <3>1. BeginPolicy(s, "activate", v, "clear")
      BY <1>3, <2>3 DEF Activate
    <3>. QED
      BY <2>1, <3>1, VBegin DEF Ops
  <2>. QED
    BY <2>2, <2>3
<1>. QED
  BY <1>1, <1>2, <1>3, VFind, VClear, VTakeKey, VRaise, VCommit, VAbort DEF PolicyNext

(* Who waits at the index on the active row, has cleared a row and waits   *)
(* for a session that has not finished does not wait at all: the row it    *)
(* cleared is the only active one.  So in a circle without an empty UPDATE *)
(* everybody waits for a session that holds the active row and waits for a *)
(* row lock itself, and there are not two such sessions.                   *)
LEMMA NoFullCircle == VInv => DeadlockNeedsEmptyUpdate
<1> SUFFICES ASSUME VInv,
                    NEW D \in (SUBSET Sessions) \ {{}},
                    \A s \in D : WaitsFor(s) \cap D # {},
                    \A s \in D : pc[s] = "keyed" => off[s] # {}
             PROVE  FALSE
  BY DEF DeadlockNeedsEmptyUpdate
<1> USE DEF VInv
<1>1. \A s \in D : pc[s] \in {"wait", "write", "keyed"}
  BY DEF WaitsFor, Needs
<1>2. \A s \in D : off[s] # {} => off[s] = {named} /\ active = {named}
  BY DEF LockInv, ActiveIsAudited
<1>3. \A s \in D : pc[s] # "keyed"
  <2> SUFFICES ASSUME NEW s \in D, pc[s] = "keyed" PROVE FALSE
    OBVIOUS
  <2>1. Rivals(s) = {}
    BY <1>2 DEF Rivals
  <2>2. \A o \in D : Flagged(o) = {}
    BY <1>1 DEF Flagged
  <2>. QED
    BY <2>1, <2>2 DEF WaitsFor, Needs
<1>4. \A s \in D : Locks(s) = off[s]
  BY <1>1, <1>3 DEF Locks, Key
<1>5. \A s \in D : \E o \in D \ {s} : Locks(o) = {named}
  <2> SUFFICES ASSUME NEW s \in D PROVE \E o \in D \ {s} : Locks(o) = {named}
    OBVIOUS
  <2>1. PICK o \in D \ {s} : Needs(s, o)
    BY DEF WaitsFor
  <2>2. Locks(o) # {}
    BY <1>1, <1>3, <2>1 DEF Needs
  <2>. QED
    BY <1>2, <1>4, <2>2
<1>6. PICK s \in D : Locks(s) = {named}
  BY <1>5
<1>7. PICK o \in D \ {s} : Locks(o) = {named}
  BY <1>5
<1>. QED
  BY <1>6, <1>7 DEF LockInv

-----------------------------------------------------------------------------
LEMMA VInvariance == PolicySpec => []VInv
<1>. QED
  BY VInit, VNext, PTL DEF PolicySpec

(* The type invariant: every column and local keeps its type. *)
THEOREM PolicyTypeCorrect == PolicySpec => []PolicyTypeOK
<1>1. VInv => PolicyTypeOK
  BY DEF VInv
<1>. QED
  BY <1>1, VInvariance, PTL

(* However many set() and activate() overlap, one version is active from   *)
(* the first activation on, the one the audit log names; version numbers   *)
(* have no gaps; and a deadlock needs an UPDATE that cleared nothing.      *)
THEOREM OneActivePolicy == PolicySpec => []PoliciesKept
<1>1. VInv => PoliciesKept
  BY NoFullCircle DEF VInv, PoliciesKept
<1>. QED
  BY <1>1, VInvariance, PTL
=============================================================================
