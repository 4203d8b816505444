--------------------------- MODULE EvidenceReports ---------------------------
(***************************************************************************)
(* Evidence reports of one test run.  A request opens its transaction,     *)
(* and with it fixes the created_at of its row; generate() then renders    *)
(* what is committed by now, puts the bytes in the store of its process    *)
(* and inserts the row; the answer goes out before the commit.  A store is *)
(* a dictionary of its process.                                            *)
(***************************************************************************)
EXTENDS Naturals, Sequences

CONSTANTS
  ReportCalls,         \* requests for a new report
  Servers,             \* processes of the API
  MaxFindings, LastSecond, MaxFetches, MaxRestarts   \* bounds

ASSUME ReportAssumption == {MaxFindings, LastSecond, MaxFetches, MaxRestarts} \subseteq Nat

VARIABLES
  findings,            \* number of failure_classifications of the run
  reportSecond,        \* the second of the last rendering
  opened,              \* number of transactions that have been opened
  artifacts,           \* evidence_artifacts of the run, as committed
  objects,             \* bodies in the store of each process
  reporting,           \* each request: its stage, its row
  restarts,            \* number of restarts of each process
  fetches              \* history: answers of fetch_latest()

evidenceVars ==
  <<findings, reportSecond, opened, artifacts, objects, reporting, restarts, fetches>>

Body == [findings : 0..MaxFindings, listed : SUBSET Nat, second : 0..LastSecond]

ReportInit ==
  /\ findings = 0 /\ reportSecond = 0 /\ opened = 0 /\ artifacts = {} /\ fetches = <<>>
  /\ objects = [p \in Servers |-> {}] /\ restarts = [p \in Servers |-> 0]
  /\ reporting = [c \in ReportCalls |-> [stage |-> "new"]]

Classified ==
  /\ findings < MaxFindings /\ findings' = findings + 1
  /\ UNCHANGED <<reportSecond, opened, artifacts, objects, reporting, restarts, fetches>>

InStage(c, stage) == reporting[c].stage = stage

(* No INSERT of the process waits for another transaction. *)
StoreLoopFree(p) == \A c \in ReportCalls : InStage(c, "inserting") => reporting[c].home # p

(* now() of a row's default is the time its transaction was opened. *)
OpenReport(c, p) ==
  /\ InStage(c, "new") /\ StoreLoopFree(p)
  /\ opened' = opened + 1
  /\ reporting' = [reporting EXCEPT ![c] = [stage |-> "open", home |-> p, created_at |-> opened + 1]]
  /\ UNCHANGED <<findings, reportSecond, artifacts, objects, restarts, fetches>>

(* The report: the classified failures, the artifacts of the run so far,   *)
(* and the second it was rendered in.  Its key in a store and its place in *)
(* the unique index are those of its SHA-256, so of the body.  (The        *)
(* statements that read are one step here.)                                *)
build_context(second) ==
  [findings |-> findings, listed |-> {a.created_at : a \in artifacts}, second |-> second]

(* generate() up to its INSERT: the object is stored before the row is.    *)
Generate(c, second) ==
  LET body == build_context(second) IN
  /\ InStage(c, "open") /\ StoreLoopFree(reporting[c].home)
  /\ objects' = [objects EXCEPT ![reporting[c].home] = @ \cup {body}]
  /\ reporting' = [reporting EXCEPT ![c] =
       [stage |-> "inserting", home |-> reporting[c].home, created_at |-> reporting[c].created_at,
        body |-> body, life |-> restarts[reporting[c].home], rendered |-> opened]]
  /\ reportSecond' = second
  /\ UNCHANGED <<findings, opened, artifacts, restarts, fetches>>

SameBytes(c, row) == row.body = reporting[c].body

(* uq_evidence_run_sha_filename: an INSERT waits for a transaction with    *)
(* the same key to end, and fails once such a row is committed.            *)
RowInserted(c) ==
  /\ InStage(c, "inserting")
  /\ ~\E d \in ReportCalls : InStage(d, "answered") /\ SameBytes(c, reporting[d])
  /\ ~\E a \in artifacts : SameBytes(c, a)
  /\ reporting' = [reporting EXCEPT ![c].stage = "answered"]
  /\ UNCHANGED <<findings, reportSecond, opened, artifacts, objects, restarts, fetches>>

FailReport(c) ==
  /\ reporting' = [reporting EXCEPT ![c] =
       [stage |-> "failed", home |-> reporting[c].home, body |-> reporting[c].body]]
  /\ UNCHANGED <<findings, reportSecond, opened, artifacts, objects, restarts, fetches>>

InsertViolates(c) ==
  InStage(c, "inserting") /\ (\E a \in artifacts : SameBytes(c, a)) /\ FailReport(c)

(* tenant_scoped_session, after the answer with the report: commits, or    *)
(* cannot.                                                                 *)
CommitReport(c) ==
  /\ InStage(c, "answered") /\ StoreLoopFree(reporting[c].home)
  /\ reporting' = [reporting EXCEPT ![c].stage = "committed"]
  /\ artifacts' = artifacts \cup {reporting'[c]}
  /\ UNCHANGED <<findings, reportSecond, opened, objects, restarts, fetches>>

CommitReportFails(c) == InStage(c, "answered") /\ StoreLoopFree(reporting[c].home) /\ FailReport(c)

(* ORDER BY created_at DESC LIMIT 1. (A definition whose name ends in      *)
(* _Mutant is the next one with a slip in it and no part of the model.)    *)
latest_for_run_Mutant == CHOOSE a \in artifacts : \A b \in artifacts : a.created_at <= b.created_at
latest_for_run == CHOOSE a \in artifacts : \A b \in artifacts : b.created_at <= a.created_at

(* get_bytes() of the own store: without the object, an error. *)
get_bytes(p, row) == row.body \in objects[p]

fetch_latest(p) ==
  /\ Len(fetches) < MaxFetches /\ StoreLoopFree(p) /\ artifacts # {}
  /\ fetches' = Append(fetches,
       [row |-> latest_for_run, among |-> artifacts, by |-> p, life |-> restarts[p],
        found |-> get_bytes(p, latest_for_run)])
  /\ UNCHANGED <<findings, reportSecond, opened, artifacts, objects, reporting, restarts>>

(* A process stops and starts again: its store is empty, its transactions  *)
(* are rolled back.                                                        *)
Restart(p) ==
  /\ \A s \in Servers : restarts[s] < MaxRestarts
  /\ restarts' = [restarts EXCEPT ![p] = @ + 1]
  /\ objects' = [objects EXCEPT ![p] = {}]
  /\ reporting' = [c \in ReportCalls |->
       IF reporting[c].stage \in {"open", "inserting", "answered", "failed"} /\ reporting[c].home = p
       THEN [stage |-> "failed", home |-> p] ELSE reporting[c]]
  /\ UNCHANGED <<findings, reportSecond, opened, artifacts, fetches>>

ReportNext ==
  \/ Classified
  \/ \E c \in ReportCalls :
       \/ \E p \in Servers : OpenReport(c, p)
       \/ \E second \in reportSecond..LastSecond : Generate(c, second)
       \/ RowInserted(c) \/ InsertViolates(c) \/ CommitReport(c) \/ CommitReportFails(c)
  \/ \E p \in Servers : fetch_latest(p) \/ Restart(p)

ReportSpec == ReportInit /\ [][ReportNext]_evidenceVars

-----------------------------------------------------------------------------
ReportTypeOK ==
  /\ findings \in 0..MaxFindings /\ reportSecond \in 0..LastSecond
  /\ \A p \in Servers : objects[p] \subseteq Body /\ restarts[p] \in 0..MaxRestarts
  /\ \A c \in ReportCalls :
       reporting[c].stage \in {"new", "open", "inserting", "answered", "failed", "committed"}
  /\ \A a \in artifacts : a.body \in Body /\ a.created_at \in 1..opened
  /\ Len(fetches) <= MaxFetches

(* A committed row has its object, in the store of the process that wrote  *)
(* it, until that process restarts; nothing else is in a store but what a  *)
(* generation that has failed or is under way put there; and no two rows   *)
(* are of the same bytes.                                                  *)
ObjectsBehindRows ==
  /\ \A a \in artifacts : a.life = restarts[a.home] => a.body \in objects[a.home]
  /\ \A p \in Servers : \A b \in objects[p] :
       \E c \in ReportCalls : "body" \in DOMAIN reporting[c] /\ reporting[c].home = p /\ reporting[c].body = b
  /\ \A a, b \in artifacts : a.body = b.body => a = b

(* The report that is fetched shows every failure that any other report    *)
(* showed, save one that was opened first and rendered after this one was  *)
(* opened.  A process fails to return it only if another process wrote it  *)
(* or a restart has come between.                                          *)
LatestIsNewest ==
  \A n \in DOMAIN fetches :
    LET f == fetches[n] IN
    /\ \A a \in f.among :
         a.body.findings > f.row.body.findings =>
           a.created_at < f.row.created_at /\ f.row.created_at <= a.rendered
    /\ ~f.found => f.by # f.row.home \/ f.life > f.row.life

(* Objects behind the rows, and the newest report fetched: both together.  *)
ReportsKept == ObjectsBehindRows /\ LatestIsNewest
=============================================================================
