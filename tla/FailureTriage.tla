---------------------------- MODULE FailureTriage ----------------------------
(***************************************************************************)
(* FlakinessService and the failure classifier, on one test.  Results are  *)
(* recorded, some of them late; a client asks for the flip rate, puts it   *)
(* on a failure signal and has the signal classified: by the status code,  *)
(* by the first text rule that matches, corrected by the flip rate, or     *)
(* else by a model.  A call of classify() has one signal here; its row is  *)
(* written after the answer, in the transaction that awaited it.           *)
(***************************************************************************)
EXTENDS Integers, Sequences, FiniteSets

CONSTANTS
  Reporters,           \* clients that classify
  Codes,               \* HTTP status codes a signal has
  Texts,               \* what a signal's text matches: sets of names of rules
  D14, D30, D90,       \* WINDOW_14_DAYS, WINDOW_30_DAYS, WINDOW_90_DAYS
  FlipThreshold,       \* FLAKINESS_FLIP_THRESHOLD, in percent
  MaxResults, MaxCalls, FinalDay,     \* bounds: results, calls of classify(), days
  Unset                \* None

ASSUME TriageAssumption ==
  /\ Codes \subseteq Nat /\ D14 \in Nat /\ D30 \in Nat /\ D90 \in Nat
  /\ D14 <= D30 /\ D30 <= D90
  /\ FlipThreshold \in 1..100 /\ MaxResults \in Nat /\ MaxCalls \in Nat /\ FinalDay \in Nat
  /\ Unset \notin Nat

VARIABLES
  triageDay,           \* the calendar, in days
  observed,            \* flakiness_observations of the test, as inserted
  failure,             \* what a client holds: a failure signal, with the day and the
                       \* number of results when it asked for the flip rate
  report,              \* the classify() that is under way: its row, once there is one
  verdicts             \* failure_classifications, each with its signal

triageVars == <<triageDay, observed, failure, report, verdicts>>

Result   == [passed : BOOLEAN, observed_at : 0..FinalDay]
Category == {"product_defect", "test_issue", "environment_issue", "data_issue",
             "flaky_test", "unknown"}

-----------------------------------------------------------------------------
(* ORDER BY observed_at: results of the same moment in any order. *)
Ordered(obs) ==
  {s \in [1..Cardinality(obs) -> obs] :
     \A i, j \in DOMAIN s : i < j =>
       s[i] # s[j] /\ observed[s[i]].observed_at <= observed[s[j]].observed_at}

InWindow(window) == {i \in DOMAIN observed : observed[i].observed_at >= triageDay - window}

flips(s) == {i \in 1..(Len(s) - 1) : observed[s[i]].passed # observed[s[i + 1]].passed}

(* summary(): the flip rate of the shortest window with two results, in    *)
(* percent. (A definition whose name ends in _Mutant is the next one with  *)
(* a slip in it and no part of the model.)                                 *)
Enough_Mutant(obs) == Cardinality(obs) >= 1
Enough(obs) == Cardinality(obs) >= 2

flakiness_score ==
  LET told == {w \in {D14, D30, D90} : Enough(InWindow(w))}
      obs  == InWindow(CHOOSE w \in told : \A v \in told : w <= v)
  IN  IF told = {} THEN {0}
      ELSE {IF Len(s) < 2 THEN 0 ELSE (100 * Cardinality(flips(s))) \div (Len(s) - 1)
              : s \in Ordered(obs)}

-----------------------------------------------------------------------------
(* _TEXT_RULES, in their order. *)
RuleName ==
  {"http_5xx", "http_4xx_auth", "http_timeout_status", "network_timeout", "dns_resolution",
   "browser_nav_error", "selector_not_found", "assertion_failure", "python_traceback",
   "rate_limited", "missing_fixture", "flakiness_observed", "flakiness_override"}
ASSUME UnsetAssumption == Unset \notin Category \cup RuleName \cup [rule : RuleName, category : Category]

Rule(name, category) == [rule |-> name, category |-> category]
TextRules ==
  <<Rule("network_timeout",    "environment_issue"), Rule("dns_resolution",   "environment_issue"),
    Rule("browser_nav_error",  "environment_issue"), Rule("selector_not_found", "test_issue"),
    Rule("assertion_failure",  "product_defect"),    Rule("python_traceback", "unknown"),
    Rule("rate_limited",       "environment_issue"), Rule("missing_fixture",  "data_issue")>>

(* The status code is looked at first, and all of 5xx before 408 and 504. *)
StatusRule(code) ==
  IF code \in 500..599 THEN Rule("http_5xx", "product_defect")
  ELSE IF code \in {401, 403} THEN Rule("http_4xx_auth", "environment_issue")
  ELSE IF code \in {408, 504} THEN Rule("http_timeout_status", "environment_issue")
  ELSE Unset

classify_text(s) ==
  LET matching == {i \in DOMAIN TextRules : TextRules[i].rule \in s.text}
      by_code  == IF s.code = Unset THEN Unset ELSE StatusRule(s.code)
  IN  IF by_code # Unset THEN by_code
      ELSE IF matching = {} THEN Unset
      ELSE TextRules[CHOOSE i \in matching : \A j \in matching : i <= j]

(* A flapping test is no product defect; another cause stands. *)
apply_flakiness(s, match) ==
  IF s.score = Unset \/ s.score < FlipThreshold THEN match
  ELSE IF match = Unset THEN Rule("flakiness_observed", "flaky_test")
  ELSE IF match.category = "product_defect" THEN Rule("flakiness_override", "flaky_test")
  ELSE match

-----------------------------------------------------------------------------
TriageInit ==
  /\ triageDay = 0 /\ observed = <<>> /\ verdicts = <<>>
  /\ failure = [c \in Reporters |-> Unset]
  /\ report = [c \in Reporters |-> Unset]

(* record(), of a run that may have ended some days ago. *)
Record(passed, observed_at) ==
  /\ Len(observed) < MaxResults
  /\ observed' = Append(observed, [passed |-> passed, observed_at |-> observed_at])
  /\ UNCHANGED <<triageDay, failure, report, verdicts>>

(* A client builds the signal of a failure, with the flip rate of now or   *)
(* with none.                                                              *)
BuildSignal(c, code, text, score) ==
  /\ failure[c] = Unset /\ Len(verdicts) < MaxCalls
  /\ failure' = [failure EXCEPT ![c] = [code |-> code, text |-> text, score |-> score,
                                      asked |-> [day |-> triageDay, results |-> Len(observed)]]]
  /\ UNCHANGED <<triageDay, observed, report, verdicts>>

(* classify_signals(): what the heuristic knows needs no model; any other  *)
(* signal waits for one.                                                   *)
Verdict(c, category, by, rule) ==
  report' = [report EXCEPT ![c] = [category |-> category, by |-> by, rule |-> rule]]

ClassifyByRule(c) ==
  /\ failure[c] # Unset /\ report[c] = Unset /\ Len(verdicts) < MaxCalls
  /\ LET match == apply_flakiness(failure[c], classify_text(failure[c])) IN
       IF match = Unset
       THEN Verdict(c, Unset, "llm", Unset)
       ELSE Verdict(c, match.category, "heuristic", match.rule)
  /\ UNCHANGED <<triageDay, observed, failure, verdicts>>

ClassifyByModel(c, category) ==
  /\ report[c] # Unset /\ report[c].category = Unset
  /\ Verdict(c, category, "llm", Unset)
  /\ UNCHANGED <<triageDay, observed, failure, verdicts>>

(* The rows and the audit event are committed. *)
CommitVerdict(c) ==
  /\ report[c] # Unset /\ report[c].category # Unset
  /\ verdicts' = Append(verdicts, [row |-> report[c], signal |-> failure[c]])
  /\ report' = [report EXCEPT ![c] = Unset]
  /\ failure' = [failure EXCEPT ![c] = Unset]
  /\ UNCHANGED <<triageDay, observed>>

(* The model or the commit fails: no row at all. *)
ClassifyFails(c) ==
  /\ report[c] # Unset
  /\ report' = [report EXCEPT ![c] = Unset]
  /\ UNCHANGED <<triageDay, observed, failure, verdicts>>

TriageDayPasses ==
  /\ triageDay < FinalDay
  /\ triageDay' = triageDay + 1
  /\ UNCHANGED <<observed, failure, report, verdicts>>

TriageNext ==
  \/ TriageDayPasses
  \/ \E passed \in BOOLEAN, d \in 0..triageDay : Record(passed, d)
  \/ \E c \in Reporters :
       \/ \E code \in Codes \cup {Unset}, text \in Texts, score \in flakiness_score \cup {Unset} :
            BuildSignal(c, code, text, score)
       \/ ClassifyByRule(c)
       \/ \E category \in Category : ClassifyByModel(c, category)
       \/ CommitVerdict(c)
       \/ ClassifyFails(c)

TriageSpec == TriageInit /\ [][TriageNext]_triageVars

-----------------------------------------------------------------------------
TriageTypeOK ==
  /\ triageDay \in 0..FinalDay
  /\ observed \in Seq(Result) /\ Len(observed) <= MaxResults
  /\ \A c \in Reporters :
       /\ failure[c] # Unset => failure[c].code \in Codes \cup {Unset} /\ failure[c].text \in Texts
       /\ report[c] # Unset => failure[c] # Unset /\ report[c].category \in Category \cup {Unset}
  /\ \A v \in {verdicts[i] : i \in DOMAIN verdicts} : v.row.category \in Category

(* What had been recorded, of the last 90 days, when a signal was built. *)
Known(s) == {i \in 1..s.asked.results : observed[i].observed_at >= s.asked.day - D90}

Flapped(obs) == \E i, j \in obs : observed[i].passed # observed[j].passed

(* Two results or more, no two of one moment, each unlike the one before. *)
Alternates(obs) ==
  /\ Cardinality(obs) >= 2
  /\ \A i, j \in obs : i # j => observed[i].observed_at # observed[j].observed_at
  /\ \A i, j \in obs :
       /\ observed[i].observed_at < observed[j].observed_at
       /\ ~\E k \in obs : /\ observed[i].observed_at < observed[k].observed_at
                          /\ observed[k].observed_at < observed[j].observed_at
       => observed[i].passed # observed[j].passed

(* The heuristic calls a test flaky only if both verdicts were on record   *)
(* for the last 90 days when the client asked, in whatever order they came *)
(* in; it blames the product for no failure of a test that was known to    *)
(* alternate; and a refused credential or a timeout is the fault of the    *)
(* environment however much the test flaps.                                *)
FlakyNotBlamed ==
  \A i \in DOMAIN verdicts :
    LET row == verdicts[i].row
        s   == verdicts[i].signal
    IN  row.by = "heuristic" =>
          /\ row.category = "flaky_test" => Flapped(Known(s))
          /\ row.category = "product_defect" => s.score = Unset \/ ~Alternates(Known(s))
          /\ s.code \in {401, 403, 408} => row.category = "environment_issue"
=============================================================================
