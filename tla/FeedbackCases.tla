--------------------------- MODULE FeedbackCases ----------------------------
(***************************************************************************)
(* How a thumbs-down becomes a scored regression case.  A conversion reads *)
(* the case file of the agent, appends a line if its case is not there,    *)
(* and links the feedback row in its own transaction; the file is not part *)
(* of that transaction.  A promotion, run by an external scheduler, copies *)
(* cases from the case file to the pinned dataset.  Nobody locks a file.   *)
(* Lines are appended whole.                                               *)
(***************************************************************************)
EXTENDS Integers, Sequences, FiniteSets

CONSTANTS
  Feedback,            \* feedback ids of one agent kind, and with them the case ids
  Converters,          \* conversions that may run at the same time
  Promoters,           \* promotions that may run at the same time
  MaxCrashes,          \* bound: promotions that are killed
  Moments,             \* when a row may be submitted, and a review's window may begin
  ReviewLimit,         \* rows a review counts (10,000)
  PendingLimit         \* rows it lists (25, where the caller does not say)

ASSUME FeedbackAssumption ==
  /\ {MaxCrashes, ReviewLimit, PendingLimit} \subseteq Nat
  /\ Moments \subseteq Nat /\ Feedback # {}

VARIABLES
  rating,              \* committed agent_feedback rows
  submitted,           \* their submitted_at
  converted,           \* rows with eval_case_id and converted_at
  caseFile, dataset,   \* feedback_cases.jsonl and <version>.jsonl, case by line
  doing, about,        \* a conversion: how far it is, and its feedback id
  promoting,           \* how far a promotion is
  found, chosen,       \* the cases it read, those it still has to write
  crashes,
  review               \* the weekly review: how far it is, and what it tells

rowsVars     == <<rating, submitted, converted>>
convertVars  == <<doing, about>>
promoteVars  == <<promoting, found, chosen, crashes>>
feedbackVars == <<rowsVars, caseFile, dataset, convertVars, promoteVars, review>>

Ratings == {"up", "down"}
Ids(lines) == {lines[i] : i \in DOMAIN lines}
NoReview == [stage |-> "none", since |-> 0, down |-> {}, done |-> {}, pending |-> {}]

FeedbackInit ==
  /\ rating    = [f \in Feedback |-> "none"]
  /\ submitted = [f \in Feedback |-> 0]
  /\ converted = [f \in Feedback |-> FALSE]
  /\ caseFile = <<>> /\ dataset = <<>>
  /\ doing = [c \in Converters |-> "idle"]
  /\ about = [c \in Converters |-> CHOOSE f \in Feedback : TRUE]
  /\ promoting = [p \in Promoters |-> "idle"]
  /\ found  = [p \in Promoters |-> <<>>]
  /\ chosen = [p \in Promoters |-> <<>>]
  /\ crashes = 0
  /\ review = NoReview

-----------------------------------------------------------------------------
(* record() and convert_to_eval_case(). *)

(* The time is the service's clock before its transaction commits: rows do *)
(* not come in the order of their times.                                   *)
RecordFeedback(f, r, t) ==
  /\ rating[f] = "none"
  /\ rating' = [rating EXCEPT ![f] = r]
  /\ submitted' = [submitted EXCEPT ![f] = t]
  /\ UNCHANGED <<converted, caseFile, dataset, convertVars, promoteVars, review>>

(* Up to the scan of the case file; a row that is not "down" is refused.   *)
(* (A definition whose name ends in _Mutant is the next one with a slip in *)
(* it and no part of the model.)                                           *)
Scan(c, f) ==
  /\ doing[c] = "idle"
  /\ rating[f] = "down"
  /\ about' = [about EXCEPT ![c] = f]
  /\ doing' = [doing EXCEPT ![c] = IF f \in Ids(caseFile) THEN "present" ELSE "absent"]
  /\ UNCHANGED <<rowsVars, caseFile, dataset, promoteVars, review>>

AppendCase(c) ==
  /\ doing[c] = "absent"
  /\ caseFile' = Append(caseFile, about[c])
  /\ doing' = [doing EXCEPT ![c] = "present"]
  /\ UNCHANGED <<rowsVars, dataset, about, promoteVars, review>>

Linkable_Mutant(c) == doing[c] # "idle"
Linkable(c) == doing[c] = "present"

CommitConversion(c) ==
  /\ Linkable(c)
  /\ converted' = [converted EXCEPT ![about[c]] = TRUE]
  /\ doing' = [doing EXCEPT ![c] = "idle"]
  /\ UNCHANGED <<rating, submitted, caseFile, dataset, about, promoteVars, review>>

(* The transaction fails; what is in the file stays there. *)
FailConversion(c) ==
  /\ doing[c] # "idle"
  /\ doing' = [doing EXCEPT ![c] = "idle"]
  /\ UNCHANGED <<rowsVars, caseFile, dataset, about, promoteVars, review>>

-----------------------------------------------------------------------------
(* promote_feedback_cases(). *)

ReadCases(p) ==
  /\ promoting[p] = "idle"
  /\ promoting' = [promoting EXCEPT ![p] = "read"]
  /\ found' = [found EXCEPT ![p] = caseFile]
  /\ UNCHANGED <<rowsVars, caseFile, dataset, convertVars, chosen, crashes, review>>

(* First occurrences, in order, of the cases the dataset does not have. *)
New_Mutant(lines, i) == lines[i] \notin Ids(dataset)
New_FileMutant(lines, i) ==
  lines[i] \notin Ids(caseFile) /\ \A j \in 1..(i - 1) : lines[j] # lines[i]
New(lines, i) ==
  lines[i] \notin Ids(dataset) /\ \A j \in 1..(i - 1) : lines[j] # lines[i]

Choose(p) ==
  /\ promoting[p] = "read"
  /\ LET new == {i \in DOMAIN found[p] : New(found[p], i)}
         rank(i) == Cardinality({j \in new : j <= i})
     IN  chosen' = [chosen EXCEPT ![p] =
           [n \in 1..Cardinality(new) |-> found[p][CHOOSE i \in new : rank(i) = n]]]
  /\ promoting' = [promoting EXCEPT ![p] = "write"]
  /\ found' = [found EXCEPT ![p] = <<>>]
  /\ UNCHANGED <<rowsVars, caseFile, dataset, convertVars, crashes, review>>

WriteCase(p) ==
  /\ promoting[p] = "write"
  /\ chosen[p] # <<>>
  /\ dataset' = Append(dataset, Head(chosen[p]))
  /\ chosen' = [chosen EXCEPT ![p] = Tail(@)]
  /\ UNCHANGED <<rowsVars, caseFile, convertVars, promoting, found, crashes, review>>

Promoted(p) ==
  /\ promoting[p] = "write"
  /\ chosen[p] = <<>>
  /\ promoting' = [promoting EXCEPT ![p] = "idle"]
  /\ UNCHANGED <<rowsVars, caseFile, dataset, convertVars, found, chosen, crashes, review>>

(* The job is killed, with some of its lines in the dataset. *)
KillPromotion(p) ==
  /\ crashes < MaxCrashes
  /\ promoting[p] # "idle"
  /\ promoting' = [promoting EXCEPT ![p] = "idle"]
  /\ found'  = [found  EXCEPT ![p] = <<>>]
  /\ chosen' = [chosen EXCEPT ![p] = <<>>]
  /\ crashes' = crashes + 1
  /\ UNCHANGED <<rowsVars, caseFile, dataset, convertVars, review>>

Promotion(p) == ReadCases(p) \/ Choose(p) \/ WriteCase(p) \/ Promoted(p)

-----------------------------------------------------------------------------
(* weekly_review(), one after the other: it counts the ratings of the      *)
(* window, the newest first, in one statement, and lists what is pending,  *)
(* the oldest first, in another.                                           *)
Down == {f \in Feedback : rating[f] = "down"}
Converted == {f \in Feedback : converted[f]}
Since(t) == {f \in Feedback : rating[f] # "none" /\ submitted[f] >= t}

(* ORDER BY submitted_at DESC, or ASC, LIMIT n; equal times come anyhow.   *)
LatestOf(rows, n) ==
  IF Cardinality(rows) <= n THEN {rows}
  ELSE {top \in SUBSET rows : /\ Cardinality(top) = n
                              /\ \A f \in top, g \in rows \ top : submitted[f] >= submitted[g]}
EarliestOf_Mutant(rows, n) == LatestOf(rows, n)
EarliestOf(rows, n) ==
  IF Cardinality(rows) <= n THEN {rows}
  ELSE {top \in SUBSET rows : /\ Cardinality(top) = n
                              /\ \A f \in top, g \in rows \ top : submitted[f] <= submitted[g]}

CountRatings(t) ==
  /\ review.stage = "none"
  /\ \E rows \in LatestOf(Since(t), ReviewLimit) :
       review' = [NoReview EXCEPT !.stage = "counted", !.since = t,
                                  !.down = rows \cap Down, !.done = rows \cap Down \cap Converted]
  /\ UNCHANGED <<rowsVars, caseFile, dataset, convertVars, promoteVars>>

Pending == EarliestOf((Down \ Converted) \cap Since(review.since), PendingLimit)

ListPending ==
  /\ review.stage = "counted"
  /\ \E rows \in Pending : review' = [review EXCEPT !.stage = "told", !.pending = rows]
  /\ UNCHANGED <<rowsVars, caseFile, dataset, convertVars, promoteVars>>

ReviewRead ==
  /\ review.stage = "told"
  /\ review' = NoReview
  /\ UNCHANGED <<rowsVars, caseFile, dataset, convertVars, promoteVars>>

FeedbackNext ==
  \/ \E f \in Feedback, r \in Ratings, t \in Moments : RecordFeedback(f, r, t)
  \/ \E c \in Converters :
       \/ \E f \in Feedback : Scan(c, f)
       \/ AppendCase(c) \/ CommitConversion(c) \/ FailConversion(c)
  \/ \E p \in Promoters : Promotion(p) \/ KillPromotion(p)
  \/ (\E t \in Moments : CountRatings(t)) \/ ListPending \/ ReviewRead

(* The scheduler keeps starting promotions and they run to their end, but  *)
(* for MaxCrashes of them; conversions are users' calls and owe nothing.   *)
FeedbackFairness == \A p \in Promoters : WF_feedbackVars(Promotion(p))

FeedbackSpec == FeedbackInit /\ [][FeedbackNext]_feedbackVars /\ FeedbackFairness

-----------------------------------------------------------------------------
FeedbackTypeOK ==
  /\ rating \in [Feedback -> Ratings \cup {"none"}]
  /\ submitted \in [Feedback -> Moments \cup {0}]
  /\ converted \in [Feedback -> BOOLEAN]
  /\ {caseFile, dataset} \subseteq Seq(Feedback)
  /\ doing \in [Converters -> {"idle", "absent", "present"}]
  /\ about \in [Converters -> Feedback]
  /\ promoting \in [Promoters -> {"idle", "read", "write"}]
  /\ found \in [Promoters -> Seq(Feedback)]
  /\ chosen \in [Promoters -> Seq(Feedback)]
  /\ crashes \in 0..MaxCrashes
  /\ review \in [stage : {"none", "counted", "told"}, since : Moments \cup {0},
                 down : SUBSET Feedback, done : SUBSET Feedback, pending : SUBSET Feedback]

(* The dataset scores no case twice, although conversions of one feedback  *)
(* that overlap write its line twice and a killed promotion leaves part of *)
(* its lines behind.  It takes one promotion at a time.                    *)
ScoredOnce == \A i, j \in DOMAIN dataset : dataset[i] = dataset[j] => i = j

(* A row that says it was converted has its line in the case file, and     *)
(* only thumbs-down rows ever get one; what is scored went through it.     *)
ConvertedOnFile ==
  /\ \A f \in Feedback : converted[f] => f \in Ids(caseFile)
  /\ \A f \in Ids(caseFile) : rating[f] = "down"
  /\ Ids(dataset) \subseteq Ids(caseFile)

(* Ratings, the case file and the dataset agree: both of the above.        *)
FeedbackKept == ScoredOnce /\ ConvertedOnFile

(* A review never lists as pending what it counted as converted, lists no  *)
(* more than its limit, and nothing from before its window; and a counted  *)
(* thumbs-down that it neither counts as converted nor lists has been      *)
(* converted since, or had to give way to as many as the limit that are no *)
(* younger: the oldest are seen to first.  (One that is not counted, for   *)
(* being older than ReviewLimit others, may be listed all the same.)       *)
ReviewTells ==
  review.stage = "told" =>
    /\ review.pending \cap review.done = {}
    /\ review.pending \subseteq Down \cap Since(review.since)
    /\ Cardinality(review.pending) <= PendingLimit
    /\ \A f \in review.down \ (review.done \cup review.pending \cup Converted) :
         /\ Cardinality(review.pending) = PendingLimit
         /\ \A g \in review.pending : submitted[g] <= submitted[f]

(* A converted case is scored some day ("so the next eval run includes     *)
(* them"), even if the conversion's own transaction was rolled back.       *)
ScoredEventually == \A f \in Feedback : f \in Ids(caseFile) ~> f \in Ids(dataset)
=============================================================================
