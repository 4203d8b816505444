---------------------------- MODULE FilesProofs -----------------------------
(***************************************************************************)
(* Rows that go with something outside their transaction: the case file and *)
(* the dataset that feedback is promoted to, and the objects of evidence   *)
(* reports.  Each part has an inductive invariant of its own.              *)
(***************************************************************************)
EXTENDS FeedbackCases, EvidenceReports,
        WellFoundedInduction, SequenceTheorems, FiniteSetTheorems, TLAPS

-----------------------------------------------------------------------------
(* Feedback: its invariant. *)

SomeFeedback == Feedback \cup {CHOOSE f \in Feedback : TRUE}

(* A conversion under way is of a thumbs-down, and one that found or wrote *)
(* its line has it in the case file; a promotion carries lines of it.      *)
FileInv ==
  /\ rating \in [Feedback -> Ratings \cup {"none"}]
  /\ converted \in [Feedback -> BOOLEAN]
  /\ caseFile \in Seq(Feedback) /\ dataset \in Seq(Feedback)
  /\ doing \in [Converters -> {"idle", "absent", "present"}]
  /\ about \in [Converters -> SomeFeedback]
  /\ promoting \in [Promoters -> {"idle", "read", "write"}]
  /\ found \in [Promoters -> Seq(Feedback)] /\ chosen \in [Promoters -> Seq(Feedback)]
  /\ crashes \in 0..MaxCrashes
  /\ \A c \in Converters :
       /\ doing[c] # "idle" => about[c] \in Feedback /\ rating[about[c]] = "down"
       /\ doing[c] = "present" => about[c] \in Ids(caseFile)
  /\ \A p \in Promoters : Ids(found[p]) \subseteq Ids(caseFile) /\ Ids(chosen[p]) \subseteq Ids(caseFile)
  /\ ConvertedOnFile

Distinct(lines) == \A i, j \in DOMAIN lines : lines[i] = lines[j] => i = j

(* What a promotion has chosen is neither there yet nor chosen twice.      *)
OnceInv ==
  /\ Distinct(dataset)
  /\ \A p \in Promoters : promoting[p] = "write" =>
       Distinct(chosen[p]) /\ Ids(chosen[p]) \cap Ids(dataset) = {}

-----------------------------------------------------------------------------
(* Files: what a line more does to one, and what is left after the first.  *)

LEMMA IdsAppend ==
  ASSUME NEW s \in Seq(Feedback), NEW f \in Feedback
  PROVE  /\ Append(s, f) \in Seq(Feedback)
         /\ Ids(Append(s, f)) = Ids(s) \cup {f}
         /\ Distinct(s) /\ f \notin Ids(s) => Distinct(Append(s, f))
<1> DEFINE t == Append(s, f)
           n == Len(s)
<1>1. /\ t \in Seq(Feedback) /\ DOMAIN s = 1..n /\ DOMAIN t = 1..(n + 1) /\ n \in Nat
      /\ t[n + 1] = f /\ \A i \in 1..n : t[i] = s[i]
  BY AppendProperties, LenProperties
<1> HIDE DEF t, n
<1>2. \A i \in 1..(n + 1) : i \in 1..n \/ i = n + 1
  BY <1>1
<1>3. n + 1 \in 1..(n + 1) /\ \A i \in 1..n : i \in 1..(n + 1)
  BY <1>1
<1>4. Ids(t) = Ids(s) \cup {f}
  BY <1>1, <1>2, <1>3 DEF Ids
<1>5. ASSUME Distinct(s), f \notin Ids(s) PROVE Distinct(t)
  BY <1>1, <1>2, <1>5 DEF Ids, Distinct
<1>. QED
  BY <1>1, <1>4, <1>5 DEF t

LEMMA IdsTail ==
  ASSUME NEW s \in Seq(Feedback), s # <<>>
  PROVE  /\ Tail(s) \in Seq(Feedback) /\ Head(s) \in Ids(s) /\ Head(s) \in Feedback
         /\ Ids(Tail(s)) \subseteq Ids(s)
         /\ Distinct(s) => Distinct(Tail(s)) /\ Head(s) \notin Ids(Tail(s))
<1> DEFINE t == Tail(s)
           n == Len(s)
<1>1. /\ t \in Seq(Feedback) /\ n \in Nat /\ n >= 1 /\ DOMAIN s = 1..n /\ DOMAIN t = 1..(n - 1)
      /\ Head(s) = s[1] /\ \A i \in 1..(n - 1) : t[i] = s[i + 1]
  BY HeadTailProperties, LenProperties, EmptySeq
<1> HIDE DEF t, n
<1>2. 1 \in 1..n /\ \A i \in 1..(n - 1) : i + 1 \in 1..n /\ i + 1 # 1
  BY <1>1
<1>3. Head(s) \in Feedback
  BY <1>1, <1>2, ElementOfSeq DEF n
<1>4. Head(s) \in Ids(s) /\ Ids(t) \subseteq Ids(s)
  BY <1>1, <1>2 DEF Ids
<1>5. ASSUME Distinct(s) PROVE Distinct(t) /\ Head(s) \notin Ids(t)
  <2>1. \A i, j \in 1..(n - 1) : t[i] = t[j] => i = j
    <3> SUFFICES ASSUME NEW i \in 1..(n - 1), NEW j \in 1..(n - 1), t[i] = t[j] PROVE i = j
      OBVIOUS
    <3>1. s[i + 1] = s[j + 1] /\ i + 1 \in DOMAIN s /\ j + 1 \in DOMAIN s
      BY <1>1, <1>2
    <3>2. \A k, l \in DOMAIN s : s[k] = s[l] => k = l
      BY <1>5 DEF Distinct
    <3>3. i + 1 = j + 1
      BY <3>1, <3>2
    <3>. QED
      BY <1>1, <3>3
  <2>2. \A i \in 1..(n - 1) : t[i] # s[1]
    BY <1>1, <1>2, <1>5 DEF Distinct
  <2>. QED
    BY <1>1, <2>1, <2>2 DEF Distinct, Ids
<1>. QED
  BY <1>1, <1>3, <1>4, <1>5 DEF t

(* The members of a finite set of positions, by their rank in it.          *)
LEMMA Ranked ==
  ASSUME NEW m \in Nat, NEW S \in SUBSET (1..m)
  PROVE  /\ Cardinality(S) \in Nat
         /\ \A n \in 1..Cardinality(S) : \E i \in S : Cardinality({j \in S : j <= i}) = n
<1> DEFINE B(i) == {j \in S : j <= i}
           N == Cardinality(S)
           r == [i \in S |-> Cardinality(B(i))]
<1>1. IsFiniteSet(S) /\ N \in Nat
  <2>1. IsFiniteSet(1..m)
    BY FS_Interval
  <2>2. IsFiniteSet(S)
    BY <2>1, FS_Subset
  <2>. QED
    BY <2>2, FS_CardinalityType
<1>2. ASSUME NEW i \in S
      PROVE  IsFiniteSet(B(i)) /\ Cardinality(B(i)) \in 1..N /\ B(i) \in SUBSET S
  <2>1. B(i) \in SUBSET S /\ i \in B(i)
    OBVIOUS
  <2>2. IsFiniteSet(B(i)) /\ Cardinality(B(i)) <= N
    BY <1>1, <2>1, FS_Subset
  <2>3. Cardinality(B(i)) \in Nat /\ Cardinality(B(i)) # 0
    BY <2>1, <2>2, FS_CardinalityType, FS_EmptySet
  <2>. QED
    BY <1>1, <2>1, <2>2, <2>3
<1>3. ASSUME NEW i \in S, NEW k \in S, i < k
      PROVE  Cardinality(B(i)) # Cardinality(B(k))
  <2>0. \A j \in S : j \in Int
    OBVIOUS
  <2>1. B(i) \in SUBSET B(k) /\ k \in B(k) /\ k \notin B(i)
    <3>1. \A j \in S : j <= i => j <= k
      BY <1>3, <2>0
    <3>2. k <= k /\ ~(k <= i)
      BY <1>3, <2>0
    <3>. QED
      BY <3>1, <3>2
  <2>2. IsFiniteSet(B(k))
    BY <1>2
  <2>. QED
    BY <2>1, <2>2, FS_Subset
<1> HIDE DEF N, B
<1>4. r \in Injection(S, 1..N)
  <2>1. \A i, k \in S : r[i] = r[k] => i = k
    <3> SUFFICES ASSUME NEW i \in S, NEW k \in S, i # k PROVE Cardinality(B(i)) # Cardinality(B(k))
      OBVIOUS
    <3>1. i < k \/ k < i
      OBVIOUS
    <3>. QED
      BY <1>3, <3>1
  <2>2. r \in [S -> 1..N]
    BY <1>2
  <2>. QED
    BY <2>1, <2>2 DEF Injection, IsInjective
<1>5. IsFiniteSet(1..N) /\ Cardinality(1..N) = N
  BY <1>1, FS_Interval
<1>6. r \in Surjection(S, 1..N)
  BY <1>4, <1>5, FS_Injection DEF N
<1>7. \A n \in 1..N : \E i \in S : r[i] = n
  BY <1>6 DEF Surjection
<1>. QED
  BY <1>1, <1>7 DEF N, B

(* Lines picked at positions of S, no position twice, ... *)
PickedAt(picked, lines, S, N, place) ==
  /\ lines \in Seq(Feedback) /\ N \in Nat
  /\ \A i \in S : i \in DOMAIN lines /\ New(lines, i)
  /\ place \in [1..N -> S] /\ \A n, l \in 1..N : place[n] = place[l] => n = l
  /\ picked \in [1..N -> Feedback] /\ \A n \in 1..N : picked[n] = lines[place[n]]

(* ... are lines the dataset does not have. *)
NewLines(picked, lines) ==
  /\ picked \in Seq(Feedback) /\ Ids(picked) \subseteq Ids(lines)
  /\ Distinct(picked) /\ Ids(picked) \cap Ids(dataset) = {}

LEMMA PickedIs ==
  ASSUME NEW picked, NEW lines, NEW S, NEW N, NEW place, PickedAt(picked, lines, S, N, place)
  PROVE  NewLines(picked, lines)
<1>0. /\ lines \in Seq(Feedback) /\ N \in Nat
      /\ \A i \in S : i \in DOMAIN lines /\ New(lines, i)
      /\ place \in [1..N -> S] /\ \A n, l \in 1..N : place[n] = place[l] => n = l
      /\ picked \in [1..N -> Feedback] /\ \A n \in 1..N : picked[n] = lines[place[n]]
  BY DEF PickedAt
<1>1. DOMAIN lines = 1..Len(lines) /\ Len(lines) \in Nat
  BY <1>0, LenProperties
<1>2. \A i \in S : i \in 1..Len(lines) /\ lines[i] \in Feedback /\ New(lines, i)
  BY <1>0, <1>1, ElementOfSeq
<1>3. DOMAIN picked = 1..N /\ \A n \in 1..N : place[n] \in S /\ picked[n] = lines[place[n]]
  BY <1>0
<1>4. \A i, k \in S : lines[i] = lines[k] => i = k
  <2> SUFFICES ASSUME NEW i \in S, NEW k \in S, i < k PROVE lines[i] # lines[k]
    BY <1>1, <1>2
  <2>1. New(lines, k) /\ i \in 1..(k - 1)
    BY <1>1, <1>2
  <2>. QED
    BY <2>1 DEF New
<1>5. picked \in Seq(Feedback)
  BY <1>0, SeqDef
<1>6. Distinct(picked)
  <2> SUFFICES ASSUME NEW n \in 1..N, NEW l \in 1..N, picked[n] = picked[l] PROVE n = l
    BY <1>3 DEF Distinct
  <2>1. place[n] = place[l]
    BY <1>3, <1>4
  <2>. QED
    BY <1>0, <2>1
<1>7. \A n \in 1..N : picked[n] \in Ids(lines) /\ picked[n] \notin Ids(dataset)
  <2>1. \A i \in S : lines[i] \in Ids(lines) /\ lines[i] \notin Ids(dataset)
    BY <1>1, <1>2 DEF New, Ids
  <2>. QED
    BY <1>3, <2>1
<1>8. Ids(picked) \subseteq Ids(lines) /\ Ids(picked) \cap Ids(dataset) = {}
  BY <1>3, <1>7 DEF Ids
<1>. QED
  BY <1>5, <1>6, <1>8 DEF NewLines

-----------------------------------------------------------------------------
LEMMA FInit == FeedbackInit => FileInv /\ OnceInv
<1> SUFFICES ASSUME FeedbackInit PROVE FileInv /\ OnceInv
  OBVIOUS
<1> USE FeedbackAssumption DEF FeedbackInit
<1>1. Ids(<<>>) = {} /\ Distinct(<<>>)
  BY DEF Ids, Distinct
<1>2. FileInv
  BY <1>1 DEF FileInv, ConvertedOnFile, Ratings, SomeFeedback
<1>3. OnceInv
  BY <1>1 DEF OnceInv
<1>. QED
  BY <1>2, <1>3

LEMMA FConversion ==
  ASSUME FileInv,
         \/ \E f \in Feedback, r \in Ratings, t \in Moments : RecordFeedback(f, r, t)
         \/ \E c \in Converters :
              \/ \E f \in Feedback : Scan(c, f)
              \/ AppendCase(c) \/ CommitConversion(c) \/ FailConversion(c)
  PROVE  FileInv' /\ (OnceInv => OnceInv')
<1>1. UNCHANGED <<dataset, promoting, found, chosen, crashes>>
  BY DEF RecordFeedback, Scan, AppendCase, CommitConversion, FailConversion, promoteVars
<1>2. OnceInv => OnceInv'
  BY <1>1 DEF OnceInv
<1>3. CASE \E f \in Feedback, r \in Ratings, t \in Moments : RecordFeedback(f, r, t)
  <2>1. PICK f \in Feedback, r \in Ratings, t \in Moments : RecordFeedback(f, r, t)
    BY <1>3
  <2>2. /\ rating[f] = "none" /\ rating' = [rating EXCEPT ![f] = r]
        /\ UNCHANGED <<converted, caseFile, doing, about>>
    BY <2>1 DEF RecordFeedback, convertVars
  <2>3. /\ rating' \in [Feedback -> Ratings \cup {"none"}]
        /\ \A g \in Feedback : rating[g] = "down" => rating'[g] = "down"
    BY <2>2 DEF FileInv
  <2>4. \A g \in Ids(caseFile) : g \in Feedback
    BY DEF FileInv, Ids
  <2>. QED
    BY <1>1, <1>2, <2>2, <2>3, <2>4 DEF FileInv, ConvertedOnFile
<1>4. ASSUME NEW c \in Converters, NEW f \in Feedback, Scan(c, f)
      PROVE  FileInv'
  <2>1. /\ rating[f] = "down" /\ about' = [about EXCEPT ![c] = f]
        /\ doing' = [doing EXCEPT ![c] = IF f \in Ids(caseFile) THEN "present" ELSE "absent"]
        /\ UNCHANGED <<rating, converted, caseFile>>
    BY <1>4 DEF Scan, rowsVars
  <2>2. /\ about' \in [Converters -> SomeFeedback] /\ about'[c] = f
        /\ doing' \in [Converters -> {"idle", "absent", "present"}]
        /\ doing'[c] = "present" => f \in Ids(caseFile)
        /\ \A d \in Converters : d # c => about'[d] = about[d] /\ doing'[d] = doing[d]
    BY <2>1 DEF FileInv, SomeFeedback
  <2>. QED
    BY <1>1, <2>1, <2>2 DEF FileInv, ConvertedOnFile
<1>5. ASSUME NEW c \in Converters, AppendCase(c)
      PROVE  FileInv'
  <2>1. /\ doing[c] = "absent" /\ caseFile' = Append(caseFile, about[c])
        /\ doing' = [doing EXCEPT ![c] = "present"]
        /\ UNCHANGED <<rating, converted, about>>
    BY <1>5 DEF AppendCase, rowsVars
  <2>2. about[c] \in Feedback /\ rating[about[c]] = "down"
    BY <2>1 DEF FileInv
  <2>3. caseFile' \in Seq(Feedback) /\ Ids(caseFile') = Ids(caseFile) \cup {about[c]}
    BY <2>1, <2>2, IdsAppend DEF FileInv
  <2>4. doing' \in [Converters -> {"idle", "absent", "present"}]
    BY <2>1 DEF FileInv
  <2>5. \A d \in Converters : /\ doing'[d] # "idle" => about[d] \in Feedback /\ rating[about[d]] = "down"
                             /\ doing'[d] = "present" => about[d] \in Ids(caseFile')
    BY <2>1, <2>2, <2>3 DEF FileInv
  <2>6. /\ \A g \in Feedback : converted[g] => g \in Ids(caseFile')
        /\ \A g \in Ids(caseFile') : rating[g] = "down"
        /\ Ids(dataset) \subseteq Ids(caseFile')
        /\ \A p \in Promoters : Ids(found[p]) \subseteq Ids(caseFile') /\ Ids(chosen[p]) \subseteq Ids(caseFile')
    BY <2>2, <2>3 DEF FileInv, ConvertedOnFile
  <2>. QED
    BY <1>1, <2>1, <2>3, <2>4, <2>5, <2>6 DEF FileInv, ConvertedOnFile
<1>6. ASSUME NEW c \in Converters, CommitConversion(c)
      PROVE  FileInv'
  <2>1. /\ doing[c] = "present" /\ converted' = [converted EXCEPT ![about[c]] = TRUE]
        /\ doing' = [doing EXCEPT ![c] = "idle"]
        /\ UNCHANGED <<rating, caseFile, about>>
    BY <1>6 DEF CommitConversion, Linkable
  <2>2. about[c] \in Feedback /\ about[c] \in Ids(caseFile)
    BY <2>1 DEF FileInv
  <2>3. /\ converted' \in [Feedback -> BOOLEAN]
        /\ \A g \in Feedback : converted'[g] => g \in Ids(caseFile)
    BY <2>1, <2>2 DEF FileInv, ConvertedOnFile
  <2>. QED
    BY <1>1, <2>1, <2>3 DEF FileInv, ConvertedOnFile
<1>7. ASSUME NEW c \in Converters, FailConversion(c)
      PROVE  FileInv'
  BY <1>1, <1>7 DEF FailConversion, rowsVars, FileInv, ConvertedOnFile
<1>. QED
  BY <1>2, <1>3, <1>4, <1>5, <1>6, <1>7

LEMMA FPromotion ==
  ASSUME FileInv, NEW p \in Promoters, Promotion(p) \/ KillPromotion(p)
  PROVE  /\ FileInv'
         /\ OnceInv /\ (\A q \in Promoters : q = p) => OnceInv'
<1>1. UNCHANGED <<rating, converted, caseFile, doing, about>>
  BY DEF Promotion, ReadCases, Choose, WriteCase, Promoted, KillPromotion, rowsVars, convertVars
<1>0. Ids(<<>>) = {} /\ <<>> \in Seq(Feedback)
  BY DEF Ids
<1>2. CASE ReadCases(p)
  <2>1. /\ promoting' = [promoting EXCEPT ![p] = "read"] /\ found' = [found EXCEPT ![p] = caseFile]
        /\ UNCHANGED <<dataset, chosen, crashes>>
    BY <1>2 DEF ReadCases
  <2>2. FileInv'
    BY <1>1, <2>1 DEF FileInv, ConvertedOnFile
  <2>3. OnceInv => OnceInv'
    BY <2>1 DEF FileInv, OnceInv
  <2>. QED
    BY <2>2, <2>3
<1>3. CASE Choose(p)
  <2> DEFINE S == {i \in DOMAIN found[p] : New(found[p], i)}
             picked == [n \in 1..Cardinality(S) |->
                          found[p][CHOOSE i \in S : Cardinality({j \in S : j <= i}) = n]]
  <2>1. /\ chosen' = [chosen EXCEPT ![p] = picked]
        /\ promoting' = [promoting EXCEPT ![p] = "write"] /\ found' = [found EXCEPT ![p] = <<>>]
        /\ UNCHANGED <<dataset, crashes>>
    BY <1>3 DEF Choose
  <2>2. /\ picked \in Seq(Feedback) /\ Ids(picked) \subseteq Ids(found[p])
        /\ Distinct(picked) /\ Ids(picked) \cap Ids(dataset) = {}
    <3> DEFINE N == Cardinality(S)
               nth(n) == CHOOSE i \in S : Cardinality({j \in S : j <= i}) = n
               place == [n \in 1..N |-> nth(n)]
    <3>1. /\ found[p] \in Seq(Feedback) /\ Len(found[p]) \in Nat /\ DOMAIN found[p] = 1..Len(found[p])
          /\ S \in SUBSET (1..Len(found[p]))
          /\ \A i \in S : i \in DOMAIN found[p] /\ New(found[p], i)
      BY LenProperties DEF FileInv
    <3>2. picked = [n \in 1..N |-> found[p][nth(n)]]
      OBVIOUS
    <3> HIDE DEF S
    <3>3. N \in Nat /\ \A n \in 1..N : \E i \in S : Cardinality({j \in S : j <= i}) = n
      BY <3>1, Ranked
    <3>4. \A n \in 1..N : nth(n) \in S /\ Cardinality({j \in S : j <= nth(n)}) = n
      BY <3>3
    <3>5. \A n, l \in 1..N : nth(n) = nth(l) => n = l
      <4> SUFFICES ASSUME NEW n \in 1..N, NEW l \in 1..N, nth(n) = nth(l) PROVE n = l
        OBVIOUS
      <4> DEFINE R(i) == Cardinality({j \in S : j <= i})
      <4>1. R(nth(n)) = n /\ R(nth(l)) = l
        BY <3>4
      <4> HIDE DEF R, nth
      <4>. QED
        BY <4>1
    <3> HIDE DEF nth, N, picked
    <3>6. place \in [1..N -> S] /\ \A n \in 1..N : place[n] = nth(n)
      BY <3>4
    <3>7. picked \in [1..N -> Feedback]
      <4>1. \A n \in 1..N : found[p][nth(n)] \in Feedback
        BY <3>1, <3>4, ElementOfSeq
      <4>. QED
        BY <3>2, <4>1
    <3>8. \A n, l \in 1..N : place[n] = place[l] => n = l
      BY <3>5, <3>6
    <3>9. \A n \in 1..N : picked[n] = found[p][place[n]]
      BY <3>2, <3>6
    <3> HIDE DEF place
    <3>. QED
      <4>1. PickedAt(picked, found[p], S, N, place)
        BY <3>1, <3>3, <3>6, <3>7, <3>8, <3>9 DEF PickedAt
      <4>. QED
        BY <4>1, PickedIs DEF NewLines
  <2> HIDE DEF S, picked
  <2>3. FileInv'
    <3>1. /\ chosen' \in [Promoters -> Seq(Feedback)] /\ found' \in [Promoters -> Seq(Feedback)]
          /\ promoting' \in [Promoters -> {"idle", "read", "write"}]
      BY <1>0, <2>1, <2>2 DEF FileInv
    <3>2. \A q \in Promoters : Ids(found'[q]) \subseteq Ids(caseFile) /\ Ids(chosen'[q]) \subseteq Ids(caseFile)
      BY <1>0, <2>1, <2>2 DEF FileInv
    <3>. QED
      BY <1>1, <2>1, <3>1, <3>2 DEF FileInv, ConvertedOnFile
  <2>4. OnceInv => OnceInv'
    <3>1. \A q \in Promoters : IF q = p THEN chosen'[q] = picked
                              ELSE chosen'[q] = chosen[q] /\ promoting'[q] = promoting[q]
      BY <2>1 DEF FileInv
    <3>2. ASSUME OnceInv, NEW q \in Promoters, promoting'[q] = "write"
          PROVE  Distinct(chosen'[q]) /\ Ids(chosen'[q]) \cap Ids(dataset) = {}
      <4>1. CASE q = p
        <5>1. chosen'[q] = picked
          BY <3>1, <4>1, Zenon
        <5>. QED
          BY <2>2, <5>1, Zenon
      <4>2. CASE q # p
        BY <3>1, <3>2, <4>2 DEF OnceInv
      <4>. QED
        BY <4>1, <4>2
    <3>. QED
      BY <2>1, <3>2 DEF OnceInv
  <2>. QED
    BY <2>3, <2>4
<1>4. CASE WriteCase(p)
  <2>1. /\ promoting[p] = "write" /\ chosen[p] # <<>>
        /\ dataset' = Append(dataset, Head(chosen[p])) /\ chosen' = [chosen EXCEPT ![p] = Tail(chosen[p])]
        /\ UNCHANGED <<promoting, found, crashes>>
    BY <1>4 DEF WriteCase
  <2>2. /\ Tail(chosen[p]) \in Seq(Feedback) /\ Head(chosen[p]) \in Ids(chosen[p])
        /\ Head(chosen[p]) \in Feedback /\ Ids(Tail(chosen[p])) \subseteq Ids(chosen[p])
        /\ Distinct(chosen[p]) => Distinct(Tail(chosen[p])) /\ Head(chosen[p]) \notin Ids(Tail(chosen[p]))
    <3>1. chosen[p] \in Seq(Feedback)
      BY DEF FileInv
    <3>. QED
      BY <2>1, <3>1, IdsTail
  <2>3. /\ dataset' \in Seq(Feedback) /\ Ids(dataset') = Ids(dataset) \cup {Head(chosen[p])}
        /\ Distinct(dataset) /\ Head(chosen[p]) \notin Ids(dataset) => Distinct(dataset')
    BY <2>1, <2>2, IdsAppend DEF FileInv
  <2>4. /\ chosen' \in [Promoters -> Seq(Feedback)]
        /\ \A q \in Promoters : chosen'[q] = IF q = p THEN Tail(chosen[p]) ELSE chosen[q]
    BY <2>1, <2>2 DEF FileInv
  <2>5. FileInv'
    <3>1. Ids(dataset') \subseteq Ids(caseFile)
      BY <2>2, <2>3 DEF FileInv, ConvertedOnFile
    <3>2. \A q \in Promoters : Ids(chosen'[q]) \subseteq Ids(caseFile)
      BY <2>2, <2>4 DEF FileInv
    <3>. QED
      BY <1>1, <2>1, <2>3, <2>4, <3>1, <3>2 DEF FileInv, ConvertedOnFile
  <2>6. ASSUME OnceInv, \A q \in Promoters : q = p PROVE OnceInv'
    <3>1. Distinct(chosen[p]) /\ Ids(chosen[p]) \cap Ids(dataset) = {} /\ Distinct(dataset)
      BY <2>1, <2>6 DEF OnceInv
    <3>2. Distinct(dataset')
      BY <2>2, <2>3, <3>1
    <3>3. Distinct(Tail(chosen[p])) /\ Ids(Tail(chosen[p])) \cap Ids(dataset') = {}
      BY <2>2, <2>3, <3>1
    <3>4. \A q \in Promoters : chosen'[q] = Tail(chosen[p])
      BY <2>4, <2>6
    <3>. QED
      BY <3>2, <3>3, <3>4 DEF OnceInv
  <2>. QED
    BY <2>5, <2>6
<1>5. CASE Promoted(p)
  <2>1. /\ promoting' = [promoting EXCEPT ![p] = "idle"]
        /\ UNCHANGED <<dataset, found, chosen, crashes>>
    BY <1>5 DEF Promoted
  <2>2. FileInv'
    BY <1>1, <2>1 DEF FileInv, ConvertedOnFile
  <2>3. OnceInv => OnceInv'
    BY <2>1 DEF FileInv, OnceInv
  <2>. QED
    BY <2>2, <2>3
<1>6. CASE KillPromotion(p)
  <2>1. /\ promoting' = [promoting EXCEPT ![p] = "idle"] /\ found' = [found EXCEPT ![p] = <<>>]
        /\ chosen' = [chosen EXCEPT ![p] = <<>>] /\ crashes' = crashes + 1 /\ crashes < MaxCrashes
        /\ dataset' = dataset
    BY <1>6 DEF KillPromotion
  <2>2. FileInv'
    <3>1. crashes' \in 0..MaxCrashes
      BY <2>1, FeedbackAssumption DEF FileInv
    <3>2. /\ chosen' \in [Promoters -> Seq(Feedback)] /\ found' \in [Promoters -> Seq(Feedback)]
          /\ promoting' \in [Promoters -> {"idle", "read", "write"}]
          /\ \A q \in Promoters : Ids(found'[q]) \subseteq Ids(caseFile) /\ Ids(chosen'[q]) \subseteq Ids(caseFile)
      BY <1>0, <2>1 DEF FileInv
    <3>. QED
      BY <1>1, <2>1, <3>1, <3>2 DEF FileInv, ConvertedOnFile
  <2>3. OnceInv => OnceInv'
    <3>1. \A q \in Promoters : promoting'[q] = "write" => chosen'[q] = chosen[q] /\ promoting[q] = "write"
      BY <2>1 DEF FileInv
    <3>. QED
      BY <2>1, <3>1 DEF OnceInv
  <2>. QED
    BY <2>2, <2>3
<1>. QED
  BY <1>2, <1>3, <1>4, <1>5, <1>6 DEF Promotion

(* The review only reads. *)
LEMMA FReads ==
  ASSUME FileInv, (\E t \in Moments : CountRatings(t)) \/ ListPending \/ ReviewRead \/ UNCHANGED feedbackVars
  PROVE  FileInv' /\ (OnceInv => OnceInv')
<1>1. UNCHANGED <<rating, converted, caseFile, dataset, doing, about, promoting, found, chosen, crashes>>
  BY DEF CountRatings, ListPending, ReviewRead, feedbackVars, rowsVars, convertVars, promoteVars
<1>. QED
  BY <1>1 DEF FileInv, OnceInv, ConvertedOnFile

(* What has been rated stays as it was rated and dated, and what was       *)
(* converted stays so.                                                     *)
LEMMA FMonotone ==
  ASSUME FileInv, submitted \in [Feedback -> Moments \cup {0}], [FeedbackNext]_feedbackVars
  PROVE  /\ submitted' \in [Feedback -> Moments \cup {0}]
         /\ \A f \in Feedback : rating[f] # "none" => rating'[f] = rating[f] /\ submitted'[f] = submitted[f]
         /\ Converted \subseteq Converted'
<1>1. CASE \E f \in Feedback, r \in Ratings, t \in Moments : RecordFeedback(f, r, t)
  BY <1>1 DEF RecordFeedback, FileInv, Converted
<1>2. CASE \E c \in Converters : CommitConversion(c)
  <2>1. PICK c \in Converters : CommitConversion(c)
    BY <1>2
  <2>2. converted' = [converted EXCEPT ![about[c]] = TRUE] /\ UNCHANGED <<rating, submitted>>
    BY <2>1 DEF CommitConversion
  <2>. QED
    BY <2>2 DEF FileInv, Converted
<1>3. CASE UNCHANGED rowsVars
  BY <1>3 DEF rowsVars, Converted
<1>. QED
  BY <1>1, <1>2, <1>3 DEF FeedbackNext, Promotion, ReadCases, Choose, WriteCase, Promoted, KillPromotion,
     Scan, AppendCase, FailConversion, CountRatings, ListPending, ReviewRead, feedbackVars

(* What the review has counted is in its window, and is still so when it   *)
(* lists the rest and when what it says is read.                           *)
CountedInv ==
  /\ submitted \in [Feedback -> Moments \cup {0}]
  /\ review \in [stage : {"none", "counted", "told"}, since : Moments \cup {0},
                 down : SUBSET Feedback, done : SUBSET Feedback, pending : SUBSET Feedback]
  /\ review.stage # "none" => /\ review.down \subseteq Down \cap Since(review.since)
                              /\ review.done \subseteq Converted
  /\ ReviewTells

(* What the second statement lists, of rows that are pending.              *)
LEMMA EarliestIs ==
  ASSUME NEW rows \in SUBSET Feedback, NEW top \in EarliestOf(rows, PendingLimit)
  PROVE  /\ top \subseteq rows /\ Cardinality(top) <= PendingLimit
         /\ \A f \in rows \ top : /\ Cardinality(top) = PendingLimit
                                  /\ \A g \in top : submitted[g] <= submitted[f]
<1>1. PendingLimit \in Nat
  BY FeedbackAssumption
<1>2. CASE Cardinality(rows) <= PendingLimit
  <2>1. top = rows
    BY <1>2 DEF EarliestOf
  <2>. QED
    BY <1>2, <2>1
<1>3. CASE ~(Cardinality(rows) <= PendingLimit)
  <2>1. /\ top \subseteq rows /\ Cardinality(top) = PendingLimit
        /\ \A f \in top, g \in rows \ top : submitted[f] <= submitted[g]
    BY <1>3 DEF EarliestOf
  <2>. QED
    BY <1>1, <2>1
<1>. QED
  BY <1>2, <1>3

LEMMA FReview ==
  ASSUME FileInv, CountedInv, [FeedbackNext]_feedbackVars
  PROVE  CountedInv'
<1>1. /\ submitted' \in [Feedback -> Moments \cup {0}]
      /\ \A f \in Feedback : rating[f] # "none" => rating'[f] = rating[f] /\ submitted'[f] = submitted[f]
      /\ Converted \subseteq Converted'
  BY FMonotone DEF CountedInv
<1>2. \A t : Down \cap Since(t) \subseteq Down' \cap Since(t)'
  BY <1>1 DEF Down, Since
<1>3. ASSUME NEW t \in Moments, CountRatings(t) PROVE CountedInv'
  <2>1. PICK rows \in LatestOf(Since(t), ReviewLimit) :
          review' = [NoReview EXCEPT !.stage = "counted", !.since = t,
                                     !.down = rows \cap Down, !.done = rows \cap Down \cap Converted]
    BY <1>3 DEF CountRatings
  <2>2. rows \subseteq Since(t)
    BY DEF LatestOf
  <2>3. Down \subseteq Feedback
    BY DEF Down
  <2>4. /\ review'.stage = "counted" /\ review'.since = t
        /\ review'.down \subseteq Down \cap Since(t) /\ review'.done \subseteq Converted
        /\ review' \in [stage : {"none", "counted", "told"}, since : Moments \cup {0},
                        down : SUBSET Feedback, done : SUBSET Feedback, pending : SUBSET Feedback]
    BY <2>1, <2>2, <2>3 DEF NoReview
  <2>5. review'.down \subseteq Down' \cap Since(t)'
    BY <1>2, <2>4
  <2>. QED
    BY <1>1, <2>4, <2>5 DEF CountedInv, ReviewTells
<1>4. CASE ListPending
  <2> DEFINE P == (Down \ Converted) \cap Since(review.since)
  <2>1. PICK top \in EarliestOf(P, PendingLimit) :
          /\ UNCHANGED rowsVars /\ review.stage = "counted"
          /\ review' = [review EXCEPT !.stage = "told", !.pending = top]
    BY <1>4 DEF ListPending, Pending
  <2>2. /\ top \subseteq P /\ P \subseteq Feedback /\ Cardinality(top) <= PendingLimit
        /\ \A f \in P \ top : /\ Cardinality(top) = PendingLimit
                              /\ \A g \in top : submitted[g] <= submitted[f]
    BY EarliestIs DEF Down
  <2>3. /\ review'.stage = "told" /\ review'.since = review.since /\ review'.pending = top
        /\ review'.down = review.down /\ review'.done = review.done
        /\ review' \in [stage : {"none", "counted", "told"}, since : Moments \cup {0},
                        down : SUBSET Feedback, done : SUBSET Feedback, pending : SUBSET Feedback]
    BY <2>1, <2>2 DEF CountedInv
  <2>4. review.down \subseteq Down \cap Since(review.since) /\ review.done \subseteq Converted
    BY <2>1 DEF CountedInv
  <2>5. Down' = Down /\ Converted' = Converted /\ submitted' = submitted /\ \A t : Since(t)' = Since(t)
    BY <2>1 DEF rowsVars, Down, Converted, Since
  <2> HIDE DEF P
  <2>6. \A f \in review.down \ (review.done \cup top \cup Converted) : f \in P \ top
    BY <2>4 DEF P
  <2>7. top \subseteq Down \cap Since(review.since) /\ top \cap review.done = {}
    BY <2>2, <2>4 DEF P
  <2>8. Since(review.since)' = Since(review.since)
    BY <2>3, <2>5 DEF Since
  <2>9. ReviewTells'
    BY <2>2, <2>3, <2>5, <2>6, <2>7, <2>8 DEF ReviewTells
  <2>. QED
    BY <1>1, <2>3, <2>4, <2>5, <2>8, <2>9 DEF CountedInv
<1>5. CASE ReviewRead
  BY <1>1, <1>5 DEF ReviewRead, NoReview, CountedInv, ReviewTells
<1>6. CASE review' = review
  <2>1. review.stage # "none" => /\ review.down \subseteq Down' \cap Since(review.since)'
                                 /\ review.done \subseteq Converted'
    BY <1>1, <1>2, <1>6 DEF CountedInv, Since
  <2>2. ReviewTells'
    <3> SUFFICES ASSUME review.stage = "told" PROVE ReviewTells'
      BY <1>6 DEF ReviewTells
    <3>1. /\ review.pending \subseteq Down \cap Since(review.since)
          /\ review.down \subseteq Down /\ Down \subseteq Feedback
          /\ \A f \in Down : rating[f] # "none"
      BY DEF CountedInv, ReviewTells, Down
    <3>2. review.pending \subseteq Down' \cap Since(review.since)'
      BY <1>2, <1>6, <3>1 DEF Since
    <3>3. \A f \in Down : submitted'[f] = submitted[f]
      BY <1>1, <3>1
    <3>. QED
      BY <1>1, <1>6, <3>1, <3>2, <3>3 DEF CountedInv, ReviewTells
  <2>. QED
    BY <1>1, <1>6, <2>1, <2>2 DEF CountedInv
<1>. QED
  BY <1>3, <1>4, <1>5, <1>6 DEF FeedbackNext, RecordFeedback, Promotion, ReadCases, Choose, WriteCase,
     Promoted, KillPromotion, Scan, AppendCase, CommitConversion, FailConversion, feedbackVars

LEMMA FKeeps ==
  ASSUME \A p, q \in Promoters : p = q
  PROVE  FeedbackInit /\ [][FeedbackNext]_feedbackVars => []FeedbackKept
<1>1. FileInv /\ OnceInv /\ [FeedbackNext]_feedbackVars => FileInv' /\ OnceInv'
  BY FConversion, FPromotion, FReads DEF FeedbackNext
<1>2. FileInv /\ OnceInv => FeedbackKept
  BY DEF FileInv, OnceInv, Distinct, FeedbackKept, ScoredOnce
<1>. QED
  BY FInit, <1>1, <1>2, PTL

(* With one promotion at a time, whatever conversions do at once: nothing  *)
(* is scored twice, and what is scored was asked for by a thumbs-down.     *)
THEOREM FeedbackScored ==
  ASSUME \A p, q \in Promoters : p = q
  PROVE  FeedbackSpec => []FeedbackKept
  BY FKeeps, PTL DEF FeedbackSpec

(* Files and review, for a part that owes no fairness.                     *)
LEMMA FCounted == FeedbackInit /\ [][FeedbackNext]_feedbackVars => [](FileInv /\ CountedInv)
<1>1. FeedbackInit => FileInv /\ CountedInv
  BY FInit DEF FeedbackInit, CountedInv, NoReview, ReviewTells
<1>2. FileInv /\ CountedInv /\ [FeedbackNext]_feedbackVars => FileInv' /\ CountedInv'
  BY FConversion, FPromotion, FReads, FReview DEF FeedbackNext
<1>. QED
  BY <1>1, <1>2, PTL

LEMMA FReviewed == FeedbackInit /\ [][FeedbackNext]_feedbackVars => []ReviewTells
<1>1. FileInv /\ CountedInv => ReviewTells
  BY DEF CountedInv
<1>. QED
  BY FCounted, <1>1, PTL

(* The weekly review, whatever is rated and converted between its two      *)
(* statements and until it is read, and whatever its two limits are: no    *)
(* case is in it twice, and one that it counted and that is neither listed *)
(* nor converted gave way to a full list of older ones.                    *)
THEOREM ReviewKept == FeedbackSpec => []ReviewTells
  BY FReviewed, PTL DEF FeedbackSpec

LEMMA FTypes == FeedbackInit /\ [][FeedbackNext]_feedbackVars => []FeedbackTypeOK
<1>1. FileInv /\ CountedInv => FeedbackTypeOK
  <2>1. SomeFeedback = Feedback
    BY FeedbackAssumption DEF SomeFeedback
  <2>. QED
    BY <2>1 DEF FileInv, CountedInv, FeedbackTypeOK
<1>. QED
  BY FCounted, <1>1, PTL

(* Rows, files, conversions, promotions and the review keep their types.   *)
THEOREM FeedbackTypeCorrect == FeedbackSpec => []FeedbackTypeOK
  BY FTypes, PTL DEF FeedbackSpec

-----------------------------------------------------------------------------
(* Evidence reports: their invariant. *)

AnyBody == [findings : Nat, listed : SUBSET Nat, second : Nat]
NewReport    == [stage : {"new"}]
OpenedReport == [stage : {"open"}, home : Servers, created_at : Nat]
MadeReport   == [stage : {"inserting", "answered", "committed"}, home : Servers,
                 created_at : Nat, body : AnyBody, life : Nat, rendered : Nat]
LostReport   == [stage : {"failed"}, home : Servers]
                  \cup [stage : {"failed"}, home : Servers, body : AnyBody]

Under(c, stages) == reporting[c].stage \in stages
Made(c)  == Under(c, {"inserting", "answered", "committed"})
Began(c) == Under(c, {"open", "inserting", "answered", "committed"})

ReportRows ==
  /\ findings \in Nat /\ opened \in Nat /\ reportSecond \in Nat
  /\ DOMAIN objects = Servers /\ restarts \in [Servers -> Nat]
  /\ reporting \in [ReportCalls -> NewReport \cup OpenedReport \cup MadeReport \cup LostReport]

(* Transactions are numbered as they begin, and a report is rendered after *)
(* its own has begun.                                                      *)
OpenedInv ==
  /\ \A c \in ReportCalls : Began(c) => reporting[c].created_at <= opened
  /\ \A c, d \in ReportCalls :
       Began(c) /\ Began(d) /\ reporting[c].created_at = reporting[d].created_at => c = d
  /\ \A c \in ReportCalls : Made(c) => reporting[c].rendered <= opened

(* What was rendered before another transaction began shows no more than   *)
(* that one's report will.                                                 *)
RenderedInv ==
  /\ \A c \in ReportCalls : Made(c) => reporting[c].body.findings <= findings
  /\ \A c, d \in ReportCalls :
       Made(c) /\ Made(d) /\ reporting[c].rendered < reporting[d].created_at =>
         reporting[c].body.findings <= reporting[d].body.findings

(* The object of a report is there as long as its process, and what is     *)
(* there is of a report.                                                   *)
ObjectInv ==
  /\ \A c \in ReportCalls : Made(c) =>
       /\ reporting[c].life <= restarts[reporting[c].home]
       /\ reporting[c].life = restarts[reporting[c].home] =>
            reporting[c].body \in objects[reporting[c].home]
  /\ \A p \in Servers : \A b \in objects[p] :
       \E c \in ReportCalls : "body" \in DOMAIN reporting[c] /\ reporting[c].home = p /\ reporting[c].body = b

(* The committed rows are those of the calls that are through, and no two  *)
(* rows that are in the index have one body.                               *)
KeptInv ==
  /\ \A a : a \in artifacts <=> \E c \in ReportCalls : InStage(c, "committed") /\ a = reporting[c]
  /\ \A c, d \in ReportCalls :
       /\ Under(c, {"answered", "committed"}) /\ Under(d, {"answered", "committed"})
       /\ reporting[c].body = reporting[d].body
       => c = d

Fetched == [row : MadeReport, among : SUBSET MadeReport, by : Servers, life : Nat, found : BOOLEAN]
FetchInv == fetches \in Seq(Fetched) /\ LatestIsNewest

EInv == ReportRows /\ OpenedInv /\ RenderedInv /\ ObjectInv /\ KeptInv /\ FetchInv

-----------------------------------------------------------------------------
LEMMA EInit == ReportInit => EInv
<1> SUFFICES ASSUME ReportInit PROVE EInv
  OBVIOUS
<1>1. \A c \in ReportCalls : reporting[c] = [stage |-> "new"]
  BY DEF ReportInit
<1>2. ReportRows
  BY DEF ReportInit, ReportRows, NewReport
<1>3. \A c \in ReportCalls : reporting[c].stage = "new" /\ ~Made(c) /\ ~Began(c)
  <2>1. [stage |-> "new"].stage = "new"
    OBVIOUS
  <2>2. \A c \in ReportCalls : reporting[c].stage = "new"
    BY <1>1, <2>1, Zenon
  <2>. QED
    BY <2>2 DEF Made, Began, Under
<1>4. OpenedInv /\ RenderedInv
  BY <1>3 DEF OpenedInv, RenderedInv
<1>5. ObjectInv
  BY <1>3 DEF ObjectInv, ReportInit
<1>6. KeptInv
  BY <1>3 DEF KeptInv, ReportInit, InStage, Under
<1>7. FetchInv
  BY DEF FetchInv, LatestIsNewest, ReportInit
<1>. QED
  BY <1>2, <1>4, <1>5, <1>6, <1>7 DEF EInv

(* The record of a call has the fields of its stage. *)
LEMMA ReportIs ==
  ASSUME ReportRows, NEW c \in ReportCalls
  PROVE  /\ Under(c, {"new"})  => reporting[c] \in NewReport
         /\ Under(c, {"open"}) => reporting[c] \in OpenedReport
         /\ Made(c) => reporting[c] \in MadeReport /\ "body" \in DOMAIN reporting[c]
         /\ Under(c, {"failed"}) => reporting[c] \in LostReport
         /\ "body" \in DOMAIN reporting[c] => ~Under(c, {"new", "open"})
<1>1. reporting[c] \in NewReport \cup OpenedReport \cup MadeReport \cup LostReport
  BY DEF ReportRows
<1>2. CASE reporting[c] \in NewReport
  <2>1. reporting[c].stage = "new" /\ DOMAIN reporting[c] = {"stage"}
    BY <1>2 DEF NewReport
  <2>. QED
    BY <1>2, <2>1 DEF Under, Made
<1>3. CASE reporting[c] \in OpenedReport
  <2>1. reporting[c].stage = "open" /\ DOMAIN reporting[c] = {"stage", "home", "created_at"}
    BY <1>3 DEF OpenedReport
  <2>. QED
    BY <1>3, <2>1 DEF Under, Made
<1>4. CASE reporting[c] \in MadeReport
  <2>1. /\ reporting[c].stage \in {"inserting", "answered", "committed"}
        /\ "body" \in DOMAIN reporting[c]
    BY <1>4 DEF MadeReport
  <2>. QED
    BY <1>4, <2>1 DEF Under, Made
<1>5. CASE reporting[c] \in LostReport
  <2>1. reporting[c].stage = "failed"
    BY <1>5 DEF LostReport
  <2>. QED
    BY <1>5, <2>1 DEF Under, Made
<1>. QED
  BY <1>1, <1>2, <1>3, <1>4, <1>5

-----------------------------------------------------------------------------
(* Steps that open no transaction and render no report. *)

Like(c) ==
  /\ Began(c)' => Began(c) /\ reporting'[c].created_at = reporting[c].created_at
  /\ Made(c)' => /\ Made(c) /\ reporting'[c].rendered = reporting[c].rendered
                 /\ reporting'[c].body = reporting[c].body /\ reporting'[c].home = reporting[c].home
                 /\ reporting'[c].life = reporting[c].life

LEMMA ELike ==
  ASSUME ReportRows, OpenedInv, RenderedInv, opened' = opened,
         findings' \in Nat, findings <= findings', \A c \in ReportCalls : Like(c)
  PROVE  OpenedInv' /\ RenderedInv'
<1>1. OpenedInv'
  BY DEF OpenedInv, Like
<1>2. \A c \in ReportCalls : Made(c)' => Made(c) /\ reporting'[c].body = reporting[c].body
        /\ reporting'[c].rendered = reporting[c].rendered /\ reporting'[c].created_at = reporting[c].created_at
  <2>1. \A c \in ReportCalls : Made(c)' => Began(c)'
    BY DEF Made, Began, Under
  <2>. QED
    BY <2>1 DEF Like
<1>3. \A c \in ReportCalls : Made(c) => reporting[c].body.findings \in Nat
  <2> SUFFICES ASSUME NEW c \in ReportCalls, Made(c) PROVE reporting[c].body.findings \in Nat
    OBVIOUS
  <2>1. reporting[c].body \in AnyBody
    BY ReportIs DEF MadeReport
  <2>. QED
    BY <2>1 DEF AnyBody
<1>4. \A c \in ReportCalls : Made(c)' => reporting'[c].body.findings <= findings'
  <2> SUFFICES ASSUME NEW c \in ReportCalls, Made(c)' PROVE reporting'[c].body.findings <= findings'
    OBVIOUS
  <2>1. reporting[c].body.findings \in Nat /\ reporting[c].body.findings <= findings
    BY <1>2, <1>3 DEF RenderedInv
  <2>2. reporting'[c].body = reporting[c].body /\ findings \in Nat
    BY <1>2 DEF ReportRows
  <2>. QED
    BY <2>1, <2>2
<1>5. \A c, d \in ReportCalls :
        Made(c)' /\ Made(d)' /\ reporting'[c].rendered < reporting'[d].created_at =>
          reporting'[c].body.findings <= reporting'[d].body.findings
  BY <1>2 DEF RenderedInv
<1>. QED
  BY <1>1, <1>4, <1>5 DEF RenderedInv

(* ... and that restart no process. *)
LEMMA EObjects ==
  ASSUME ReportRows, ObjectInv, objects' = objects, restarts' = restarts,
         \A c \in ReportCalls : Like(c),
         \A c \in ReportCalls : "body" \in DOMAIN reporting[c] =>
           /\ "body" \in DOMAIN reporting'[c]
           /\ reporting'[c].home = reporting[c].home /\ reporting'[c].body = reporting[c].body
  PROVE  ObjectInv'
<1>1. \A c \in ReportCalls : Made(c)' =>
        /\ reporting'[c].life <= restarts'[reporting'[c].home]
        /\ reporting'[c].life = restarts'[reporting'[c].home] =>
             reporting'[c].body \in objects'[reporting'[c].home]
  BY DEF ObjectInv, Like
<1>2. \A p \in Servers : \A b \in objects'[p] :
        \E c \in ReportCalls : "body" \in DOMAIN reporting'[c] /\ reporting'[c].home = p /\ reporting'[c].body = b
  <2> SUFFICES ASSUME NEW p \in Servers, NEW b \in objects[p]
               PROVE  \E c \in ReportCalls : /\ "body" \in DOMAIN reporting'[c]
                                             /\ reporting'[c].home = p /\ reporting'[c].body = b
    OBVIOUS
  <2>1. PICK c \in ReportCalls : "body" \in DOMAIN reporting[c] /\ reporting[c].home = p /\ reporting[c].body = b
    BY DEF ObjectInv
  <2>. QED
    BY <2>1
<1>. QED
  BY <1>1, <1>2 DEF ObjectInv

(* What the index has does not grow, and no row is committed. *)
LEMMA EIndex ==
  ASSUME ReportRows, KeptInv, artifacts' = artifacts,
         \A c \in ReportCalls : InStage(c, "committed")' <=> InStage(c, "committed"),
         \A c \in ReportCalls : InStage(c, "committed") => reporting'[c] = reporting[c],
         \A c \in ReportCalls : Under(c, {"answered", "committed"})' =>
           Under(c, {"answered", "committed"}) /\ reporting'[c].body = reporting[c].body
  PROVE  KeptInv'
<1>1. \A a : a \in artifacts' <=> \E c \in ReportCalls : InStage(c, "committed")' /\ a = reporting'[c]
  BY DEF KeptInv
<1>2. \A c, d \in ReportCalls :
        /\ Under(c, {"answered", "committed"})' /\ Under(d, {"answered", "committed"})'
        /\ reporting'[c].body = reporting'[d].body
        => c = d
  BY DEF KeptInv
<1>. QED
  BY <1>1, <1>2 DEF KeptInv

LEMMA EFetches == ASSUME FetchInv, fetches' = fetches PROVE FetchInv'
  BY DEF FetchInv, LatestIsNewest

LEMMA EClassified == ASSUME EInv, Classified PROVE EInv'
<1>1. /\ reporting' = reporting /\ opened' = opened /\ findings' = findings + 1 /\ objects' = objects
      /\ restarts' = restarts /\ artifacts' = artifacts /\ fetches' = fetches
      /\ reportSecond' = reportSecond /\ ReportRows
  BY DEF Classified, EInv
<1>2. ReportRows'
  BY <1>1 DEF ReportRows
<1>3. \A c \in ReportCalls : Like(c)
  BY <1>1 DEF Like, Began, Made, Under
<1>4. findings \in Nat
  BY <1>1 DEF ReportRows
<1>5. OpenedInv' /\ RenderedInv'
  BY <1>1, <1>3, <1>4, ELike DEF EInv
<1>6. ObjectInv'
  BY <1>1, <1>3, EObjects DEF EInv
<1>7. KeptInv'
  BY <1>1 DEF EInv, KeptInv, Under, InStage
<1>. QED
  BY <1>1, <1>2, <1>5, <1>6, <1>7, EFetches DEF EInv

LEMMA EOpen ==
  ASSUME EInv, NEW c \in ReportCalls, NEW p \in Servers, OpenReport(c, p)
  PROVE  EInv'
<1> DEFINE r == [stage |-> "open", home |-> p, created_at |-> opened + 1]
<1>1. /\ reporting[c].stage = "new" /\ opened' = opened + 1 /\ reporting' = [reporting EXCEPT ![c] = r]
      /\ findings' = findings /\ objects' = objects /\ restarts' = restarts /\ artifacts' = artifacts
      /\ fetches' = fetches /\ reportSecond' = reportSecond /\ ReportRows /\ opened \in Nat
  BY DEF OpenReport, EInv, InStage, ReportRows
<1>2. r \in OpenedReport /\ r.stage = "open" /\ r.created_at = opened + 1
  BY <1>1 DEF OpenedReport
<1>3. /\ reporting'[c] = r /\ \A d \in ReportCalls \ {c} : reporting'[d] = reporting[d]
      /\ reporting' \in [ReportCalls -> NewReport \cup OpenedReport \cup MadeReport \cup LostReport]
  BY <1>1, <1>2 DEF ReportRows
<1> HIDE DEF r
<1>4. ReportRows'
  BY <1>1, <1>3 DEF ReportRows
<1>5. /\ ~Made(c)' /\ Began(c)' /\ ~Made(c) /\ "body" \notin DOMAIN reporting[c]
      /\ \A d \in ReportCalls \ {c} : (Made(d)' <=> Made(d)) /\ (Began(d)' <=> Began(d))
      /\ \A d \in ReportCalls : Made(d)' => Made(d) /\ d # c
  BY <1>1, <1>2, <1>3, ReportIs DEF Made, Began, Under
<1>6. OpenedInv'
  <2>1. \A d \in ReportCalls : Began(d)' => d = c \/ (Began(d) /\ reporting[d].created_at \in Nat)
    BY <1>1, <1>5, ReportIs DEF Began, Made, Under, OpenedReport, MadeReport
  <2>2. \A d \in ReportCalls : Made(d) => reporting[d].rendered \in Nat
    BY <1>1, ReportIs DEF MadeReport
  <2>. QED
    BY <1>1, <1>2, <1>3, <1>5, <2>1, <2>2 DEF EInv, OpenedInv
<1>7. RenderedInv'
  BY <1>1, <1>3, <1>5 DEF EInv, RenderedInv
<1>8. ObjectInv'
  <2>1. \A d \in ReportCalls : "body" \in DOMAIN reporting[d] => d # c
    BY <1>5
  <2>2. \A d \in ReportCalls : Made(d)' =>
          /\ reporting'[d].life <= restarts'[reporting'[d].home]
          /\ reporting'[d].life = restarts'[reporting'[d].home] =>
               reporting'[d].body \in objects'[reporting'[d].home]
    BY <1>1, <1>3, <1>5 DEF EInv, ObjectInv
  <2>3. ASSUME NEW q \in Servers, NEW b \in objects[q]
        PROVE  \E d \in ReportCalls : /\ "body" \in DOMAIN reporting'[d]
                                      /\ reporting'[d].home = q /\ reporting'[d].body = b
    <3>1. PICK d \in ReportCalls : "body" \in DOMAIN reporting[d] /\ reporting[d].home = q /\ reporting[d].body = b
      BY DEF EInv, ObjectInv
    <3>. QED
      BY <1>3, <2>1, <3>1
  <2>. QED
    BY <1>1, <2>2, <2>3 DEF ObjectInv
<1>9. KeptInv'
  <2>1. \A d \in ReportCalls :
          /\ InStage(d, "committed")' <=> InStage(d, "committed")
          /\ InStage(d, "committed") => reporting'[d] = reporting[d]
          /\ Under(d, {"answered", "committed"})' =>
               Under(d, {"answered", "committed"}) /\ reporting'[d].body = reporting[d].body
    BY <1>1, <1>2, <1>3 DEF InStage, Under
  <2>. QED
    BY <1>1, <2>1, EIndex DEF EInv
<1>. QED
  BY <1>1, <1>4, <1>6, <1>7, <1>8, <1>9, EFetches DEF EInv

LEMMA EGenerate ==
  ASSUME EInv, NEW c \in ReportCalls, NEW second \in reportSecond..LastSecond, Generate(c, second)
  PROVE  EInv'
<1> DEFINE body == build_context(second)
           home == reporting[c].home
           r == [stage |-> "inserting", home |-> home, created_at |-> reporting[c].created_at,
                 body |-> body, life |-> restarts[home], rendered |-> opened]
<1>1. /\ reporting[c].stage = "open" /\ opened' = opened /\ reporting' = [reporting EXCEPT ![c] = r]
      /\ objects' = [objects EXCEPT ![home] = @ \cup {body}]
      /\ findings' = findings /\ restarts' = restarts /\ artifacts' = artifacts
      /\ fetches' = fetches /\ reportSecond' = second /\ ReportRows
      /\ opened \in Nat /\ findings \in Nat /\ second \in Nat
  BY ReportAssumption DEF Generate, EInv, InStage, ReportRows
<1>2. home \in Servers /\ reporting[c].created_at \in Nat /\ Began(c) /\ "body" \notin DOMAIN reporting[c]
  BY <1>1, ReportIs DEF OpenedReport, Under, Began
<1>3. \A a \in artifacts : a.created_at \in Nat
  <2> SUFFICES ASSUME NEW a \in artifacts PROVE a.created_at \in Nat
    OBVIOUS
  <2>1. PICK d \in ReportCalls : InStage(d, "committed") /\ a = reporting[d]
    BY DEF EInv, KeptInv
  <2>. QED
    BY <1>1, <2>1, ReportIs DEF InStage, Made, Under, MadeReport
<1>4. body \in AnyBody /\ body.findings = findings
  BY <1>1, <1>3 DEF build_context, AnyBody
<1> HIDE DEF body
<1>5. /\ r \in MadeReport /\ r.stage = "inserting" /\ r.home = home /\ r.created_at = reporting[c].created_at
      /\ r.body = body /\ r.life = restarts[home] /\ r.rendered = opened /\ "body" \in DOMAIN r
  BY <1>1, <1>2, <1>4 DEF MadeReport, ReportRows
<1> HIDE DEF r
<1>6. /\ reporting'[c] = r /\ \A d \in ReportCalls \ {c} : reporting'[d] = reporting[d]
      /\ reporting' \in [ReportCalls -> NewReport \cup OpenedReport \cup MadeReport \cup LostReport]
  BY <1>1, <1>5 DEF ReportRows
<1>7. /\ objects'[home] = objects[home] \cup {body} /\ DOMAIN objects' = Servers
      /\ \A q \in Servers \ {home} : objects'[q] = objects[q]
  BY <1>1, <1>2 DEF ReportRows
<1> HIDE DEF home
<1>8. ReportRows'
  BY <1>1, <1>6, <1>7 DEF ReportRows
<1>9. /\ Made(c)' /\ Began(c)' /\ ~Made(c)
      /\ \A d \in ReportCalls \ {c} : (Made(d)' <=> Made(d)) /\ (Began(d)' <=> Began(d))
  BY <1>1, <1>5, <1>6 DEF Made, Began, Under
<1>10. \A d \in ReportCalls : Made(d) =>
         /\ reporting[d].rendered \in Nat /\ reporting[d].created_at \in Nat /\ Began(d)
         /\ reporting[d].body.findings \in Nat /\ reporting[d].home \in Servers
  BY <1>1, ReportIs DEF MadeReport, AnyBody, Made, Began, Under
<1>11. OpenedInv'
  BY <1>1, <1>2, <1>5, <1>6, <1>9 DEF EInv, OpenedInv
<1>12. RenderedInv'
  <2>1. \A d \in ReportCalls : Made(d)' => reporting'[d].body.findings <= findings'
    BY <1>1, <1>4, <1>5, <1>6, <1>9 DEF EInv, RenderedInv
  <2>2. ASSUME NEW d \in ReportCalls, NEW e \in ReportCalls, Made(d)', Made(e)',
               reporting'[d].rendered < reporting'[e].created_at
        PROVE  reporting'[d].body.findings <= reporting'[e].body.findings
    <3>1. CASE e = c
      BY <1>1, <1>4, <1>5, <1>6, <2>1, <2>2, <3>1
    <3>2. CASE e # c /\ d = c
      <4>1. reporting[e].created_at <= opened /\ reporting[e].created_at \in Nat
        BY <1>9, <1>10, <2>2, <3>2 DEF EInv, OpenedInv
      <4>. QED
        BY <1>1, <1>5, <1>6, <2>2, <3>2, <4>1
    <3>3. CASE e # c /\ d # c
      BY <1>6, <1>9, <2>2, <3>3 DEF EInv, RenderedInv
    <3>. QED
      BY <3>1, <3>2, <3>3
  <2>. QED
    BY <2>1, <2>2 DEF RenderedInv
<1>13. ObjectInv'
  <2>1. ASSUME NEW d \in ReportCalls, Made(d)'
        PROVE  /\ reporting'[d].life <= restarts'[reporting'[d].home]
               /\ reporting'[d].life = restarts'[reporting'[d].home] =>
                    reporting'[d].body \in objects'[reporting'[d].home]
    <3>1. CASE d = c
      BY <1>1, <1>2, <1>5, <1>6, <1>7, <3>1 DEF ReportRows
    <3>2. CASE d # c
      <4>1. Made(d) /\ reporting'[d] = reporting[d] /\ reporting[d].home \in Servers
        BY <1>6, <1>9, <1>10, <2>1, <3>2
      <4>2. objects[reporting[d].home] \subseteq objects'[reporting[d].home]
        BY <1>7, <4>1
      <4>. QED
        BY <1>1, <4>1, <4>2 DEF EInv, ObjectInv
    <3>. QED
      BY <3>1, <3>2
  <2>2. ASSUME NEW q \in Servers, NEW b \in objects'[q]
        PROVE  \E d \in ReportCalls : /\ "body" \in DOMAIN reporting'[d]
                                      /\ reporting'[d].home = q /\ reporting'[d].body = b
    <3>1. CASE q = home /\ b = body
      BY <1>5, <1>6, <3>1
    <3>2. CASE b \in objects[q]
      <4>1. PICK d \in ReportCalls : "body" \in DOMAIN reporting[d] /\ reporting[d].home = q /\ reporting[d].body = b
        BY <3>2 DEF EInv, ObjectInv
      <4>. QED
        BY <1>2, <1>6, <4>1
    <3>. QED
      BY <1>7, <2>2, <3>1, <3>2
  <2>. QED
    BY <2>1, <2>2 DEF ObjectInv
<1>14. KeptInv'
  <2>1. \A d \in ReportCalls :
          /\ InStage(d, "committed")' <=> InStage(d, "committed")
          /\ InStage(d, "committed") => reporting'[d] = reporting[d]
          /\ Under(d, {"answered", "committed"})' =>
               Under(d, {"answered", "committed"}) /\ reporting'[d].body = reporting[d].body
    BY <1>1, <1>5, <1>6 DEF InStage, Under
  <2>. QED
    BY <1>1, <2>1, EIndex DEF EInv
<1>. QED
  BY <1>1, <1>8, <1>11, <1>12, <1>13, <1>14, EFetches DEF EInv

(* A report goes from one stage to the next with all it has. *)
LEMMA EStage ==
  ASSUME ReportRows, NEW c \in ReportCalls, Made(c), NEW st \in {"answered", "committed"},
         reporting' = [reporting EXCEPT ![c].stage = st]
  PROVE  /\ reporting' \in [ReportCalls -> NewReport \cup OpenedReport \cup MadeReport \cup LostReport]
         /\ reporting'[c] \in MadeReport /\ reporting'[c].stage = st
         /\ \A d \in ReportCalls \ {c} : reporting'[d] = reporting[d]
         /\ \A d \in ReportCalls : Like(d)
         /\ \A d \in ReportCalls : "body" \in DOMAIN reporting[d] =>
              /\ "body" \in DOMAIN reporting'[d]
              /\ reporting'[d].home = reporting[d].home /\ reporting'[d].body = reporting[d].body
<1> DEFINE r == [reporting[c] EXCEPT !.stage = st]
<1>1. reporting[c] \in MadeReport /\ Began(c)
  BY ReportIs DEF Made, Began, Under
<1>2. /\ r \in MadeReport /\ r.stage = st /\ r.home = reporting[c].home /\ "body" \in DOMAIN r
      /\ r.created_at = reporting[c].created_at /\ r.body = reporting[c].body
      /\ r.life = reporting[c].life /\ r.rendered = reporting[c].rendered
  BY <1>1 DEF MadeReport
<1>3. /\ reporting'[c] = r /\ \A d \in ReportCalls \ {c} : reporting'[d] = reporting[d]
      /\ reporting' \in [ReportCalls -> NewReport \cup OpenedReport \cup MadeReport \cup LostReport]
  BY <1>2 DEF ReportRows
<1> HIDE DEF r
<1>4. \A d \in ReportCalls : Like(d)
  BY <1>1, <1>2, <1>3 DEF Like, Made, Began, Under
<1>. QED
  BY <1>2, <1>3, <1>4

LEMMA EInserted == ASSUME EInv, NEW c \in ReportCalls, RowInserted(c) PROVE EInv'
<1>1. /\ reporting[c].stage = "inserting" /\ reporting' = [reporting EXCEPT ![c].stage = "answered"]
      /\ Made(c) /\ findings \in Nat
      /\ findings' = findings /\ opened' = opened /\ objects' = objects /\ restarts' = restarts
      /\ artifacts' = artifacts /\ fetches' = fetches /\ reportSecond' = reportSecond /\ ReportRows
  BY DEF RowInserted, EInv, InStage, ReportRows, Made, Under
<1>2. /\ reporting' \in [ReportCalls -> NewReport \cup OpenedReport \cup MadeReport \cup LostReport]
      /\ reporting'[c] \in MadeReport /\ reporting'[c].stage = "answered"
      /\ \A d \in ReportCalls \ {c} : reporting'[d] = reporting[d]
      /\ \A d \in ReportCalls : Like(d)
      /\ \A d \in ReportCalls : "body" \in DOMAIN reporting[d] =>
           /\ "body" \in DOMAIN reporting'[d]
           /\ reporting'[d].home = reporting[d].home /\ reporting'[d].body = reporting[d].body
  BY <1>1, EStage
<1>3. ReportRows'
  BY <1>1, <1>2 DEF ReportRows
<1>4. OpenedInv' /\ RenderedInv'
  BY <1>1, <1>2, ELike DEF EInv
<1>5. ObjectInv'
  BY <1>1, <1>2, EObjects DEF EInv
<1>6. KeptInv'
  <2>1. reporting'[c].body = reporting[c].body
    BY <1>1, <1>2, ReportIs
  <2>2. \A d \in ReportCalls : Under(d, {"answered", "committed"}) => reporting[d].body # reporting[c].body
    BY DEF RowInserted, InStage, SameBytes, EInv, KeptInv, Under
  <2>3. \A d \in ReportCalls \ {c} : Under(d, {"answered", "committed"})' <=> Under(d, {"answered", "committed"})
    BY <1>2 DEF Under
  <2>4. \A d, e \in ReportCalls :
          /\ Under(d, {"answered", "committed"})' /\ Under(e, {"answered", "committed"})'
          /\ reporting'[d].body = reporting'[e].body
          => d = e
    BY <1>2, <2>1, <2>2, <2>3 DEF EInv, KeptInv
  <2>5. \A d \in ReportCalls : /\ InStage(d, "committed")' <=> InStage(d, "committed")
                               /\ InStage(d, "committed") => reporting'[d] = reporting[d]
    BY <1>1, <1>2 DEF InStage
  <2>6. \A a : a \in artifacts' <=> \E d \in ReportCalls : InStage(d, "committed")' /\ a = reporting'[d]
    BY <1>1, <2>5 DEF EInv, KeptInv
  <2>. QED
    BY <2>4, <2>6 DEF KeptInv
<1>. QED
  BY <1>1, <1>3, <1>4, <1>5, <1>6, EFetches DEF EInv

LEMMA ECommit == ASSUME EInv, NEW c \in ReportCalls, CommitReport(c) PROVE EInv'
<1>1. /\ reporting[c].stage = "answered" /\ reporting' = [reporting EXCEPT ![c].stage = "committed"]
      /\ Made(c) /\ findings \in Nat
      /\ findings' = findings /\ opened' = opened /\ objects' = objects /\ restarts' = restarts
      /\ artifacts' = artifacts \cup {reporting'[c]}
      /\ fetches' = fetches /\ reportSecond' = reportSecond /\ ReportRows
  BY DEF CommitReport, EInv, InStage, ReportRows, Made, Under
<1>2. /\ reporting' \in [ReportCalls -> NewReport \cup OpenedReport \cup MadeReport \cup LostReport]
      /\ reporting'[c] \in MadeReport /\ reporting'[c].stage = "committed"
      /\ \A d \in ReportCalls \ {c} : reporting'[d] = reporting[d]
      /\ \A d \in ReportCalls : Like(d)
      /\ \A d \in ReportCalls : "body" \in DOMAIN reporting[d] =>
           /\ "body" \in DOMAIN reporting'[d]
           /\ reporting'[d].home = reporting[d].home /\ reporting'[d].body = reporting[d].body
  BY <1>1, EStage
<1>3. ReportRows'
  BY <1>1, <1>2 DEF ReportRows
<1>4. OpenedInv' /\ RenderedInv'
  BY <1>1, <1>2, ELike DEF EInv
<1>5. ObjectInv'
  BY <1>1, <1>2, EObjects DEF EInv
<1>6. KeptInv'
  <2>1. reporting'[c].body = reporting[c].body /\ Under(c, {"answered", "committed"})
    BY <1>1, <1>2, ReportIs DEF Under
  <2>2. \A d \in ReportCalls \ {c} : Under(d, {"answered", "committed"})' <=> Under(d, {"answered", "committed"})
    BY <1>2 DEF Under
  <2>3. \A d, e \in ReportCalls :
          /\ Under(d, {"answered", "committed"})' /\ Under(e, {"answered", "committed"})'
          /\ reporting'[d].body = reporting'[e].body
          => d = e
    BY <1>2, <2>1, <2>2 DEF EInv, KeptInv
  <2>4. /\ InStage(c, "committed")' /\ ~InStage(c, "committed")
        /\ \A d \in ReportCalls \ {c} : InStage(d, "committed")' <=> InStage(d, "committed")
    BY <1>1, <1>2 DEF InStage
  <2>5. ASSUME NEW a PROVE a \in artifacts' <=> \E d \in ReportCalls : InStage(d, "committed")' /\ a = reporting'[d]
    <3>1. a \in artifacts <=> \E d \in ReportCalls : InStage(d, "committed") /\ a = reporting[d]
      BY DEF EInv, KeptInv
    <3>. QED
      BY <1>1, <1>2, <2>4, <3>1
  <2>. QED
    BY <2>3, <2>5 DEF KeptInv
<1>. QED
  BY <1>1, <1>3, <1>4, <1>5, <1>6, EFetches DEF EInv

LEMMA EFail ==
  ASSUME EInv, NEW c \in ReportCalls, Under(c, {"inserting", "answered"}), FailReport(c)
  PROVE  EInv'
<1> DEFINE r == [stage |-> "failed", home |-> reporting[c].home, body |-> reporting[c].body]
<1>1. /\ reporting' = [reporting EXCEPT ![c] = r] /\ Made(c) /\ reporting[c] \in MadeReport /\ findings \in Nat
      /\ findings' = findings /\ opened' = opened /\ objects' = objects /\ restarts' = restarts
      /\ artifacts' = artifacts /\ fetches' = fetches /\ reportSecond' = reportSecond /\ ReportRows
  BY ReportIs DEF FailReport, EInv, ReportRows, Made, Under
<1>2. /\ r \in LostReport /\ r.stage = "failed" /\ r.home = reporting[c].home /\ r.body = reporting[c].body
      /\ "body" \in DOMAIN r
  BY <1>1 DEF LostReport, MadeReport
<1>3. /\ reporting'[c] = r /\ \A d \in ReportCalls \ {c} : reporting'[d] = reporting[d]
      /\ reporting' \in [ReportCalls -> NewReport \cup OpenedReport \cup MadeReport \cup LostReport]
  BY <1>1, <1>2 DEF ReportRows
<1> HIDE DEF r
<1>4. \A d \in ReportCalls : Like(d)
  BY <1>2, <1>3 DEF Like, Made, Began, Under
<1>5. ReportRows'
  BY <1>1, <1>3 DEF ReportRows
<1>6. OpenedInv' /\ RenderedInv'
  BY <1>1, <1>4, ELike DEF EInv
<1>7. ObjectInv'
  BY <1>1, <1>2, <1>3, <1>4, EObjects DEF EInv
<1>8. KeptInv'
  <2>1. \A d \in ReportCalls :
          /\ InStage(d, "committed")' <=> InStage(d, "committed")
          /\ InStage(d, "committed") => reporting'[d] = reporting[d]
          /\ Under(d, {"answered", "committed"})' =>
               Under(d, {"answered", "committed"}) /\ reporting'[d].body = reporting[d].body
    BY <1>2, <1>3 DEF InStage, Under
  <2>. QED
    BY <1>1, <2>1, EIndex DEF EInv
<1>. QED
  BY <1>1, <1>5, <1>6, <1>7, <1>8, EFetches DEF EInv

(* A restart takes the store of the process and all its calls that are not *)
(* through.                                                                *)
LEMMA ERestart == ASSUME EInv, NEW p \in Servers, Restart(p) PROVE EInv'
<1> DEFINE Hit(d) == reporting[d].stage \in {"open", "inserting", "answered", "failed"} /\ reporting[d].home = p
           ended == [stage |-> "failed", home |-> p]
<1>1. /\ findings' = findings /\ opened' = opened /\ artifacts' = artifacts /\ fetches' = fetches
      /\ reportSecond' = reportSecond /\ ReportRows /\ findings \in Nat
      /\ objects' = [objects EXCEPT ![p] = {}] /\ restarts' = [restarts EXCEPT ![p] = @ + 1]
      /\ reporting' = [d \in ReportCalls |-> IF Hit(d) THEN ended ELSE reporting[d]]
  BY DEF Restart, EInv, ReportRows
<1>2. /\ restarts' \in [Servers -> Nat] /\ restarts[p] \in Nat /\ restarts'[p] = restarts[p] + 1
      /\ DOMAIN objects' = Servers /\ objects'[p] = {}
      /\ \A q \in Servers \ {p} : restarts'[q] = restarts[q] /\ objects'[q] = objects[q]
  BY <1>1 DEF ReportRows
<1>3. ended \in LostReport /\ ended.stage = "failed"
  BY DEF LostReport
<1>4. \A d \in ReportCalls : IF Hit(d) THEN reporting'[d] = ended ELSE reporting'[d] = reporting[d]
  BY <1>1
<1>5. reporting' \in [ReportCalls -> NewReport \cup OpenedReport \cup MadeReport \cup LostReport]
  BY <1>1, <1>3 DEF ReportRows
<1> HIDE DEF ended
<1>6. \A d \in ReportCalls : Like(d)
  BY <1>3, <1>4 DEF Like, Made, Began, Under
<1>7. ReportRows'
  BY <1>1, <1>2, <1>5 DEF ReportRows
<1>8. OpenedInv' /\ RenderedInv'
  BY <1>1, <1>6, ELike DEF EInv
<1>9. ObjectInv'
  <2>1. ASSUME NEW d \in ReportCalls, Made(d)'
        PROVE  /\ reporting'[d].life <= restarts'[reporting'[d].home]
               /\ reporting'[d].life = restarts'[reporting'[d].home] =>
                    reporting'[d].body \in objects'[reporting'[d].home]
    <3>1. /\ Made(d) /\ reporting'[d].home = reporting[d].home /\ reporting'[d].life = reporting[d].life
          /\ reporting'[d].body = reporting[d].body
      BY <1>6, <2>1 DEF Like
    <3>2. reporting[d].home \in Servers /\ reporting[d].life \in Nat
      BY <1>1, <3>1, ReportIs DEF MadeReport
    <3>3. reporting[d].life <= restarts[reporting[d].home]
      BY <3>1 DEF EInv, ObjectInv
    <3>4. CASE reporting[d].home = p
      BY <1>2, <3>1, <3>2, <3>3, <3>4
    <3>5. CASE reporting[d].home # p
      BY <1>2, <3>1, <3>2, <3>5 DEF EInv, ObjectInv
    <3>. QED
      BY <3>4, <3>5
  <2>2. ASSUME NEW q \in Servers, NEW b \in objects'[q]
        PROVE  \E d \in ReportCalls : /\ "body" \in DOMAIN reporting'[d]
                                      /\ reporting'[d].home = q /\ reporting'[d].body = b
    <3>1. q # p /\ b \in objects[q]
      BY <1>2, <2>2
    <3>2. PICK d \in ReportCalls : "body" \in DOMAIN reporting[d] /\ reporting[d].home = q /\ reporting[d].body = b
      BY <3>1 DEF EInv, ObjectInv
    <3>. QED
      BY <1>4, <3>1, <3>2
  <2>. QED
    BY <2>1, <2>2 DEF ObjectInv
<1>10. KeptInv'
  <2>1. \A d \in ReportCalls :
          /\ InStage(d, "committed")' <=> InStage(d, "committed")
          /\ InStage(d, "committed") => reporting'[d] = reporting[d]
          /\ Under(d, {"answered", "committed"})' =>
               Under(d, {"answered", "committed"}) /\ reporting'[d].body = reporting[d].body
    BY <1>3, <1>4 DEF InStage, Under
  <2>. QED
    BY <1>1, <2>1, EIndex DEF EInv
<1>. QED
  BY <1>1, <1>7, <1>8, <1>9, <1>10, EFetches DEF EInv

-----------------------------------------------------------------------------
(* The latest row. *)

(* Of the numbers in S one is the least.                                   *)
LEMMA SomeLeast ==
  ASSUME NEW S \in SUBSET Nat, S # {}
  PROVE  \E x \in S : \A y \in S : x <= y
<1>1. PICK m \in S : \A y \in S : ~(<<y, m>> \in OpToRel(<, Nat))
  BY NatLessThanWellFounded, WFMin
<1>2. \A y \in S : m <= y
  <2> SUFFICES ASSUME NEW y \in S PROVE m <= y
    OBVIOUS
  <2>1. y \in Nat /\ m \in Nat
    OBVIOUS
  <2>2. y < m => <<y, m>> \in OpToRel(<, Nat)
    <3> SUFFICES ASSUME y < m PROVE <<y, m>> \in OpToRel(<, Nat)
      OBVIOUS
    <3>1. <<y, m>> \in Nat \X Nat
      BY <2>1
    <3>. QED
      BY <3>1 DEF OpToRel
  <2>3. ~(y < m)
    BY <1>1, <2>2, Zenon
  <2>. QED
    BY <2>1, <2>3
<1>. QED
  BY <1>2

LEMMA NewestIs ==
  ASSUME NEW A, A # {}, \A a \in A : a.created_at \in Nat /\ a.created_at <= opened, opened \in Nat
  PROVE  \E a \in A : \A b \in A : b.created_at <= a.created_at
<1> DEFINE S == {opened - a.created_at : a \in A}
<1>1. S \in SUBSET Nat /\ S # {}
  OBVIOUS
<1>2. PICK m \in S : \A x \in S : m <= x
  <2> HIDE DEF S
  <2>. QED
    BY <1>1, SomeLeast
<1>3. PICK a \in A : m = opened - a.created_at
  BY <1>2
<1>4. ASSUME NEW b \in A PROVE b.created_at <= a.created_at
  <2>1. m <= opened - b.created_at
    BY <1>2
  <2>. QED
    BY <1>3, <2>1
<1>. QED
  BY <1>4

LEMMA EFetch == ASSUME EInv, NEW p \in Servers, fetch_latest(p) PROVE EInv'
<1> DEFINE row == latest_for_run
           f == [row |-> row, among |-> artifacts, by |-> p, life |-> restarts[p],
                 found |-> get_bytes(p, latest_for_run)]
<1>1. /\ findings' = findings /\ opened' = opened /\ objects' = objects /\ restarts' = restarts
      /\ artifacts' = artifacts /\ reporting' = reporting /\ reportSecond' = reportSecond
      /\ artifacts # {} /\ fetches' = Append(fetches, f) /\ opened \in Nat /\ ReportRows
  BY DEF fetch_latest, EInv, ReportRows
<1>2. ASSUME NEW a \in artifacts
      PROVE  \E c \in ReportCalls : InStage(c, "committed") /\ Made(c) /\ Began(c) /\ a = reporting[c]
                                    /\ a \in MadeReport
  BY <1>1, ReportIs DEF EInv, KeptInv, InStage, Made, Began, Under
<1>3. \A a \in artifacts : a.created_at \in Nat /\ a.created_at <= opened
  <2> SUFFICES ASSUME NEW a \in artifacts PROVE a.created_at \in Nat /\ a.created_at <= opened
    OBVIOUS
  <2>. QED
    BY <1>2 DEF MadeReport, EInv, OpenedInv
<1>4. row \in artifacts /\ \A b \in artifacts : b.created_at <= row.created_at
  <2>1. \E a \in artifacts : \A b \in artifacts : b.created_at <= a.created_at
    BY <1>1, <1>3, NewestIs
  <2>. QED
    BY <2>1 DEF latest_for_run
<1>5. PICK c \in ReportCalls : Made(c) /\ Began(c) /\ row = reporting[c] /\ row \in MadeReport
  BY <1>2, <1>4
<1>6. /\ f.row = row /\ f.among = artifacts /\ f.by = p /\ f.life = restarts[p]
      /\ f.found = (row.body \in objects[p])
  BY DEF get_bytes
<1> HIDE DEF row, f
<1>7. ASSUME NEW a \in artifacts, a.body.findings > row.body.findings
      PROVE  a.created_at < row.created_at /\ row.created_at <= a.rendered
  <2>1. PICK d \in ReportCalls : Made(d) /\ Began(d) /\ a = reporting[d] /\ a \in MadeReport
    BY <1>2
  <2>2. /\ a.created_at \in Nat /\ row.created_at \in Nat /\ a.rendered \in Nat
        /\ a.body.findings \in Nat /\ row.body.findings \in Nat
    BY <1>5, <2>1 DEF MadeReport, AnyBody
  <2>3. a.created_at <= row.created_at /\ c # d
    BY <1>4, <1>5, <1>7, <2>1, <2>2
  <2>4. a.created_at # row.created_at
    BY <1>5, <2>1, <2>3 DEF EInv, OpenedInv
  <2>5. ~(a.rendered < row.created_at)
    BY <1>5, <1>7, <2>1, <2>2 DEF EInv, RenderedInv
  <2>. QED
    BY <2>2, <2>3, <2>4, <2>5
<1>8. ~(row.body \in objects[p]) => p # row.home \/ restarts[p] > row.life
  <2>1. row.life \in Nat /\ row.home \in Servers /\ restarts[row.home] \in Nat
    BY <1>1, <1>5 DEF MadeReport, ReportRows
  <2>2. row.life <= restarts[row.home] /\ (row.life = restarts[row.home] => row.body \in objects[row.home])
    BY <1>5 DEF EInv, ObjectInv
  <2>. QED
    BY <2>1, <2>2
<1>9. FetchInv'
  <2>1. f \in Fetched
    <3>1. artifacts \subseteq MadeReport
      BY <1>2
    <3>2. restarts[p] \in Nat
      BY <1>1 DEF ReportRows
    <3>. QED
      BY <1>5, <3>1, <3>2 DEF f, get_bytes, row, Fetched
  <2>2. /\ fetches \in Seq(Fetched) /\ fetches' \in Seq(Fetched) /\ Len(fetches') = Len(fetches) + 1
        /\ \A n \in 1..Len(fetches) : fetches'[n] = fetches[n]
        /\ fetches'[Len(fetches) + 1] = f
    BY <1>1, <2>1, AppendProperties DEF EInv, FetchInv
  <2>3. DOMAIN fetches = 1..Len(fetches) /\ DOMAIN fetches' = 1..(Len(fetches) + 1) /\ Len(fetches) \in Nat
    BY <2>2, LenProperties
  <2>4. ASSUME NEW n \in DOMAIN fetches', n \notin DOMAIN fetches
        PROVE  fetches'[n] = f
    BY <2>2, <2>3, <2>4
  <2>5. ASSUME NEW n \in DOMAIN fetches', fetches'[n] = f
        PROVE  /\ \A a \in f.among : a.body.findings > f.row.body.findings =>
                    a.created_at < f.row.created_at /\ f.row.created_at <= a.rendered
               /\ ~f.found => f.by # f.row.home \/ f.life > f.row.life
    BY <1>6, <1>7, <1>8
  <2>6. LatestIsNewest'
    BY <2>2, <2>3, <2>4, <2>5 DEF EInv, FetchInv, LatestIsNewest
  <2>. QED
    BY <2>2, <2>6 DEF FetchInv
<1>10. ReportRows' /\ OpenedInv' /\ RenderedInv' /\ ObjectInv' /\ KeptInv'
  BY <1>1 DEF EInv, ReportRows, OpenedInv, RenderedInv, ObjectInv, KeptInv, Made, Began, Under, InStage
<1>. QED
  BY <1>9, <1>10 DEF EInv

LEMMA EStep == EInv /\ [ReportNext]_evidenceVars => EInv'
<1> SUFFICES ASSUME EInv, [ReportNext]_evidenceVars PROVE EInv'
  OBVIOUS
<1>1. CASE UNCHANGED evidenceVars
  BY <1>1 DEF evidenceVars, EInv, ReportRows, OpenedInv, RenderedInv, ObjectInv, KeptInv, FetchInv,
     LatestIsNewest, Made, Began, Under, InStage
<1>2. CASE Classified
  BY <1>2, EClassified
<1>3. ASSUME NEW c \in ReportCalls, NEW p \in Servers, OpenReport(c, p) PROVE EInv'
  BY <1>3, EOpen
<1>4. ASSUME NEW c \in ReportCalls, NEW second \in reportSecond..LastSecond, Generate(c, second) PROVE EInv'
  BY <1>4, EGenerate
<1>5. ASSUME NEW c \in ReportCalls, RowInserted(c) PROVE EInv'
  BY <1>5, EInserted
<1>6. ASSUME NEW c \in ReportCalls, InsertViolates(c) \/ CommitReportFails(c) PROVE EInv'
  BY <1>6, EFail DEF InsertViolates, CommitReportFails, InStage, Under
<1>7. ASSUME NEW c \in ReportCalls, CommitReport(c) PROVE EInv'
  BY <1>7, ECommit
<1>8. ASSUME NEW p \in Servers, fetch_latest(p) PROVE EInv'
  BY <1>8, EFetch
<1>9. ASSUME NEW p \in Servers, Restart(p) PROVE EInv'
  BY <1>9, ERestart
<1>. QED
  BY <1>1, <1>2, <1>3, <1>4, <1>5, <1>6, <1>7, <1>8, <1>9 DEF ReportNext

LEMMA EKept == EInv => ReportsKept
<1> SUFFICES ASSUME EInv PROVE ReportsKept
  OBVIOUS
<1>1. \A a \in artifacts : \E c \in ReportCalls :
        a = reporting[c] /\ Made(c) /\ Under(c, {"answered", "committed"})
  BY DEF EInv, KeptInv, InStage, Made, Under
<1>2. \A a \in artifacts : a.life = restarts[a.home] => a.body \in objects[a.home]
  BY <1>1 DEF EInv, ObjectInv
<1>3. \A a, b \in artifacts : a.body = b.body => a = b
  BY <1>1 DEF EInv, KeptInv
<1>. QED
  BY <1>2, <1>3 DEF EInv, ObjectInv, FetchInv, ObjectsBehindRows, ReportsKept

(* Evidence: a committed report has its object in the store of its process *)
(* until that restarts, no two rows are of the same bytes, and what is     *)
(* fetched as the newest report leaves out no failure that another report  *)
(* shows but one that was opened first and rendered later; for any number  *)
(* of calls in any processes, restarted any number of times.               *)
THEOREM ReportsBacked == ReportSpec => []ReportsKept
<1>1. ReportInit => EInv
  BY EInit
<1>2. EInv /\ [ReportNext]_evidenceVars => EInv'
  BY EStep
<1>3. EInv => ReportsKept
  BY EKept
<1>. QED
  BY <1>1, <1>2, <1>3, PTL DEF ReportSpec


-----------------------------------------------------------------------------
(* The types of the reports.                                               *)

(* Every rendered body is one that there may be, and the first transaction *)
(* is number 1.                                                            *)
Sane(c) ==
  /\ Began(c) => reporting[c].created_at >= 1
  /\ Made(c)  => reporting[c].body \in Body

BodyInv ==
  /\ findings \in 0..MaxFindings /\ reportSecond \in 0..LastSecond
  /\ \A p \in Servers : objects[p] \subseteq Body /\ restarts[p] \in 0..MaxRestarts
  /\ \A c \in ReportCalls : Sane(c)
  /\ Len(fetches) <= MaxFetches

LEMMA LikeSane ==
  ASSUME \A c \in ReportCalls : Sane(c), \A c \in ReportCalls : Like(c)
  PROVE  \A c \in ReportCalls : Sane(c)'
  BY DEF Sane, Like

(* Steps of a call that leave the stores alone and open nothing.           *)
LEMMA BodyStays ==
  ASSUME BodyInv, \A c \in ReportCalls : Like(c), objects' = objects, restarts' = restarts,
         findings' \in 0..MaxFindings, reportSecond' = reportSecond, fetches' = fetches
  PROVE  BodyInv'
<1>1. \A c \in ReportCalls : Sane(c)'
  BY LikeSane DEF BodyInv
<1>. QED
  BY <1>1 DEF BodyInv

LEMMA BodyOpen ==
  ASSUME EInv, BodyInv, NEW c \in ReportCalls, NEW p \in Servers, OpenReport(c, p)
  PROVE  BodyInv'
<1> DEFINE r == [stage |-> "open", home |-> p, created_at |-> opened + 1]
<1>1. /\ reporting' = [reporting EXCEPT ![c] = r] /\ DOMAIN reporting = ReportCalls /\ opened \in Nat
      /\ UNCHANGED <<findings, reportSecond, artifacts, objects, restarts, fetches>>
  BY DEF OpenReport, EInv, ReportRows
<1>2. r.stage = "open" /\ r.created_at >= 1
  BY <1>1
<1> HIDE DEF r
<1>3. reporting'[c] = r /\ \A d \in ReportCalls \ {c} : reporting'[d] = reporting[d]
  BY <1>1
<1>4. \A d \in ReportCalls : Sane(d)'
  BY <1>2, <1>3 DEF BodyInv, Sane, Began, Made, Under
<1>. QED
  BY <1>1, <1>4 DEF BodyInv

LEMMA BodyGenerate ==
  ASSUME EInv, BodyInv, NEW c \in ReportCalls, NEW second \in reportSecond..LastSecond, Generate(c, second)
  PROVE  BodyInv'
<1> DEFINE body == build_context(second)
           home == reporting[c].home
           r == [stage |-> "inserting", home |-> home, created_at |-> reporting[c].created_at,
                 body |-> body, life |-> restarts[home], rendered |-> opened]
<1>1. /\ objects' = [objects EXCEPT ![home] = @ \cup {body}] /\ DOMAIN objects = Servers
      /\ reporting' = [reporting EXCEPT ![c] = r] /\ DOMAIN reporting = ReportCalls
      /\ reportSecond' = second /\ Under(c, {"open"})
      /\ UNCHANGED <<findings, opened, artifacts, restarts, fetches>>
  BY DEF Generate, EInv, ReportRows, InStage, Under
<1>2. second \in 0..LastSecond
  BY ReportAssumption DEF BodyInv
<1>3. {a.created_at : a \in artifacts} \subseteq Nat
  <2> SUFFICES ASSUME NEW a \in artifacts PROVE a.created_at \in Nat
    OBVIOUS
  <2>1. PICK d \in ReportCalls : InStage(d, "committed") /\ a = reporting[d]
    BY DEF EInv, KeptInv
  <2>2. reporting[d] \in MadeReport
    BY <2>1, ReportIs DEF EInv, InStage, Made, Under
  <2>. QED
    BY <2>1, <2>2 DEF MadeReport
<1>4. body \in Body
  BY <1>2, <1>3 DEF build_context, Body, BodyInv
<1>5. Began(c) /\ reporting[c].created_at >= 1
  BY <1>1 DEF Began, Under, BodyInv, Sane
<1>6. r.stage = "inserting" /\ r.created_at >= 1 /\ r.body \in Body
  BY <1>4, <1>5
<1> HIDE DEF r, body, home
<1>7. reporting'[c] = r /\ \A d \in ReportCalls \ {c} : reporting'[d] = reporting[d]
  BY <1>1
<1>8. \A d \in ReportCalls : Sane(d)'
  BY <1>6, <1>7 DEF BodyInv, Sane, Began, Made, Under
<1>9. \A p \in Servers : objects'[p] \subseteq Body
  BY <1>1, <1>4 DEF BodyInv
<1>. QED
  BY <1>1, <1>2, <1>8, <1>9 DEF BodyInv

LEMMA BodyFail ==
  ASSUME EInv, BodyInv, NEW c \in ReportCalls, FailReport(c)
  PROVE  BodyInv'
<1> DEFINE r == [stage |-> "failed", home |-> reporting[c].home, body |-> reporting[c].body]
<1>1. /\ reporting' = [reporting EXCEPT ![c] = r] /\ DOMAIN reporting = ReportCalls
      /\ UNCHANGED <<findings, reportSecond, opened, artifacts, objects, restarts, fetches>>
  BY DEF FailReport, EInv, ReportRows
<1>2. r.stage = "failed"
  OBVIOUS
<1> HIDE DEF r
<1>3. \A d \in ReportCalls : Like(d)
  BY <1>1, <1>2 DEF Like, Made, Began, Under
<1>. QED
  BY <1>1, <1>3, BodyStays DEF BodyInv

LEMMA BodyRestart ==
  ASSUME EInv, BodyInv, NEW p \in Servers, Restart(p)
  PROVE  BodyInv'
<1>1. /\ restarts' = [restarts EXCEPT ![p] = @ + 1] /\ restarts \in [Servers -> Nat]
      /\ restarts[p] < MaxRestarts /\ MaxRestarts \in Nat
      /\ objects' = [objects EXCEPT ![p] = {}] /\ DOMAIN objects = Servers
      /\ UNCHANGED <<findings, reportSecond, opened, artifacts, fetches>>
  BY ReportAssumption DEF Restart, EInv, ReportRows
<1>2. ASSUME NEW d \in ReportCalls PROVE Like(d)
  <2> DEFINE r == [stage |-> "failed", home |-> p]
  <2>1. reporting'[d] = r \/ reporting'[d] = reporting[d]
    BY DEF Restart
  <2>2. r.stage = "failed"
    OBVIOUS
  <2> HIDE DEF r
  <2>. QED
    BY <2>1, <2>2 DEF Like, Made, Began, Under
<1>3. \A d \in ReportCalls : Sane(d)'
  BY <1>2, LikeSane DEF BodyInv
<1>4. \A s \in Servers : objects'[s] \subseteq Body /\ restarts'[s] \in 0..MaxRestarts
  BY <1>1 DEF BodyInv
<1>. QED
  BY <1>1, <1>3, <1>4 DEF BodyInv

LEMMA BodyStep == EInv /\ BodyInv /\ [ReportNext]_evidenceVars => BodyInv'
<1> SUFFICES ASSUME EInv, BodyInv, [ReportNext]_evidenceVars PROVE BodyInv'
  OBVIOUS
<1>1. CASE UNCHANGED evidenceVars
  BY <1>1 DEF evidenceVars, BodyInv, Sane, Began, Made, Under
<1>2. CASE Classified
  <2>1. \A c \in ReportCalls : Like(c)
    BY <1>2 DEF Classified, Like, Began, Made, Under
  <2>2. findings' \in 0..MaxFindings
    BY <1>2, ReportAssumption DEF Classified, BodyInv
  <2>. QED
    BY <1>2, <2>1, <2>2, BodyStays DEF Classified
<1>3. ASSUME NEW c \in ReportCalls, NEW p \in Servers, OpenReport(c, p) PROVE BodyInv'
  BY <1>3, BodyOpen
<1>4. ASSUME NEW c \in ReportCalls, NEW second \in reportSecond..LastSecond, Generate(c, second) PROVE BodyInv'
  BY <1>4, BodyGenerate
<1>5. ASSUME NEW c \in ReportCalls, RowInserted(c) PROVE BodyInv'
  <2>1. Made(c) /\ ReportRows /\ reporting' = [reporting EXCEPT ![c].stage = "answered"]
    BY <1>5 DEF RowInserted, EInv, InStage, Made, Under
  <2>2. \A d \in ReportCalls : Like(d)
    BY <2>1, EStage
  <2>. QED
    BY <1>5, <2>2, BodyStays DEF RowInserted, BodyInv
<1>6. ASSUME NEW c \in ReportCalls, InsertViolates(c) \/ CommitReportFails(c) PROVE BodyInv'
  BY <1>6, BodyFail DEF InsertViolates, CommitReportFails
<1>7. ASSUME NEW c \in ReportCalls, CommitReport(c) PROVE BodyInv'
  <2>1. Made(c) /\ ReportRows /\ reporting' = [reporting EXCEPT ![c].stage = "committed"]
    BY <1>7 DEF CommitReport, EInv, InStage, Made, Under
  <2>2. \A d \in ReportCalls : Like(d)
    BY <2>1, EStage
  <2>. QED
    BY <1>7, <2>2, BodyStays DEF CommitReport, BodyInv
<1>8. ASSUME NEW p \in Servers, fetch_latest(p) PROVE BodyInv'
  <2>1. \A c \in ReportCalls : Like(c)
    BY <1>8 DEF fetch_latest, Like, Began, Made, Under
  <2>2. Len(fetches') <= MaxFetches
    <3> DEFINE x == [row |-> latest_for_run, among |-> artifacts, by |-> p, life |-> restarts[p],
                     found |-> get_bytes(p, latest_for_run)]
    <3>1. Len(fetches) < MaxFetches /\ fetches' = Append(fetches, x) /\ fetches \in Seq(Fetched)
      BY <1>8 DEF fetch_latest, EInv, FetchInv
    <3> HIDE DEF x
    <3>2. Len(fetches) \in Nat /\ Len(fetches') = Len(fetches) + 1
      BY <3>1
    <3>. QED
      BY <3>1, <3>2, ReportAssumption
  <2>3. \A c \in ReportCalls : Sane(c)'
    BY <2>1, LikeSane DEF BodyInv
  <2>. QED
    BY <1>8, <2>2, <2>3 DEF fetch_latest, BodyInv
<1>9. ASSUME NEW p \in Servers, Restart(p) PROVE BodyInv'
  BY <1>9, BodyRestart
<1>. QED
  BY <1>1, <1>2, <1>3, <1>4, <1>5, <1>6, <1>7, <1>8, <1>9 DEF ReportNext

(* Rows, objects and calls keep their types and bounds.                    *)
THEOREM ReportTypeCorrect == ReportSpec => []ReportTypeOK
<1>1. ReportInit => EInv /\ BodyInv
  <2> SUFFICES ASSUME ReportInit PROVE BodyInv
    BY EInit
  <2>1. \A c \in ReportCalls : reporting[c].stage = "new"
    BY DEF ReportInit
  <2>2. \A c \in ReportCalls : Sane(c)
    BY <2>1 DEF Sane, Began, Made, Under
  <2>3. Len(fetches) <= MaxFetches
    BY ReportAssumption DEF ReportInit
  <2>. QED
    BY <2>2, <2>3, ReportAssumption DEF ReportInit, BodyInv
<1>2. EInv /\ BodyInv => ReportTypeOK
  <2> SUFFICES ASSUME EInv, BodyInv PROVE ReportTypeOK
    OBVIOUS
  <2>1. ASSUME NEW c \in ReportCalls
        PROVE  reporting[c].stage \in {"new", "open", "inserting", "answered", "failed", "committed"}
    <3>1. reporting[c] \in NewReport \cup OpenedReport \cup MadeReport \cup LostReport
      BY DEF EInv, ReportRows
    <3>. QED
      BY <3>1 DEF NewReport, OpenedReport, MadeReport, LostReport
  <2>2. ASSUME NEW a \in artifacts PROVE a.body \in Body /\ a.created_at \in 1..opened
    <3>1. PICK c \in ReportCalls : InStage(c, "committed") /\ a = reporting[c]
      BY DEF EInv, KeptInv
    <3>2. Made(c) /\ Began(c)
      BY <3>1 DEF InStage, Made, Began, Under
    <3>3. reporting[c].created_at \in Nat /\ opened \in Nat
      BY <3>2, ReportIs DEF EInv, ReportRows, MadeReport
    <3>. QED
      BY <3>1, <3>2, <3>3 DEF BodyInv, Sane, EInv, OpenedInv
  <2>. QED
    BY <2>1, <2>2 DEF ReportTypeOK, BodyInv
<1>3. EInv /\ BodyInv /\ [ReportNext]_evidenceVars => EInv' /\ BodyInv'
  BY EStep, BodyStep
<1>. QED
  BY <1>1, <1>2, <1>3, PTL DEF ReportSpec
=============================================================================
