--------------------------- MODULE ServicesProofs ---------------------------
(***************************************************************************)
(* The services of MCServices: the model calls and their budget, the tool  *)
(* runs, the calls of start() and the circuit breaker.  Each has an        *)
(* inductive invariant of its own; with that of the feedback they make up  *)
(* the type invariant of the composition.                                  *)
(***************************************************************************)
EXTENDS MCServices, FilesProofs

-----------------------------------------------------------------------------
(* The least of the candidates that are left. *)

LEMMA MinIs ==
  ASSUME NEW S \in SUBSET Nat, S # {}
  PROVE  Min(S) \in S /\ \A x \in S : Min(S) <= x
<1>1. \E x \in S : \A y \in S : x <= y
  BY SomeLeast
<1>. QED
  BY <1>1, Zenon DEF Min

(* One attempt more is the bound of the attempts as long as there is one.  *)
LEMMA NextTry ==
  ASSUME NEW n \in 0..MaxAttempts
  PROVE  Min({n + 1, MaxAttempts + 1}) = n + 1
<1>1. /\ MaxAttempts \in Nat /\ n + 1 <= MaxAttempts + 1 /\ n + 1 \in Nat
      /\ {n + 1, MaxAttempts + 1} \in SUBSET Nat /\ {n + 1, MaxAttempts + 1} # {}
  BY GatewayAssumption
<1>2. \A m \in {n + 1, MaxAttempts + 1} : Min({n + 1, MaxAttempts + 1}) <= m
  BY <1>1, MinIs
<1>3. Min({n + 1, MaxAttempts + 1}) \in {n + 1, MaxAttempts + 1}
  BY <1>1, MinIs
<1>4. Min({n + 1, MaxAttempts + 1}) <= n + 1
  BY <1>2
<1>. QED
  BY <1>1, <1>3, <1>4

-----------------------------------------------------------------------------
(* The model calls: their invariant. *)

(* A call that waits has the provider's n-th answer to come, has not tried *)
(* what is behind its candidate, and is done with what is ahead of it.     *)
FailoverInv ==
  /\ \A c \in Calls : outcome[c] = "ready" => /\ refused[c] = {}
                                            /\ tries[c] = [k \in Candidates |-> 0]
  /\ \A c \in Waiting :
       /\ candidate[c] \in Configured /\ attempts[c] \in 1..MaxAttempts
       /\ tries[c][candidate[c]] = attempts[c]
       /\ \A k \in Candidates : k > candidate[c] => tries[c][k] = 0
       /\ \A k \in Configured : k < candidate[c] => Exhausted(c, k)
  /\ FailsOver

(* Where calls do not overlap, at most one waits, and what it read is what *)
(* the enforcer still says.                                                *)
BudgetInv ==
  /\ ~overlap => /\ \A c, d \in Waiting : c = d
                 /\ \A c \in Waiting : running[c] = running_total
  /\ BudgetKept

Charged == {"ok", "over", "invalid"}

RecordInv ==
  /\ \A c \in lost : outcome[c] \in Charged
  /\ RecordedOnce

LInv == LlmTypeOK /\ FailoverInv /\ BudgetInv /\ RecordInv

-----------------------------------------------------------------------------
LEMMA LInit == LlmInit => LInv
<1> SUFFICES ASSUME LlmInit PROVE LInv
  OBVIOUS
<1> USE GatewayAssumption DEF LlmInit
<1>1. LlmTypeOK
  <2>1. /\ candidate \in [Calls -> 0..K] /\ attempts \in [Calls -> 0..MaxAttempts]
        /\ running \in [Calls -> Nat] /\ running_total \in Nat
    OBVIOUS
  <2>2. /\ added \in [Calls -> Nat] /\ rows \in [Calls -> Nat] /\ paid \in [Ended -> Nat]
        /\ outcome \in [Calls -> {"ready", "waiting"} \cup Ended]
    OBVIOUS
  <2>3. tries \in [Calls -> [Candidates -> Nat]] /\ refused \in [Calls -> SUBSET Configured]
    OBVIOUS
  <2>. QED
    BY <2>1, <2>2, <2>3 DEF LlmTypeOK
<1>2. FailoverInv
  BY DEF FailoverInv, FailsOver, Waiting
<1>3. BudgetInv
  <2>1. Waiting = {}
    BY DEF Waiting
  <2>2. paid["ok"] = 0 /\ paid["over"] = 0
    BY DEF Ended
  <2>. QED
    BY <2>1, <2>2 DEF BudgetInv, BudgetKept
<1>4. RecordInv
  BY DEF RecordInv, RecordedOnce, Copies
<1>. QED
  BY <1>1, <1>2, <1>3, <1>4 DEF LInv

(* A request to a candidate: the one it is at again, or the next.          *)
LEMMA LDispatch ==
  ASSUME LlmTypeOK, FailoverInv, NEW c \in Calls, NEW k \in Configured, NEW n \in 1..MaxAttempts,
         Dispatch(c, k, n), tries[c][k] = n - 1,
         refused' \in [Calls -> SUBSET Configured], \A d \in Calls : refused[d] \subseteq refused'[d],
         \A d \in Calls : d # c => refused'[d] = refused[d],
         \A j \in Candidates : j > k => tries[c][j] = 0,
         \A j \in Configured : j < k => j \in refused'[c] \/ tries[c][j] = MaxAttempts,
         \A j \in Candidates : tries[c][j] > 0 =>
           j \in Configured /\ \A i \in Configured : i < j => i \in refused'[c] \/ tries[c][i] = MaxAttempts
  PROVE  FailoverInv'
<1> USE GatewayAssumption
<1>1. /\ candidate' = [candidate EXCEPT ![c] = k] /\ attempts' = [attempts EXCEPT ![c] = n]
      /\ outcome' = [outcome EXCEPT ![c] = "waiting"]
      /\ tries' = [tries EXCEPT ![c][k] = n]
  <2>1. n - 1 \in 0..MaxAttempts /\ (n - 1) + 1 = n
    OBVIOUS
  <2>2. Min({(n - 1) + 1, MaxAttempts + 1}) = (n - 1) + 1
    BY <2>1, NextTry
  <2>3. Min({tries[c][k] + 1, MaxAttempts + 1}) = n
    BY <2>1, <2>2
  <2>. QED
    BY <2>3 DEF Dispatch
<1>2. /\ tries \in [Calls -> [Candidates -> Nat]] /\ k \in Candidates /\ Configured \subseteq Candidates
      /\ candidate \in [Calls -> 0..K] /\ attempts \in [Calls -> 0..MaxAttempts]
      /\ outcome \in [Calls -> {"ready", "waiting"} \cup Ended]
  BY DEF LlmTypeOK, Candidates
<1>3. /\ tries'[c][k] = n /\ \A j \in Candidates : j # k => tries'[c][j] = tries[c][j]
      /\ \A d \in Calls : d # c => tries'[d] = tries[d]
  BY <1>1, <1>2
<1>4. /\ outcome'[c] = "waiting" /\ candidate'[c] = k /\ attempts'[c] = n
      /\ \A d \in Calls : d # c => /\ outcome'[d] = outcome[d] /\ candidate'[d] = candidate[d]
                                  /\ attempts'[d] = attempts[d]
  BY <1>1, <1>2
<1>5. \A d \in Calls, j \in Configured : d # c /\ Exhausted(d, j) => Exhausted(d, j)'
  BY <1>3 DEF Exhausted
<1>6. \A j \in Configured : j # k /\ (j \in refused'[c] \/ tries[c][j] = MaxAttempts) => Exhausted(c, j)'
  BY <1>2, <1>3 DEF Exhausted
<1>7. FailsOver'
  <2>1. ASSUME NEW d \in Calls, d # c
        PROVE  /\ outcome'[d] = "unavailable" => \A j \in Configured : Exhausted(d, j)'
               /\ \A j \in Candidates :
                    /\ tries'[d][j] <= MaxAttempts
                    /\ tries'[d][j] > 0 => /\ j \in Configured
                                           /\ \A i \in Configured : i < j => Exhausted(d, i)'
    BY <1>3, <1>4, <1>5, <2>1 DEF FailoverInv, FailsOver
  <2>2. \A j \in Candidates :
          /\ tries'[c][j] <= MaxAttempts
          /\ tries'[c][j] > 0 => /\ j \in Configured
                                 /\ \A i \in Configured : i < j => Exhausted(c, i)'
    <3> SUFFICES ASSUME NEW j \in Candidates
                 PROVE  /\ tries'[c][j] <= MaxAttempts
                        /\ tries'[c][j] > 0 => /\ j \in Configured
                                               /\ \A i \in Configured : i < j => Exhausted(c, i)'
      OBVIOUS
    <3>1. CASE j = k
      BY <1>2, <1>3, <1>6, <3>1 DEF Candidates
    <3>2. CASE j # k
      <4>1. tries'[c][j] = tries[c][j] /\ tries[c][j] <= MaxAttempts /\ tries[c][j] \in Nat
        BY <1>2, <1>3, <3>2 DEF FailoverInv, FailsOver
      <4>2. ASSUME tries'[c][j] > 0
            PROVE  j \in Configured /\ \A i \in Configured : i < j => Exhausted(c, i)'
        <5>1. j \in Configured /\ ~(j > k)
          BY <4>1, <4>2
        <5>2. \A i \in Configured : i < j => i # k
          BY <3>2, <5>1
        <5>. QED
          BY <1>6, <4>1, <4>2, <5>1, <5>2
      <4>. QED
        BY <4>1, <4>2
    <3>. QED
      BY <3>1, <3>2
  <2>. QED
    BY <1>4, <2>1, <2>2 DEF FailsOver
<1>8. \A d \in Waiting' :
        /\ candidate'[d] \in Configured /\ attempts'[d] \in 1..MaxAttempts
        /\ tries'[d][candidate'[d]] = attempts'[d]
        /\ \A j \in Candidates : j > candidate'[d] => tries'[d][j] = 0
        /\ \A j \in Configured : j < candidate'[d] => Exhausted(d, j)'
  <2> SUFFICES ASSUME NEW d \in Waiting'
               PROVE  /\ candidate'[d] \in Configured /\ attempts'[d] \in 1..MaxAttempts
                      /\ tries'[d][candidate'[d]] = attempts'[d]
                      /\ \A j \in Candidates : j > candidate'[d] => tries'[d][j] = 0
                      /\ \A j \in Configured : j < candidate'[d] => Exhausted(d, j)'
    OBVIOUS
  <2>1. CASE d = c
    <3>1. \A j \in Candidates : j > k => tries'[c][j] = 0
      BY <1>2, <1>3
    <3>2. \A j \in Configured : j < k => Exhausted(c, j)'
      BY <1>6
    <3>. QED
      BY <1>3, <1>4, <2>1, <3>1, <3>2
  <2>2. CASE d # c
    <3>1. d \in Waiting
      BY <1>4, <2>2 DEF Waiting
    <3>. QED
      BY <1>3, <1>4, <1>5, <2>2, <3>1 DEF FailoverInv, Waiting
  <2>. QED
    BY <2>1, <2>2
<1>9. \A d \in Calls : outcome'[d] = "ready" => refused'[d] = {} /\ tries'[d] = [j \in Candidates |-> 0]
  BY <1>3, <1>4 DEF FailoverInv
<1>. QED
  BY <1>7, <1>8, <1>9 DEF FailoverInv

(* What follows a candidate that is given up, or the start of the call.    *)
LEMMA LTryAfter ==
  ASSUME LlmTypeOK, FailoverInv, NEW c \in Calls, NEW k \in 0..K, TryAfter(c, k),
         refused' \in [Calls -> SUBSET Configured], \A d \in Calls : refused[d] \subseteq refused'[d],
         \A d \in Calls : d # c => refused'[d] = refused[d],
         \A j \in Candidates : j > k => tries[c][j] = 0,
         \A j \in Configured : j <= k => j \in refused'[c] \/ tries[c][j] = MaxAttempts
  PROVE  FailoverInv'
<1> USE GatewayAssumption
<1>1. /\ tries \in [Calls -> [Candidates -> Nat]] /\ Configured \subseteq Candidates
      /\ Configured \subseteq Nat /\ Candidates \subseteq Nat /\ k \in Nat
      /\ outcome \in [Calls -> {"ready", "waiting"} \cup Ended]
  <2>1. Configured \subseteq Candidates /\ Candidates \subseteq Nat /\ k \in Nat
    BY DEF Candidates
  <2>2. /\ tries \in [Calls -> [Candidates -> Nat]]
        /\ outcome \in [Calls -> {"ready", "waiting"} \cup Ended]
    BY DEF LlmTypeOK
  <2>. QED
    BY <2>1, <2>2
<1>2. \A j \in Candidates : tries[c][j] > 0 => j \in Configured /\ j <= k
  BY <1>1 DEF FailoverInv, FailsOver
<1>3. CASE Later(k) # {}
  <2> DEFINE m == Min(Later(k))
  <2>1. m \in Later(k) /\ \A j \in Later(k) : m <= j
    <3>1. Later(k) \in SUBSET Nat
      BY <1>1 DEF Later
    <3>. QED
      BY <1>3, <3>1, MinIs
  <2>2. Dispatch(c, m, 1)
    BY <1>3 DEF TryAfter
  <2> HIDE DEF m
  <2>3. m \in Configured /\ m > k /\ \A j \in Configured : j < m => j <= k
    <3>1. m \in Configured /\ m > k
      BY <2>1 DEF Later
    <3>2. ASSUME NEW j \in Configured, j < m PROVE j <= k
      <4>1. j > k => j \in Later(k)
        BY DEF Later
      <4>. QED
        BY <1>1, <2>1, <3>1, <3>2, <4>1
    <3>. QED
      BY <3>1, <3>2
  <2>4. /\ tries[c][m] = 1 - 1 /\ 1 \in 1..MaxAttempts
        /\ \A j \in Candidates : j > m => tries[c][j] = 0
    <3>1. m \in Candidates /\ m > k /\ m \in Nat
      BY <1>1, <2>3
    <3>2. tries[c][m] = 0
      BY <3>1
    <3>3. ASSUME NEW j \in Candidates, j > m PROVE tries[c][j] = 0
      <4>1. j \in Nat /\ j > k
        BY <1>1, <3>1, <3>3
      <4>. QED
        BY <4>1
    <3>4. 1 \in 1..MaxAttempts
      OBVIOUS
    <3>. QED
      BY <3>2, <3>3, <3>4
  <2>5. \A j \in Configured : j < m => j \in refused'[c] \/ tries[c][j] = MaxAttempts
    BY <2>3
  <2>6. \A j \in Candidates : tries[c][j] > 0 =>
          j \in Configured /\ \A i \in Configured : i < j => i \in refused'[c] \/ tries[c][i] = MaxAttempts
    <3> SUFFICES ASSUME NEW j \in Candidates, tries[c][j] > 0
                 PROVE  j \in Configured /\ \A i \in Configured : i < j => i \in refused'[c] \/ tries[c][i] = MaxAttempts
      OBVIOUS
    <3>1. j \in Configured /\ j <= k
      BY <1>2
    <3>2. \A i \in Configured : i < j => i <= k
      BY <1>1, <3>1
    <3>. QED
      BY <3>1, <3>2
  <2>. QED
    BY <2>2, <2>3, <2>4, <2>5, <2>6, LDispatch
<1>4. CASE Later(k) = {}
  <2>1. /\ outcome' = [outcome EXCEPT ![c] = "unavailable"]
        /\ candidate' = candidate /\ attempts' = attempts /\ tries' = tries
    BY <1>4 DEF TryAfter
  <2>2. \A j \in Configured : Exhausted(c, j)'
    <3>1. \A j \in Configured : j <= k
      <4> SUFFICES ASSUME NEW j \in Configured PROVE j <= k
        OBVIOUS
      <4>9. j > k => j \in Later(k)
        BY DEF Later
      <4>1. ~(j > k)
        BY <1>4, <4>9
      <4>2. j \in Nat /\ k \in Nat
        BY <1>1
      <4>. QED
        BY <4>1, <4>2
    <3>. QED
      BY <2>1, <3>1 DEF Exhausted
  <2>3. \A d \in Calls, j \in Configured : Exhausted(d, j) => Exhausted(d, j)'
    BY <2>1 DEF Exhausted
  <2>4. FailsOver'
    BY <1>1, <2>1, <2>2, <2>3 DEF FailoverInv, FailsOver
  <2>5. \A d \in Waiting' : d \in Waiting /\ d # c
    BY <1>1, <2>1 DEF Waiting
  <2>6. \A d \in Calls : outcome'[d] = "ready" => d # c /\ outcome[d] = "ready"
    BY <1>1, <2>1
  <2>7. \A d \in Waiting' :
          /\ candidate'[d] \in Configured /\ attempts'[d] \in 1..MaxAttempts
          /\ tries'[d][candidate'[d]] = attempts'[d]
          /\ \A j \in Candidates : j > candidate'[d] => tries'[d][j] = 0
          /\ \A j \in Configured : j < candidate'[d] => Exhausted(d, j)'
    <3> SUFFICES ASSUME NEW d \in Waiting'
                 PROVE  /\ candidate'[d] \in Configured /\ attempts'[d] \in 1..MaxAttempts
                        /\ tries'[d][candidate'[d]] = attempts'[d]
                        /\ \A j \in Candidates : j > candidate'[d] => tries'[d][j] = 0
                        /\ \A j \in Configured : j < candidate'[d] => Exhausted(d, j)'
      OBVIOUS
    <3>1. d \in Waiting /\ d \in Calls
      BY <2>5 DEF Waiting
    <3>. QED
      BY <2>1, <2>3, <3>1 DEF FailoverInv
  <2>8. \A d \in Calls : outcome'[d] = "ready" =>
          refused'[d] = {} /\ tries'[d] = [j \in Candidates |-> 0]
    BY <2>1, <2>6 DEF FailoverInv
  <2>. QED
    BY <2>4, <2>7, <2>8 DEF FailoverInv
<1>. QED
  BY <1>3, <1>4

(* Of the steps of a call, those that start or fail leave money and        *)
(* records alone.                                                          *)
LEMMA LTypes ==
  ASSUME LlmTypeOK, NEW c \in Calls, NEW k \in 0..K, TryAfter(c, k)
  PROVE  /\ outcome' \in [Calls -> {"ready", "waiting"} \cup Ended]
         /\ outcome'[c] \in {"waiting", "unavailable"} /\ \A d \in Calls : d # c => outcome'[d] = outcome[d]
         /\ candidate' \in [Calls -> 0..K] /\ attempts' \in [Calls -> 0..MaxAttempts]
         /\ tries' \in [Calls -> [Candidates -> Nat]]
<1> USE GatewayAssumption DEF LlmTypeOK
<1>1. CASE Later(k) # {}
  <2> DEFINE m == Min(Later(k))
  <2>1. m \in Configured /\ Dispatch(c, m, 1)
    <3>1. Later(k) \in SUBSET Nat
      <4>1. Configured \subseteq Nat
        OBVIOUS
      <4>. QED
        BY <4>1 DEF Later
    <3>2. m \in Later(k)
      BY <1>1, <3>1, MinIs
    <3>. QED
      BY <1>1, <3>2 DEF TryAfter, Later
  <2> HIDE DEF m
  <2>2. m \in 0..K /\ 1 \in 0..MaxAttempts /\ m \in Candidates
    BY <2>1 DEF Candidates
  <2>3. Min({tries[c][m] + 1, MaxAttempts + 1}) \in Nat
    <3>1. tries[c][m] \in Nat
      BY <2>2
    <3>2. {tries[c][m] + 1, MaxAttempts + 1} \in SUBSET Nat /\ {tries[c][m] + 1, MaxAttempts + 1} # {}
      BY <3>1
    <3>. QED
      BY <3>2, MinIs
  <2>. QED
    BY <2>1, <2>2, <2>3 DEF Dispatch
<1>2. CASE Later(k) = {}
  BY <1>2 DEF TryAfter, Ended
<1>. QED
  BY <1>1, <1>2
(* A step that ends a call otherwise, or no call.                          *)
LEMMA LQuiet ==
  ASSUME FailoverInv, UNCHANGED <<candidate, attempts, tries, refused>>,
         \A d \in Calls : outcome'[d] = outcome[d] \/ outcome'[d] \notin {"ready", "waiting", "unavailable"}
  PROVE  FailoverInv'
<1>1. \A d \in Calls, j \in Configured : Exhausted(d, j)' = Exhausted(d, j)
  BY DEF Exhausted
<1>2. FailsOver'
  BY <1>1 DEF FailoverInv, FailsOver
<1>3. \A d \in Calls : outcome'[d] = "ready" => refused'[d] = {} /\ tries'[d] = [j \in Candidates |-> 0]
  BY DEF FailoverInv
<1>4. \A d \in Waiting' :
        /\ candidate'[d] \in Configured /\ attempts'[d] \in 1..MaxAttempts
        /\ tries'[d][candidate'[d]] = attempts'[d]
        /\ \A j \in Candidates : j > candidate'[d] => tries'[d][j] = 0
        /\ \A j \in Configured : j < candidate'[d] => Exhausted(d, j)'
  <2> SUFFICES ASSUME NEW d \in Waiting'
               PROVE  /\ candidate'[d] \in Configured /\ attempts'[d] \in 1..MaxAttempts
                      /\ tries'[d][candidate'[d]] = attempts'[d]
                      /\ \A j \in Candidates : j > candidate'[d] => tries'[d][j] = 0
                      /\ \A j \in Configured : j < candidate'[d] => Exhausted(d, j)'
    OBVIOUS
  <2>1. d \in Waiting /\ d \in Calls
    BY DEF Waiting
  <2>. QED
    BY <1>1, <2>1 DEF FailoverInv
<1>. QED
  BY <1>2, <1>3, <1>4 DEF FailoverInv

LEMMA LStart ==
  ASSUME LInv, NEW c \in Calls, NEW est \in Estimates \cup {NoEstimate}, StartCall(c, est)
  PROVE  LInv'
<1> USE GatewayAssumption
<1>1. /\ outcome[c] = "ready" /\ running' = [running EXCEPT ![c] = running_total]
      /\ UNCHANGED <<running_total, records, added, rows, lost, paid, refused>>
  BY DEF StartCall, dbVars
<1>2. LlmTypeOK /\ FailoverInv /\ BudgetInv /\ RecordInv
  BY DEF LInv
<1>3. CASE TooDear(est)
  <2>1. /\ outcome' = [outcome EXCEPT ![c] = "blocked"]
        /\ UNCHANGED <<candidate, attempts, tries, overlap>>
    BY <1>3 DEF StartCall
  <2>2. LlmTypeOK'
    BY <1>1, <1>2, <2>1 DEF LlmTypeOK, Ended
  <2>3. /\ Waiting' = Waiting /\ c \notin Waiting /\ Waiting \subseteq Calls
        /\ \A d \in Calls : d # c => outcome'[d] = outcome[d] /\ running'[d] = running[d]
        /\ outcome'[c] = "blocked"
    BY <1>1, <1>2, <2>1 DEF LlmTypeOK, Waiting
  <2>5. FailoverInv'
    BY <1>1, <1>2, <2>1, <2>3, LQuiet
  <2>6. BudgetInv'
    BY <1>1, <1>2, <2>1, <2>3 DEF BudgetInv, BudgetKept
  <2>7. RecordInv'
    BY <1>1, <1>2, <2>3 DEF RecordInv, RecordedOnce, Copies, Charged, LlmTypeOK
  <2>. QED
    BY <2>2, <2>5, <2>6, <2>7 DEF LInv
<1>4. CASE ~TooDear(est)
  <2>1. TryAfter(c, 0) /\ overlap' = (overlap \/ Waiting # {})
    BY <1>4 DEF StartCall
  <2>2. 0 \in 0..K
    OBVIOUS
  <2>3. /\ outcome' \in [Calls -> {"ready", "waiting"} \cup Ended]
        /\ outcome'[c] \in {"waiting", "unavailable"} /\ \A d \in Calls : d # c => outcome'[d] = outcome[d]
        /\ candidate' \in [Calls -> 0..K] /\ attempts' \in [Calls -> 0..MaxAttempts]
        /\ tries' \in [Calls -> [Candidates -> Nat]]
    BY <1>2, <2>1, <2>2, LTypes
  <2>4. LlmTypeOK'
    BY <1>1, <1>2, <2>1, <2>3 DEF LlmTypeOK
  <2>5. FailoverInv'
    <3>1. refused' = refused /\ refused \in [Calls -> SUBSET Configured]
      BY <1>1, <1>2 DEF LlmTypeOK
    <3>2. \A j \in Candidates : tries[c][j] = 0
      BY <1>1, <1>2 DEF FailoverInv
    <3>3. \A j \in Configured : ~(j <= 0)
      OBVIOUS
    <3>. QED
      BY <1>2, <2>1, <2>2, <3>1, <3>2, <3>3, LTryAfter
  <2>6. BudgetInv'
    <3> SUFFICES ASSUME ~overlap'
                 PROVE  /\ \A d, e \in Waiting' : d = e
                        /\ \A d \in Waiting' : running'[d] = running_total
                        /\ BudgetKept'
      BY <1>1 DEF BudgetInv, BudgetKept
    <3>1. ~overlap /\ Waiting = {}
      BY <2>1
    <3>2. \A d \in Waiting' : d = c
      BY <2>3, <3>1 DEF Waiting
    <3>3. running'[c] = running_total
      BY <1>1, <1>2 DEF LlmTypeOK
    <3>. QED
      BY <1>1, <1>2, <3>1, <3>2, <3>3 DEF BudgetInv, BudgetKept
  <2>7. RecordInv'
    <3>1. /\ outcome'[c] \notin Charged /\ outcome[c] \notin Charged
          /\ \A d \in Calls : d # c => outcome'[d] = outcome[d]
      BY <1>1, <2>3 DEF Charged
    <3>. QED
      BY <1>1, <1>2, <3>1 DEF RecordInv, RecordedOnce, Copies, Charged, LlmTypeOK
  <2>. QED
    BY <2>4, <2>5, <2>6, <2>7 DEF LInv
<1>. QED
  BY <1>3, <1>4

LEMMA LFails ==
  ASSUME LInv, NEW c \in Calls, NEW transient \in BOOLEAN, ProviderFails(c, transient)
  PROVE  LInv'
<1> USE GatewayAssumption
<1> DEFINE k == candidate[c]
<1>1. /\ outcome[c] = "waiting"
      /\ refused' = IF transient THEN refused ELSE [refused EXCEPT ![c] = @ \cup {k}]
      /\ UNCHANGED <<running_total, running, records, added, rows, lost, paid, overlap>>
  BY DEF ProviderFails, dbVars
<1>2. LlmTypeOK /\ FailoverInv /\ BudgetInv /\ RecordInv
  BY DEF LInv
<1>3. /\ k \in Configured /\ attempts[c] \in 1..MaxAttempts /\ tries[c][k] = attempts[c]
      /\ \A j \in Candidates : j > k => tries[c][j] = 0
      /\ \A j \in Configured : j < k => Exhausted(c, j)
      /\ k \in 0..K /\ k \in Candidates /\ Configured \subseteq Candidates
      /\ \A j \in Candidates : tries[c][j] > 0 =>
           j \in Configured /\ \A i \in Configured : i < j => Exhausted(c, i)
  <2>1. /\ k \in Configured /\ attempts[c] \in 1..MaxAttempts /\ tries[c][k] = attempts[c]
        /\ \A j \in Candidates : j > k => tries[c][j] = 0
        /\ \A j \in Configured : j < k => Exhausted(c, j)
    <3>1. c \in Waiting
      BY <1>1 DEF Waiting
    <3>. QED
      BY <1>2, <3>1 DEF FailoverInv
  <2>2. k \in 0..K /\ k \in Candidates /\ Configured \subseteq Candidates
    <3>1. Configured \subseteq 1..K /\ K \in Nat
      OBVIOUS
    <3>2. k \in 1..K
      BY <2>1, <3>1
    <3>. QED
      BY <3>1, <3>2 DEF Candidates
  <2>3. \A j \in Candidates : tries[c][j] > 0 =>
          j \in Configured /\ \A i \in Configured : i < j => Exhausted(c, i)
    BY <1>2 DEF FailoverInv, FailsOver
  <2>. QED
    BY <2>1, <2>2, <2>3
<1>4. /\ refused' \in [Calls -> SUBSET Configured] /\ \A d \in Calls : refused[d] \subseteq refused'[d]
      /\ \A d \in Calls : d # c => refused'[d] = refused[d]
      /\ ~transient => k \in refused'[c]
  BY <1>1, <1>2, <1>3 DEF LlmTypeOK
<1> HIDE DEF k
<1>5. \A j \in Configured : Exhausted(c, j) => j \in refused'[c] \/ tries[c][j] = MaxAttempts
  BY <1>4 DEF Exhausted
<1>6. /\ FailoverInv'
      /\ outcome' \in [Calls -> {"ready", "waiting"} \cup Ended]
      /\ outcome'[c] \in {"waiting", "unavailable"} /\ \A d \in Calls : d # c => outcome'[d] = outcome[d]
      /\ candidate' \in [Calls -> 0..K] /\ attempts' \in [Calls -> 0..MaxAttempts]
      /\ tries' \in [Calls -> [Candidates -> Nat]]
  <2>1. CASE MayRetry(c, transient)
    <3> DEFINE n == attempts[c] + 1
    <3>1. Dispatch(c, k, n) /\ n \in 1..MaxAttempts /\ tries[c][k] = n - 1
      BY <1>3, <2>1 DEF ProviderFails, MayRetry, k
    <3> HIDE DEF n
    <3>2. FailoverInv'
      <4>1. \A j \in Configured : j < k => j \in refused'[c] \/ tries[c][j] = MaxAttempts
        BY <1>3, <1>5
      <4>2. \A j \in Candidates : tries[c][j] > 0 =>
              j \in Configured /\ \A i \in Configured : i < j => i \in refused'[c] \/ tries[c][i] = MaxAttempts
        BY <1>3, <1>5
      <4>. QED
        BY <1>2, <1>3, <1>4, <3>1, <4>1, <4>2, LDispatch
    <3>3. Min({tries[c][k] + 1, MaxAttempts + 1}) \in Nat
      <4>1. {tries[c][k] + 1, MaxAttempts + 1} \in SUBSET Nat /\ {tries[c][k] + 1, MaxAttempts + 1} # {}
        BY <1>3
      <4>. QED
        BY <4>1, MinIs
    <3>4. n \in 0..MaxAttempts
      BY <3>1
    <3>. QED
      BY <1>2, <1>3, <3>1, <3>2, <3>3, <3>4 DEF Dispatch, LlmTypeOK
  <2>2. CASE ~MayRetry(c, transient)
    <3>1. TryAfter(c, k)
      BY <2>2 DEF ProviderFails, k
    <3>2. transient => tries[c][k] = MaxAttempts
      BY <1>3, <2>2 DEF MayRetry
    <3>3. \A j \in Configured : j <= k => j \in refused'[c] \/ tries[c][j] = MaxAttempts
      <4> SUFFICES ASSUME NEW j \in Configured, j <= k PROVE j \in refused'[c] \/ tries[c][j] = MaxAttempts
        OBVIOUS
      <4>1. j < k \/ j = k
        <5>1. j \in Int /\ k \in Int
          BY <1>3 DEF Candidates
        <5>. QED
          BY <5>1
      <4>2. CASE j < k
        <5>1. Exhausted(c, j)
          BY <1>3, <4>2
        <5>. QED
          BY <1>5, <5>1
      <4>3. CASE j = k
        BY <1>4, <3>2, <4>3
      <4>. QED
        BY <4>1, <4>2, <4>3
    <3>4. FailoverInv'
      BY <1>2, <1>3, <1>4, <3>1, <3>3, LTryAfter
    <3>. QED
      BY <1>2, <1>3, <3>1, <3>4, LTypes
  <2>. QED
    BY <2>1, <2>2
<1>7. LlmTypeOK'
  BY <1>1, <1>2, <1>4, <1>6 DEF LlmTypeOK
<1>8. BudgetInv'
  <2>1. \A d \in Waiting' : d \in Waiting
    BY <1>1, <1>6 DEF Waiting
  <2>. QED
    BY <1>1, <1>2, <2>1 DEF BudgetInv, BudgetKept
<1>9. RecordInv'
  <2>1. /\ outcome'[c] \notin Charged /\ outcome[c] \notin Charged
        /\ \A d \in Calls : d # c => outcome'[d] = outcome[d]
    BY <1>1, <1>6 DEF Charged
  <2>. QED
    BY <1>1, <1>2, <2>1 DEF RecordInv, RecordedOnce, Copies, Charged, LlmTypeOK
<1>. QED
  BY <1>6, <1>7, <1>8, <1>9 DEF LInv
LEMMA LAnswers ==
  ASSUME LInv, NEW c \in Calls, NEW usd \in Costs, NEW valid \in BOOLEAN, ProviderAnswers(c, usd, valid)
  PROVE  LInv'
<1> USE GatewayAssumption
<1> DEFINE t   == IF valid THEN running[c] + usd ELSE running_total
           how == IF ~valid THEN "invalid" ELSE IF t > Cap THEN "over" ELSE "ok"
<1>1. /\ outcome[c] = "waiting" /\ records' = records \cup {c}
      /\ UNCHANGED <<running, candidate, attempts, added, rows, lost, tries, refused, overlap>>
  BY DEF ProviderAnswers, dbVars
<1>2. LlmTypeOK /\ FailoverInv /\ BudgetInv /\ RecordInv
  BY DEF LInv
<1>3. usd \in Nat /\ t \in Nat /\ running[c] \in Nat /\ running_total \in Nat
  BY <1>2 DEF LlmTypeOK
<1>4. running_total' = t
  BY DEF ProviderAnswers, Total
<1>5. outcome' = [outcome EXCEPT ![c] = how]
  BY <1>4 DEF ProviderAnswers, Outcome
<1>6. /\ outcome'[c] = how /\ \A d \in Calls : d # c => outcome'[d] = outcome[d]
      /\ how \in Charged /\ how \in Ended
  BY <1>2, <1>5 DEF LlmTypeOK, Charged, Ended
<1>7. paid' = [paid EXCEPT ![how] = @ + usd]
  BY <1>6 DEF ProviderAnswers
<1>8. LlmTypeOK'
  <2>1. paid' \in [Ended -> Nat]
    BY <1>2, <1>3, <1>6, <1>7 DEF LlmTypeOK
  <2>2. outcome' \in [Calls -> {"ready", "waiting"} \cup Ended]
    BY <1>2, <1>5, <1>6 DEF LlmTypeOK
  <2>. QED
    BY <1>1, <1>2, <1>3, <1>4, <2>1, <2>2 DEF LlmTypeOK
<1>9. c \in Waiting /\ \A d \in Waiting' : d \in Waiting /\ d # c
  BY <1>1, <1>6 DEF Waiting, Charged
<1>10. FailoverInv'
  BY <1>1, <1>2, <1>6, LQuiet DEF Charged
<1>11. BudgetInv'
  <2> SUFFICES ASSUME ~overlap'
               PROVE  /\ \A d, e \in Waiting' : d = e
                      /\ \A d \in Waiting' : running'[d] = running_total'
                      /\ BudgetKept'
    BY DEF BudgetInv, BudgetKept
  <2>1. ~overlap /\ Waiting' = {} /\ running[c] = running_total
    BY <1>1, <1>2, <1>9 DEF BudgetInv
  <2>2. running_total = paid["ok"] + paid["over"] /\ paid["ok"] <= Cap
    BY <1>2, <2>1 DEF BudgetInv, BudgetKept
  <2>3. /\ paid["ok"] \in Nat /\ paid["over"] \in Nat
        /\ \A h \in {"ok", "over"} : paid'[h] = IF h = how THEN paid[h] + usd ELSE paid[h]
    BY <1>2, <1>7 DEF LlmTypeOK, Ended
  <2>4. running_total' = paid'["ok"] + paid'["over"] /\ paid'["ok"] <= Cap
    <3>1. CASE how = "invalid"
      BY <1>4, <2>2, <2>3, <3>1
    <3>2. CASE how = "over"
      BY <1>3, <1>4, <2>1, <2>2, <2>3, <3>2
    <3>3. CASE how = "ok"
      <4>1. t = running_total + usd /\ ~(t > Cap)
        BY <2>1, <3>3
      <4>2. paid'["ok"] = paid["ok"] + usd /\ paid'["over"] = paid["over"]
        BY <2>3, <3>3
      <4>. QED
        BY <1>3, <1>4, <2>2, <2>3, <4>1, <4>2
    <3>. QED
      BY <3>1, <3>2, <3>3
  <2>. QED
    BY <2>1, <2>4 DEF BudgetKept
<1>12. RecordInv'
  <2>1. c \notin lost /\ Copies(c) = 0
    BY <1>1, <1>2 DEF RecordInv, RecordedOnce, Charged
  <2>2. c \notin records /\ added[c] = 0 /\ rows[c] = 0
    BY <1>2, <2>1 DEF Copies, LlmTypeOK
  <2>3. \A d \in Calls : d # c => Copies(d)' = Copies(d)
    BY <1>1 DEF Copies
  <2>4. Copies(c)' = 1
    BY <1>1, <2>2 DEF Copies
  <2>. QED
    BY <1>1, <1>2, <1>6, <2>1, <2>3, <2>4 DEF RecordInv, RecordedOnce, Charged, LlmTypeOK
<1>. QED
  BY <1>8, <1>10, <1>11, <1>12 DEF LInv

LEMMA LCancel ==
  ASSUME LInv, NEW c \in Calls, CancelCall(c)
  PROVE  LInv'
<1>1. /\ outcome[c] = "waiting" /\ outcome' = [outcome EXCEPT ![c] = "cancelled"]
      /\ UNCHANGED <<running_total, running, candidate, attempts, records, added, rows, lost, paid,
                     tries, refused, overlap>>
  BY DEF CancelCall, dbVars
<1>2. LlmTypeOK /\ FailoverInv /\ BudgetInv /\ RecordInv
  BY DEF LInv
<1>3. LlmTypeOK'
  BY <1>1, <1>2 DEF LlmTypeOK, Ended
<1>4. /\ \A d \in Waiting' : d \in Waiting
      /\ outcome'[c] = "cancelled" /\ \A d \in Calls : d # c => outcome'[d] = outcome[d]
  BY <1>1, <1>2 DEF LlmTypeOK, Waiting
<1>5. FailoverInv'
  BY <1>1, <1>2, <1>4, LQuiet
<1>6. BudgetInv'
  BY <1>1, <1>2, <1>4 DEF BudgetInv, BudgetKept
<1>7. RecordInv'
  BY <1>1, <1>2, <1>4 DEF RecordInv, RecordedOnce, Copies, Charged, LlmTypeOK
<1>. QED
  BY <1>3, <1>5, <1>6, <1>7 DEF LInv

(* The recorder moves a record, and loses it with a rollback.              *)
LEMMA LRecorder ==
  ASSUME LInv, Flush \/ CommitUsage \/ Rollback
  PROVE  LInv'
<1>1. UNCHANGED <<running_total, outcome, running, candidate, attempts, paid, tries, refused, overlap>>
  BY DEF Flush, CommitUsage, Rollback, callVars
<1>2. LlmTypeOK /\ FailoverInv /\ BudgetInv /\ RecordInv
  BY DEF LInv
<1>3. /\ records \subseteq Calls /\ added \in [Calls -> Nat] /\ rows \in [Calls -> Nat] /\ lost \subseteq Calls
  BY <1>2 DEF LlmTypeOK
<1>4. /\ records' \subseteq Calls /\ added' \in [Calls -> Nat] /\ rows' \in [Calls -> Nat] /\ lost' \subseteq Calls
      /\ \A c \in lost' : outcome[c] \in Charged
      /\ RecordedOnce'
  <2>1. CASE Flush
    <3>1. /\ records' = {} /\ rows' = rows /\ lost' = lost
          /\ added' = [c \in Calls |-> IF c \in records THEN added[c] + 1 ELSE added[c]]
      BY <2>1 DEF Flush, Left
    <3>2. \A c \in Calls : Copies(c)' = Copies(c)
      BY <1>3, <3>1 DEF Copies
    <3>. QED
      BY <1>1, <1>2, <1>3, <3>1, <3>2 DEF RecordInv, RecordedOnce
  <2>2. CASE CommitUsage
    <3>1. /\ records' = records /\ lost' = lost
          /\ rows' = [c \in Calls |-> rows[c] + added[c]] /\ added' = [c \in Calls |-> 0]
      BY <2>2 DEF CommitUsage
    <3>2. \A c \in Calls : Copies(c)' = Copies(c)
      BY <1>3, <3>1 DEF Copies
    <3>. QED
      BY <1>1, <1>2, <1>3, <3>1, <3>2 DEF RecordInv, RecordedOnce
  <2>3. CASE Rollback
    <3>1. /\ records' = records /\ rows' = rows
          /\ lost' = lost \cup {c \in Calls : added[c] > 0} /\ added' = [c \in Calls |-> 0]
      BY <2>3 DEF Rollback
    <3>2. /\ \A c \in Calls : Copies(c) = IF outcome[c] \in Charged /\ c \notin lost THEN 1 ELSE 0
          /\ \A c \in lost : outcome[c] \in Charged
      BY <1>2 DEF RecordInv, RecordedOnce, Charged
    <3>3. ASSUME NEW c \in Calls
          PROVE  /\ Copies(c)' = IF outcome[c] \in Charged /\ c \notin lost' THEN 1 ELSE 0
                 /\ c \in lost' => outcome[c] \in Charged
      <4>1. CASE added[c] > 0
        <5>0. added[c] \in Nat /\ rows[c] \in Nat
          BY <1>3
        <5>1. outcome[c] \in Charged /\ c \notin records /\ rows[c] = 0
          BY <3>2, <4>1, <5>0 DEF Copies
        <5>. QED
          BY <1>3, <3>1, <4>1, <5>1 DEF Copies
      <4>2. CASE added[c] = 0
        BY <1>3, <3>1, <3>2, <4>2 DEF Copies
      <4>. QED
        BY <1>3, <4>1, <4>2
    <3>4. records' \subseteq Calls /\ added' \in [Calls -> Nat] /\ rows' \in [Calls -> Nat] /\ lost' \subseteq Calls
      BY <1>3, <3>1
    <3>. QED
      BY <1>1, <3>3, <3>4 DEF RecordedOnce, Charged
  <2>. QED
    BY <2>1, <2>2, <2>3
<1>5. LlmTypeOK'
  BY <1>1, <1>2, <1>4 DEF LlmTypeOK
<1>6. FailoverInv'
  BY <1>1, <1>2 DEF FailoverInv, FailsOver, Exhausted, Waiting
<1>7. BudgetInv'
  BY <1>1, <1>2 DEF BudgetInv, BudgetKept, Waiting
<1>8. RecordInv'
  BY <1>1, <1>4 DEF RecordInv
<1>. QED
  BY <1>5, <1>6, <1>7, <1>8 DEF LInv

LEMMA LNext == LInv /\ [LlmNext]_llmVars => LInv'
<1> SUFFICES ASSUME LInv, [LlmNext]_llmVars PROVE LInv'
  OBVIOUS
<1>1. CASE UNCHANGED llmVars
  BY <1>1 DEF llmVars, callVars, dbVars, LInv, LlmTypeOK, FailoverInv, FailsOver, Exhausted, Waiting,
              BudgetInv, BudgetKept, RecordInv, RecordedOnce, Copies
<1>2. ASSUME NEW c \in Calls, \E est \in Estimates \cup {NoEstimate} : StartCall(c, est) PROVE LInv'
  BY <1>2, LStart
<1>3. ASSUME NEW c \in Calls, Provider(c) PROVE LInv'
  BY <1>3, LFails, LAnswers DEF Provider
<1>. QED
  BY <1>1, <1>2, <1>3, LCancel, LRecorder DEF LlmNext

LEMMA LInvariance == LlmSpec => []LInv
<1>. QED
  BY LInit, LNext, PTL DEF LlmSpec

(* The variables of the model calls keep their types.                      *)
THEOREM GatewayTypeCorrect == LlmSpec => []LlmTypeOK
<1>1. LInv => LlmTypeOK
  BY DEF LInv
<1>. QED
  BY <1>1, LInvariance, PTL

(* For any number of calls and candidates, any prices and any cap: calls   *)
(* that do not overlap keep to the cap, failover goes by the order, and    *)
(* what was charged is recorded once.                                      *)
THEOREM GatewayAccounts == LlmSpec => []UsageKept
<1>1. LInv => UsageKept
  BY DEF LInv, FailoverInv, BudgetInv, RecordInv, UsageKept
<1>. QED
  BY <1>1, LInvariance, PTL

-----------------------------------------------------------------------------
(* Tool runs: their invariant. *)

Told == {"ok", "error", "timeout"}
ToolSpots == {"idle", "ok", "error", "timeout", "cancelled"} \cup UnderWay
LedgerEntry == [of : Invocations, succeeded : BOOLEAN]

RunnerInv ==
  /\ at \in [Invocations -> ToolSpots]
  /\ process \in [Invocations -> {"none", "running", "gone"}]
  /\ report \in [Invocations -> Reports]
  /\ directory \in [Invocations -> BOOLEAN]
  /\ killed \subseteq Invocations

EntriesOf(i, book) == {n \in DOMAIN book : book[n].of = i}

(* An invocation that has an end to tell has the one entry; no other has.  *)
LedgerInv ==
  /\ ledger \in Seq(LedgerEntry)
  /\ \A i \in Invocations :
       IF at[i] \in Told
         THEN \E n \in 1..Len(ledger) : /\ EntriesOf(i, ledger) = {n}
                                        /\ ledger[n].succeeded = (at[i] = "ok")
         ELSE EntriesOf(i, ledger) = {}

(* Who waits has a process, who reaps has killed it, nobody else has yet.  *)
ProcessInv ==
  \A i \in Invocations :
    /\ at[i] \in {"idle", "preparing"} => process[i] = "none"
    /\ at[i] \in {"idle", "preparing", "waiting"} => i \notin killed
    /\ at[i] = "reaping" => i \in killed
    /\ at[i] = "ok" => process[i] = "gone" /\ i \notin killed
    /\ at[i] = "error" => process[i] # "running"
    /\ directory[i] <=> at[i] \in {"waiting", "reaping"}

TInv == RunnerInv /\ LedgerInv /\ ProcessInv

-----------------------------------------------------------------------------
LEMMA TInit == ToolInit => TInv
<1> SUFFICES ASSUME ToolInit PROVE TInv
  OBVIOUS
<1>1. RunnerInv
  BY DEF ToolInit, RunnerInv, ToolSpots, Reports
<1>2. LedgerInv
  BY DEF ToolInit, LedgerInv, EntriesOf, Told
<1>3. ProcessInv
  BY DEF ToolInit, ProcessInv
<1>. QED
  BY <1>1, <1>2, <1>3 DEF TInv

(* An end of a kind that is told adds the entry, any other adds none.      *)
LEMMA TEnd ==
  ASSUME RunnerInv, LedgerInv, NEW i \in Invocations, at[i] \in UnderWay,
         NEW how \in Told \cup {"cancelled"}, End(i, how)
  PROVE  LedgerInv'
<1>1. /\ at' = [at EXCEPT ![i] = how] /\ at'[i] = how
      /\ \A j \in Invocations : j # i => at'[j] = at[j]
  BY DEF End, RunnerInv
<1>2. EntriesOf(i, ledger) = {} /\ ledger \in Seq(LedgerEntry)
  BY DEF LedgerInv, UnderWay, Told
<1>3. CASE how = "cancelled"
  <2>1. ledger' = ledger
    BY <1>3 DEF End, Noted
  <2>. QED
    BY <1>1, <1>2, <1>3, <2>1 DEF LedgerInv, Told
<1>4. CASE how \in Told
  <2> DEFINE e == [of |-> i, succeeded |-> how = "ok"]
             m == Len(ledger) + 1
  <2>1. ledger' = Append(ledger, e) /\ e \in LedgerEntry
    BY <1>4 DEF End, Noted, Told, LedgerEntry
  <2>2. /\ ledger' \in Seq(LedgerEntry) /\ Len(ledger') = m /\ ledger'[m] = e
        /\ \A n \in 1..Len(ledger) : ledger'[n] = ledger[n]
        /\ Len(ledger) \in Nat
    BY <1>2, <2>1, AppendProperties, LenProperties
  <2>3. DOMAIN ledger = 1..Len(ledger) /\ DOMAIN ledger' = 1..m
    BY <1>2, <2>2, LenProperties
  <2>4. e.of = i /\ e.succeeded = (how = "ok")
    OBVIOUS
  <2> HIDE DEF e
  <2>5. /\ \A j \in Invocations : j # i => EntriesOf(j, ledger') = EntriesOf(j, ledger)
        /\ EntriesOf(i, ledger') = {m}
    <3>1. \A n \in 1..m : n \in 1..Len(ledger) \/ n = m
      BY <2>2
    <3>2. \A n \in 1..Len(ledger) : n \in 1..m /\ ledger[n].of # i
      BY <1>2, <2>2, <2>3 DEF EntriesOf
    <3>3. m \in 1..m
      BY <2>2
    <3> HIDE DEF m
    <3>. QED
      BY <2>2, <2>3, <2>4, <3>1, <3>2, <3>3 DEF EntriesOf
  <2>6. ASSUME NEW j \in Invocations
        PROVE  IF at'[j] \in Told
                 THEN \E n \in 1..Len(ledger') : /\ EntriesOf(j, ledger') = {n}
                                                 /\ ledger'[n].succeeded = (at'[j] = "ok")
                 ELSE EntriesOf(j, ledger') = {}
    <3>1. CASE j = i
      <4>1. m \in 1..Len(ledger') /\ ledger'[m].succeeded = (how = "ok")
        BY <2>2, <2>4
      <4>. QED
        BY <1>1, <1>4, <2>5, <3>1, <4>1
    <3>2. CASE j # i
      <4>1. \A n \in 1..Len(ledger) : n \in 1..Len(ledger') /\ ledger'[n] = ledger[n]
        BY <2>2
      <4>. QED
        BY <1>1, <2>5, <3>2, <4>1 DEF LedgerInv
    <3>. QED
      BY <3>1, <3>2
  <2>. QED
    BY <2>2, <2>6 DEF LedgerInv
<1>. QED
  BY <1>3, <1>4

(* A step that ends no invocation. *)
LEMMA TNoEnd ==
  ASSUME LedgerInv, ledger' = ledger,
         \A j \in Invocations : at'[j] = at[j] \/ (at[j] \notin Told /\ at'[j] \notin Told)
  PROVE  LedgerInv'
BY DEF LedgerInv, Told

LEMMA TStep ==
  ASSUME TInv, NEW i \in Invocations,
         \/ \E t \in Tools : \E s \in {max_wallclock_seconds[t]} \cup Overrides : Invoke(i, t, s)
         \/ NoBinary(i) \/ Spawn(i) \/ Collect(i) \/ Reaped(i)
         \/ \E r \in Reports : Exit(i, r)
         \/ RunnerTimesOut(i) \/ RouterTimesOut(i) \/ CallerGoes(i)
  PROVE  TInv'
<1> USE DEF TInv
<1>1. CASE \E t \in Tools : \E s \in {max_wallclock_seconds[t]} \cup Overrides : Invoke(i, t, s)
  <2>1. /\ at[i] = "idle" /\ at' = [at EXCEPT ![i] = "preparing"]
        /\ UNCHANGED <<directory, killed, process, report, ledger>>
    BY <1>1 DEF Invoke, processVars
  <2>2. RunnerInv' /\ ProcessInv'
    BY <2>1 DEF RunnerInv, ProcessInv, ToolSpots, UnderWay
  <2>3. LedgerInv'
    BY <2>1, TNoEnd DEF RunnerInv, Told
  <2>. QED
    BY <2>2, <2>3
<1>2. CASE Spawn(i)
  <2>1. /\ at[i] = "preparing" /\ at' = [at EXCEPT ![i] = "waiting"]
        /\ directory' = [directory EXCEPT ![i] = TRUE] /\ process' = [process EXCEPT ![i] = "running"]
        /\ UNCHANGED <<killed, report, ledger>>
    BY <1>2 DEF Spawn
  <2>2. RunnerInv' /\ ProcessInv'
    BY <2>1 DEF RunnerInv, ProcessInv, ToolSpots, UnderWay
  <2>3. LedgerInv'
    BY <2>1, TNoEnd DEF RunnerInv, Told
  <2>. QED
    BY <2>2, <2>3
<1>3. CASE \E r \in Reports : Exit(i, r)
  <2>1. PICK r \in Reports : Exit(i, r)
    BY <1>3
  <2>2. /\ process[i] = "running" /\ process' = [process EXCEPT ![i] = "gone"]
        /\ report' = [report EXCEPT ![i] = IF directory[i] THEN r ELSE "missing"]
        /\ UNCHANGED <<at, directory, killed, ledger>>
    BY <2>1 DEF Exit, runnerVars
  <2>3. RunnerInv' /\ ProcessInv'
    BY <2>2 DEF RunnerInv, ProcessInv, Reports
  <2>4. LedgerInv'
    BY <2>2, TNoEnd
  <2>. QED
    BY <2>3, <2>4
<1>4. CASE RunnerTimesOut(i)
  <2>1. /\ at[i] = "waiting" /\ at' = [at EXCEPT ![i] = "reaping"] /\ killed' = killed \cup {i}
        /\ UNCHANGED <<directory, process, report, ledger>>
    BY <1>4 DEF RunnerTimesOut, Kill, processVars
  <2>2. RunnerInv' /\ ProcessInv'
    BY <2>1 DEF RunnerInv, ProcessInv, ToolSpots, UnderWay
  <2>3. LedgerInv'
    BY <2>1, TNoEnd DEF RunnerInv, Told
  <2>. QED
    BY <2>2, <2>3
(* The ends: what each knows of the process. *)
<1>5. ASSUME NEW how \in Told \cup {"cancelled"}, End(i, how), at[i] \in UnderWay, UNCHANGED processVars,
             how = "ok" => at[i] = "waiting" /\ process[i] = "gone",
             how = "error" => process[i] # "running"
      PROVE  TInv'
  <2>1. /\ at' = [at EXCEPT ![i] = how] /\ directory' = [directory EXCEPT ![i] = FALSE]
        /\ UNCHANGED <<killed, process, report>>
    BY <1>5 DEF End, processVars
  <2>2. RunnerInv'
    BY <2>1 DEF RunnerInv, ToolSpots, Told
  <2>3. ProcessInv'
    BY <1>5, <2>1 DEF RunnerInv, ProcessInv, Told
  <2>4. LedgerInv'
    BY <1>5, TEnd
  <2>. QED
    BY <2>2, <2>3, <2>4
<1>6. CASE NoBinary(i)
  <2>1. process[i] = "none" /\ at[i] \in UnderWay
    BY <1>6 DEF NoBinary, ProcessInv, UnderWay
  <2>. QED
    BY <1>5, <1>6, <2>1 DEF NoBinary, Told
<1>7. CASE Collect(i)
  <2>1. /\ at[i] \in UnderWay /\ at[i] = "waiting" /\ process[i] = "gone"
        /\ (IF report[i] = "torn" THEN "error" ELSE "ok") \in Told
    BY <1>7 DEF Collect, UnderWay, Told
  <2>. QED
    BY <1>5, <1>7, <2>1 DEF Collect
<1>8. CASE Reaped(i)
  <2>1. at[i] \in UnderWay /\ process[i] = "gone"
    BY <1>8 DEF Reaped, UnderWay
  <2>. QED
    BY <1>5, <1>8, <2>1 DEF Reaped, Told
<1>9. CASE RouterTimesOut(i)
  BY <1>5, <1>9 DEF RouterTimesOut, OutOfTime, Told
<1>10. CASE CallerGoes(i)
  BY <1>5, <1>10 DEF CallerGoes, Told
<1>. QED
  BY <1>1, <1>2, <1>3, <1>4, <1>6, <1>7, <1>8, <1>9, <1>10

LEMMA TNext == TInv /\ [ToolNext]_toolVars => TInv'
<1> SUFFICES ASSUME TInv, [ToolNext]_toolVars PROVE TInv'
  OBVIOUS
<1>1. CASE SecondPasses \/ UNCHANGED toolVars
  <2>1. UNCHANGED <<at, directory, killed, process, report, ledger>>
    BY <1>1 DEF SecondPasses, toolVars, runnerVars, processVars
  <2>. QED
    BY <2>1 DEF TInv, RunnerInv, LedgerInv, ProcessInv
<1>. QED
  BY <1>1, TStep DEF ToolNext

LEMMA TInvariance == ToolSpec => []TInv
<1>. QED
  BY TInit, TNext, PTL DEF ToolSpec

(* The variables of the tool runs keep their types, and the ledger has no  *)
(* more entries than there were invocations.                               *)
THEOREM ToolTypeCorrect ==
  ASSUME IsFiniteSet(Invocations)
  PROVE  ToolSpec => []ToolTypeOK
<1>1. TInv => ToolTypeOK
  <2> SUFFICES ASSUME TInv PROVE ToolTypeOK
    OBVIOUS
  <2>1. Len(ledger) <= Cardinality(Invocations)
    <3> DEFINE n == Len(ledger)
               f == [m \in 1..n |-> ledger[m].of]
    <3>1. n \in Nat /\ DOMAIN ledger = 1..n /\ \A m \in 1..n : ledger[m].of \in Invocations
      <4>1. \A m \in 1..n : ledger[m] \in LedgerEntry
        BY ElementOfSeq DEF TInv, LedgerInv
      <4>2. n \in Nat /\ DOMAIN ledger = 1..n
        BY LenProperties DEF TInv, LedgerInv
      <4>. QED
        BY <4>1, <4>2 DEF LedgerEntry
    <3>2. \A l, m \in 1..n : f[l] = f[m] => l = m
      <4> SUFFICES ASSUME NEW l \in 1..n, NEW m \in 1..n, ledger[l].of = ledger[m].of PROVE l = m
        OBVIOUS
      <4>1. l \in EntriesOf(ledger[m].of, ledger) /\ m \in EntriesOf(ledger[m].of, ledger)
        BY <3>1 DEF EntriesOf
      <4>2. \A i \in Invocations : \A x, y \in EntriesOf(i, ledger) : x = y
        BY DEF TInv, LedgerInv
      <4>. QED
        BY <3>1, <4>1, <4>2
    <3>3. f \in Injection(1..n, Invocations)
      BY <3>1, <3>2 DEF Injection, IsInjective
    <3>4. Cardinality(1..n) <= Cardinality(Invocations)
      BY <3>3, FS_Injection
    <3>5. Cardinality(1..n) = n
      BY <3>1, FS_Interval
    <3>. QED
      BY <3>4, <3>5
  <2>. QED
    BY <2>1 DEF TInv, RunnerInv, ToolTypeOK, ToolSpots
<1>. QED
  BY <1>1, TInvariance, PTL

(* For any number of invocations, tools and timers: the ledger tells of    *)
(* every end once and as what it was, and a process that is left behind    *)
(* is that of a run that was cancelled.                                    *)
THEOREM ToolRunsTell == ToolSpec => []ToolsKept
<1>1. TInv => ToolsKept
  <2> SUFFICES ASSUME TInv PROVE ToolsKept
    OBVIOUS
  <2>1. LedgerTells
    <3> SUFFICES ASSUME NEW i \in Invocations
                 PROVE  /\ Cardinality(EntriesOf(i, ledger)) =
                             IF at[i] \in Told THEN 1 ELSE 0
                        /\ \A n \in EntriesOf(i, ledger) : ledger[n].succeeded = (at[i] = "ok")
                        /\ at[i] = "ok" => process[i] = "gone" /\ i \notin killed
      BY DEF LedgerTells, EntriesOf, Told
    <3>1. at[i] = "ok" => process[i] = "gone" /\ i \notin killed
      BY DEF TInv, ProcessInv
    <3>2. CASE at[i] \in Told
      <4>1. PICK n \in 1..Len(ledger) :
              EntriesOf(i, ledger) = {n} /\ ledger[n].succeeded = (at[i] = "ok")
        BY <3>2 DEF TInv, LedgerInv
      <4>2. Cardinality({n}) = 1
        BY FS_Singleton
      <4>. QED
        BY <3>1, <3>2, <4>1, <4>2
    <3>3. CASE at[i] \notin Told
      <4>1. EntriesOf(i, ledger) = {}
        BY <3>3 DEF TInv, LedgerInv
      <4>. QED
        BY <3>1, <3>3, <4>1, FS_EmptySet
    <3>. QED
      BY <3>2, <3>3
  <2>2. ProcessesEnd
    BY DEF TInv, RunnerInv, ProcessInv, ProcessesEnd, ToolSpots, UnderWay
  <2>. QED
    BY <2>1, <2>2 DEF ToolsKept
<1>. QED
  BY <1>1, TInvariance, PTL


-----------------------------------------------------------------------------
(* The calls of start(), for any number of calls, processes and keys, and  *)
(* any graph, with calls lost anywhere.                                    *)

Holds(s) == phase[s] \in {"driving", "answered"}

(* A key is held by one call, and by none once it has a run. *)
Alone ==
  \A s \in Starts : Holds(s) =>
    /\ runs[wants[s]] = NoRun
    /\ \A o \in Starts : Holds(o) /\ wants[o] = wants[s] => o = s

(* A pass that is still under way has only successes behind it, and one    *)
(* that was answered has one for each step.                                *)
Progress ==
  \A s \in Starts :
    /\ ~Holds(s) => progress[s] = <<>>
    /\ phase[s] = "driving" =>
         \A i \in 1..Len(progress[s]) : progress[s][i] = "succeeded"
    /\ phase[s] = "answered" => progress[s] = [i \in 1..GraphLength |-> "succeeded"]

RunIInv == RunTypeOK /\ Alone /\ Progress /\ KeptRunsAreDone /\ DuplicateMeansKept

LEMMA InvInit == RunInit => RunIInv
<1> SUFFICES ASSUME RunInit PROVE RunIInv
  OBVIOUS
<1>1. RunTypeOK
  <2>1. (CHOOSE k \in RunKeys : TRUE) \in RunKeys
    BY TestRunAssumption
  <2>2. <<>> \in Seq(StepResults)
    OBVIOUS
  <2>. QED
    BY <2>1, <2>2 DEF RunInit, RunTypeOK, Answers
<1>2. Alone /\ Progress /\ KeptRunsAreDone /\ DuplicateMeansKept
  BY DEF RunInit, Alone, Holds, Progress, KeptRunsAreDone, DuplicateMeansKept
<1>. QED
  BY <1>1, <1>2 DEF RunIInv

(* A call that leaves frees its key and forgets its pass. *)
LEMMA InvLeave ==
  ASSUME RunIInv, NEW s \in Starts, NEW told \in Answers, Leave(s, told),
         UNCHANGED <<runs, wants>>,
         told = "duplicate" => runs[wants[s]] # NoRun
  PROVE  RunIInv'
<1> USE DEF RunIInv
<1>1. RunTypeOK'
  <2>1. <<>> \in Seq(StepResults)
    OBVIOUS
  <2>. QED
    BY <2>1 DEF Leave, RunTypeOK
<1>2. Alone'
  BY DEF Leave, Alone, Holds, RunTypeOK
<1>3. Progress'
  BY DEF Leave, Progress, Holds, RunTypeOK
<1>4. KeptRunsAreDone' /\ DuplicateMeansKept'
  BY DEF Leave, KeptRunsAreDone, DuplicateMeansKept, RunTypeOK
<1>. QED
  BY <1>1, <1>2, <1>3, <1>4

LEMMA InvCheck ==
  ASSUME RunIInv, NEW s \in Starts, NEW k \in RunKeys, Check(s, k)
  PROVE  RunIInv'
<1> USE DEF RunIInv
<1>1. CASE runs[k] # NoRun
  <2>1. /\ phase' = [phase EXCEPT ![s] = "idle"]
        /\ progress' = [progress EXCEPT ![s] = <<>>]
        /\ answer' = [answer EXCEPT ![s] = "duplicate"]
        /\ wants' = [wants EXCEPT ![s] = k] /\ runs' = runs
    BY <1>1 DEF Check, Leave
  <2>2. RunTypeOK'
    <3>1. <<>> \in Seq(StepResults) /\ "duplicate" \in Answers
      BY DEF Answers
    <3>. QED
      BY <2>1, <3>1 DEF RunTypeOK
  <2>3. Alone' /\ Progress'
    BY <2>1 DEF Alone, Progress, Holds, RunTypeOK
  <2>4. KeptRunsAreDone' /\ DuplicateMeansKept'
    BY <1>1, <2>1 DEF KeptRunsAreDone, DuplicateMeansKept, RunTypeOK
  <2>. QED
    BY <2>2, <2>3, <2>4
<1>2. CASE runs[k] = NoRun
  <2>1. /\ phase[s] = "idle"
        /\ phase' = [phase EXCEPT ![s] = "checked"]
        /\ answer' = [answer EXCEPT ![s] = "none"]
        /\ wants' = [wants EXCEPT ![s] = k] /\ UNCHANGED <<runs, progress>>
    BY <1>2 DEF Check
  <2>2. RunTypeOK'
    BY <2>1 DEF RunTypeOK, Answers
  <2>3. Alone' /\ Progress'
    BY <2>1 DEF Alone, Progress, Holds, RunTypeOK
  <2>4. KeptRunsAreDone' /\ DuplicateMeansKept'
    BY <2>1 DEF KeptRunsAreDone, DuplicateMeansKept, RunTypeOK
  <2>. QED
    BY <2>2, <2>3, <2>4
<1>. QED
  BY <1>1, <1>2

LEMMA InvInsert ==
  ASSUME RunIInv, NEW s \in Starts, Insert(s)
  PROVE  RunIInv'
<1>1. CASE Refused(s)
  BY <1>1, InvLeave DEF Insert, Refused, Answers
<1>2. CASE ~Refused(s)
  <2> USE DEF RunIInv
  <2>1. /\ phase[s] = "checked" /\ runs[wants[s]] = NoRun
        /\ phase' = [phase EXCEPT ![s] = "driving"]
        /\ UNCHANGED <<runs, wants, progress, answer>>
    BY <1>2 DEF Insert, Refused
  <2>2. \A o \in Starts \ {s} : ~(Holds(o) /\ wants[o] = wants[s])
    BY DEF Insert, Waits, Enters, Holds
  <2>3. RunTypeOK'
    BY <2>1 DEF RunTypeOK
  <2>4. Alone'
    BY <2>1, <2>2 DEF Alone, Holds, RunTypeOK
  <2>5. Progress'
    <3>1. progress[s] = <<>>
      BY <2>1 DEF Progress, Holds
    <3>. QED
      BY <2>1, <3>1 DEF Progress, Holds, RunTypeOK
  <2>6. KeptRunsAreDone' /\ DuplicateMeansKept'
    BY <2>1 DEF KeptRunsAreDone, DuplicateMeansKept
  <2>. QED
    BY <2>3, <2>4, <2>5, <2>6
<1>. QED
  BY <1>1, <1>2

LEMMA InvStepDone ==
  ASSUME RunIInv, NEW s \in Starts, StepDone(s)
  PROVE  RunIInv'
<1> USE DEF RunIInv
<1>1. /\ phase[s] = "driving"
      /\ progress' = [progress EXCEPT ![s] = Append(progress[s], "succeeded")]
      /\ UNCHANGED <<runs, phase, wants, answer>>
  BY DEF StepDone
<1>2. progress[s] \in Seq(StepResults) /\ "succeeded" \in StepResults
  BY DEF RunTypeOK, StepResults
<1>3. RunTypeOK'
  BY <1>1, <1>2 DEF RunTypeOK
<1>4. Alone'
  BY <1>1 DEF Alone, Holds
<1>5. Progress'
  <2>1. \A i \in 1..Len(progress'[s]) : progress'[s][i] = "succeeded"
    <3>1. progress'[s] = Append(progress[s], "succeeded")
      BY <1>1 DEF RunTypeOK
    <3>. QED
      BY <1>1, <1>2, <3>1 DEF Progress
  <2>. QED
    BY <1>1, <2>1 DEF Progress, Holds, RunTypeOK
<1>6. KeptRunsAreDone' /\ DuplicateMeansKept'
  BY <1>1 DEF KeptRunsAreDone, DuplicateMeansKept
<1>. QED
  BY <1>3, <1>4, <1>5, <1>6

LEMMA InvPassOver ==
  ASSUME RunIInv, NEW s \in Starts, NEW result \in StepResults, PassOver(s, result)
  PROVE  RunIInv'
<1> DEFINE tasks == Append(progress[s], result)
<1>1. /\ phase[s] = "driving" /\ UNCHANGED <<runs, wants>>
      /\ result = "succeeded" => Len(tasks) = GraphLength
  BY DEF PassOver
<1>2. CASE Raises(result) \/ ~Storable(tasks)
  <2>1. Leave(s, "error")
    BY <1>2 DEF PassOver
  <2>. QED
    BY <1>1, <2>1, InvLeave DEF Answers
<1>3. CASE ~Raises(result) /\ Storable(tasks)
  <2> USE DEF RunIInv
  <2>1. /\ phase' = [phase EXCEPT ![s] = "answered"]
        /\ progress' = [progress EXCEPT ![s] = tasks]
        /\ answer' = [answer EXCEPT ![s] = "accepted"]
    BY <1>3 DEF PassOver
  <2>2. progress[s] \in Seq(StepResults)
    BY DEF RunTypeOK
  <2>3. tasks \in Seq(StepResults) /\ Len(tasks) = Len(progress[s]) + 1
    BY <2>2
  <2>4. tasks[Len(tasks)] = result
    BY <2>2
  <2>5. result = "succeeded"
    <3>1. result \in AgentTaskState
      BY <1>3, <2>2, <2>3, <2>4 DEF Storable
    <3>. QED
      BY <1>3, <3>1 DEF AgentTaskState, StepResults, Raises
  <2>6. tasks = [i \in 1..GraphLength |-> "succeeded"]
    <3>1. \A i \in 1..Len(tasks) : tasks[i] = "succeeded"
      BY <1>1, <2>2, <2>5 DEF Progress
    <3>2. Len(tasks) = GraphLength
      BY <1>1, <2>5
    <3>. QED
      BY <2>3, <3>1, <3>2
  <2>7. RunTypeOK'
    BY <1>1, <2>1, <2>3 DEF RunTypeOK, Answers
  <2>8. Alone'
    BY <1>1, <2>1 DEF Alone, Holds, RunTypeOK
  <2>9. Progress'
    BY <2>1, <2>6 DEF Progress, Holds, RunTypeOK
  <2>10. KeptRunsAreDone' /\ DuplicateMeansKept'
    BY <1>1, <2>1 DEF KeptRunsAreDone, DuplicateMeansKept, RunTypeOK
  <2>. QED
    BY <2>7, <2>8, <2>9, <2>10
<1>. QED
  BY <1>2, <1>3

LEMMA InvCommit ==
  ASSUME RunIInv, NEW s \in Starts, Commit(s)
  PROVE  RunIInv'
<1> USE DEF RunIInv
<1> DEFINE row == [state |-> IF "paused" \in {progress[s][i] : i \in DOMAIN progress[s]}
                               THEN "paused_for_approval" ELSE "done",
                   tasks |-> progress[s]]
<1>1. /\ phase[s] = "answered"
      /\ runs' = [runs EXCEPT ![wants[s]] = row]
      /\ phase' = [phase EXCEPT ![s] = "idle"]
      /\ progress' = [progress EXCEPT ![s] = <<>>]
      /\ answer' = [answer EXCEPT ![s] = "accepted"]
      /\ wants' = wants
  BY DEF Commit, Leave
<1>2. progress[s] = [i \in 1..GraphLength |-> "succeeded"]
  BY <1>1 DEF Progress
<1>3. row.state = "done" /\ row.tasks = progress[s]
  BY <1>2
<1>4. row \in Run
  <2>1. progress[s] \in Seq(AgentTaskState)
    BY <1>2, TestRunAssumption DEF AgentTaskState
  <2>. QED
    BY <2>1 DEF Run
<1>5. /\ runs[wants[s]] = NoRun
      /\ \A o \in Starts \ {s} : ~(Holds(o) /\ wants[o] = wants[s])
  BY <1>1 DEF Alone, Holds
<1>6. RunTypeOK'
  <2>1. <<>> \in Seq(StepResults)
    OBVIOUS
  <2>. QED
    BY <1>1, <1>4, <2>1 DEF RunTypeOK, Answers
<1>7. Alone'
  BY <1>1, <1>5 DEF Alone, Holds, RunTypeOK
<1>8. Progress'
  BY <1>1 DEF Progress, Holds, RunTypeOK
<1>9. KeptRunsAreDone'
  BY <1>1, <1>2, <1>3 DEF KeptRunsAreDone, RunTypeOK
<1>10. DuplicateMeansKept'
  BY <1>1, <1>5 DEF DuplicateMeansKept, RunTypeOK
<1>. QED
  BY <1>6, <1>7, <1>8, <1>9, <1>10

LEMMA InvLost ==
  ASSUME RunIInv, NEW s \in Starts, Lost(s)
  PROVE  RunIInv'
<1>1. CASE phase[s] = "answered"
  BY <1>1, InvLeave DEF Lost, Answers
<1>2. CASE phase[s] # "answered"
  BY <1>2, InvLeave DEF Lost, Answers
<1>. QED
  BY <1>1, <1>2

LEMMA InvNext == RunIInv /\ [RunNext]_runVars => RunIInv'
<1> SUFFICES ASSUME RunIInv, [RunNext]_runVars PROVE RunIInv'
  OBVIOUS
<1>1. ASSUME NEW s \in Starts, NEW k \in RunKeys, Check(s, k) PROVE RunIInv'
  BY <1>1, InvCheck
<1>2. ASSUME NEW s \in Starts, Drive(s) PROVE RunIInv'
  BY <1>2, InvInsert, InvStepDone, InvPassOver, InvCommit DEF Drive
<1>3. ASSUME NEW s \in Starts, Lost(s) PROVE RunIInv'
  BY <1>3, InvLost
<1>4. CASE UNCHANGED runVars
  <2>1. UNCHANGED <<runs, phase, wants, progress, answer>>
    BY <1>4 DEF runVars
  <2>2. RunTypeOK'
    BY <2>1 DEF RunIInv, RunTypeOK
  <2>3. Alone'
    BY <2>1 DEF RunIInv, Alone, Holds
  <2>4. Progress'
    BY <2>1 DEF RunIInv, Progress, Holds
  <2>5. KeptRunsAreDone' /\ DuplicateMeansKept'
    BY <2>1 DEF RunIInv, KeptRunsAreDone, DuplicateMeansKept
  <2>. QED
    BY <2>2, <2>3, <2>4, <2>5 DEF RunIInv
<1>. QED
  BY <1>1, <1>2, <1>3, <1>4 DEF RunNext

LEMMA RunInvariance == RunSpec => []RunIInv
BY InvInit, InvNext, PTL DEF RunSpec

(* The columns and locals of every call keep their types. *)
THEOREM RunTypeCorrect == RunSpec => []RunTypeOK
<1>1. RunIInv => RunTypeOK
  BY DEF RunIInv
<1>. QED
  BY <1>1, RunInvariance, PTL

(* One pass of an idempotency key at a time, and none once it has a run. *)
THEOREM OnePass == RunSpec => []OnePassPerKey
<1>1. RunIInv => OnePassPerKey
  <2> SUFFICES ASSUME RunIInv, NEW k \in RunKeys
               PROVE  LET driving == {s \in Starts : Holds(s) /\ wants[s] = k}
                      IN  /\ Cardinality(driving) <= 1
                          /\ runs[k] # NoRun => driving = {}
    BY DEF OnePassPerKey, Holds
  <2> DEFINE driving == {s \in Starts : Holds(s) /\ wants[s] = k}
  <2>1. runs[k] # NoRun => driving = {}
    BY DEF RunIInv, Alone
  <2>2. CASE driving = {}
    BY <2>1, <2>2, FS_EmptySet
  <2>3. CASE driving # {}
    <3>1. PICK s \in Starts : s \in driving
      BY <2>3
    <3>2. driving = {s}
      BY <3>1 DEF RunIInv, Alone
    <3>3. Cardinality({s}) = 1
      BY FS_Singleton
    <3>. QED
      BY <2>1, <3>2, <3>3
  <2>. QED
    BY <2>2, <2>3
<1>. QED
  BY <1>1, RunInvariance, PTL

(* What is kept is done: nothing of a failed or a paused pass is. *)
THEOREM OnlyDoneKept == RunSpec => []KeptRunsAreDone
<1>1. RunIInv => KeptRunsAreDone
  BY DEF RunIInv
<1>. QED
  BY <1>1, RunInvariance, PTL

(* Whoever is refused for a duplicate finds the run that is in the way. *)
THEOREM RefusedForKept == RunSpec => []DuplicateMeansKept
<1>1. RunIInv => DuplicateMeansKept
  BY DEF RunIInv
<1>. QED
  BY <1>1, RunInvariance, PTL

(* What is kept of calls of start(): a pass at a time and none once there  *)
(* is a run, which is done; and who is refused finds it.                   *)
THEOREM RunsBacked == RunSpec => []RunsKept
<1>1. OnePassPerKey /\ KeptRunsAreDone /\ DuplicateMeansKept => RunsKept
  BY DEF RunsKept
<1>. QED
  BY <1>1, OnePass, OnlyDoneKept, RefusedForKept, PTL

-----------------------------------------------------------------------------
(* The circuit breaker.                                                    *)

(* A trial is under way only in half-open and holds the slot, alone.       *)
TrialInv ==
  /\ trial # {} => state = "half_open" /\ half_open_in_flight
  /\ \A c, d \in trial : c = d

(* While the breaker is open, opened_at is when a failure last opened it;  *)
(* when it is not, that failure is recovery_timeout or longer ago.         *)
QuietInv ==
  /\ state = "open" => opened_at = quiet
  /\ state # "open" => quiet >= recovery_timeout

BInv == BreakerTypeOK /\ FieldsAgree /\ TrialInv /\ QuietInv

LEMMA BInit == BreakerInit => BInv
<1> SUFFICES ASSUME BreakerInit PROVE BInv
  OBVIOUS
<1>1. BreakerTypeOK
  BY BreakerAssumption DEF BreakerInit, BreakerTypeOK
<1>2. FieldsAgree
  BY BreakerAssumption DEF BreakerInit, FieldsAgree
<1>3. TrialInv
  BY DEF BreakerInit, TrialInv
<1>4. QuietInv
  BY BreakerAssumption DEF BreakerInit, QuietInv
<1>. QED
  BY <1>1, <1>2, <1>3, <1>4 DEF BInv

LEMMA BBeforeCall ==
  ASSUME BInv, NEW c \in Callers, BeforeCall(c)
  PROVE  BInv'
<1> USE BreakerAssumption DEF BInv
<1>1. CASE state = "closed"
  BY <1>1 DEF BeforeCall, BreakerTypeOK, FieldsAgree, TrialInv, QuietInv
<1>2. CASE state # "closed"
  <2>1. state \in {"open", "half_open"} /\ trial = {}
    BY <1>2 DEF BeforeCall, Admits, Advances, BreakerTypeOK, TrialInv
  <2>2. quiet >= recovery_timeout
    BY <2>1 DEF BeforeCall, Admits, Advances, QuietInv
  <2>3. /\ state' = "half_open" /\ half_open_in_flight' = TRUE /\ trial' = {c}
        /\ inCall' = inCall \cup {c}
        /\ UNCHANGED <<consecutive_failures, opened_at, lostTrial, quiet>>
    BY <1>2, <2>1 DEF BeforeCall
  <2>4. opened_at # None
    BY <1>2 DEF FieldsAgree
  <2>. QED
    BY <2>2, <2>3, <2>4 DEF BreakerTypeOK, FieldsAgree, TrialInv, QuietInv
<1>. QED
  BY <1>1, <1>2

LEMMA BAfterSuccess ==
  ASSUME BInv, NEW c \in Callers, AfterSuccess(c)
  PROVE  BInv'
<1> USE BreakerAssumption DEF BInv
<1>1. CASE state = "half_open"
  <2>1. /\ state' = "closed" /\ opened_at' = None /\ half_open_in_flight' = FALSE
        /\ trial' = {} /\ lostTrial' = FALSE /\ UNCHANGED quiet
        /\ consecutive_failures' = 0 /\ inCall' = inCall \ {c}
    BY <1>1 DEF AfterSuccess, Closable
  <2>2. BreakerTypeOK'
    BY <2>1 DEF BreakerTypeOK
  <2>3. FieldsAgree'
    BY <2>1 DEF FieldsAgree
  <2>4. TrialInv' /\ QuietInv'
    BY <1>1, <2>1 DEF TrialInv, QuietInv
  <2>. QED
    BY <2>2, <2>3, <2>4
<1>2. CASE state # "half_open"
  <2>1. /\ UNCHANGED <<state, opened_at, half_open_in_flight, lostTrial, quiet>>
        /\ consecutive_failures' = 0 /\ inCall' = inCall \ {c} /\ trial' = trial \ {c}
    BY <1>2 DEF AfterSuccess, Closable
  <2>2. BreakerTypeOK'
    BY <2>1 DEF BreakerTypeOK
  <2>3. FieldsAgree'
    BY <2>1 DEF FieldsAgree
  <2>4. TrialInv' /\ QuietInv'
    BY <2>1 DEF TrialInv, QuietInv
  <2>. QED
    BY <2>2, <2>3, <2>4
<1>. QED
  BY <1>1, <1>2

LEMMA BAfterFailure ==
  ASSUME BInv, NEW c \in Callers, AfterFailure(c)
  PROVE  BInv'
<1> USE BreakerAssumption DEF BInv
<1>1. CASE Opens
  <2>1. /\ state' = "open" /\ opened_at' = 0 /\ trial' = {} /\ lostTrial' = FALSE
        /\ quiet' = 0 /\ inCall' = inCall \ {c}
    BY <1>1 DEF AfterFailure
  <2>2. half_open_in_flight' = FALSE
    <3>1. half_open_in_flight' = Released
      BY DEF AfterFailure
    <3>2. Released = FALSE
      BY DEF Released, FieldsAgree
    <3>. QED
      BY <3>1, <3>2
  <2>3. BreakerTypeOK'
    <3>1. consecutive_failures' \in Nat
      BY DEF AfterFailure, Counted, BreakerTypeOK
    <3>2. 0 \in Nat /\ inCall' \subseteq Callers
      BY <2>1 DEF BreakerTypeOK
    <3>. QED
      BY <2>1, <2>2, <3>1, <3>2 DEF BreakerTypeOK
  <2>4. FieldsAgree'
    BY <2>1, <2>2 DEF FieldsAgree
  <2>5. TrialInv' /\ QuietInv'
    BY <2>1 DEF TrialInv, QuietInv
  <2>. QED
    BY <2>3, <2>4, <2>5
<1>2. CASE ~Opens
  <2>1. /\ UNCHANGED <<state, opened_at, lostTrial, quiet>>
        /\ half_open_in_flight' = Released /\ state # "half_open"
        /\ consecutive_failures' = Counted /\ Counted < failure_threshold
        /\ inCall' = inCall \ {c} /\ trial' = trial \ {c}
    BY <1>2 DEF AfterFailure, Opens, Counted, BreakerTypeOK
  <2>2. BreakerTypeOK'
    BY <2>1 DEF Counted, Released, BreakerTypeOK
  <2>3. FieldsAgree'
    BY <2>1 DEF Released, FieldsAgree
  <2>4. TrialInv' /\ QuietInv'
    BY <2>1 DEF TrialInv, QuietInv
  <2>. QED
    BY <2>2, <2>3, <2>4
<1>. QED
  BY <1>1, <1>2

LEMMA BTick == BInv /\ Tick => BInv'
<1> SUFFICES ASSUME BInv, Tick PROVE BInv'
  OBVIOUS
<1> USE BreakerAssumption DEF BInv
<1>1. \A t \in Nat : Older(t) \in Nat /\ Older(t) >= t
  BY DEF Older
<1>2. Older(None) = None
  BY DEF Older
<1>. QED
  BY <1>1, <1>2 DEF Tick, BreakerTypeOK, FieldsAgree, TrialInv, QuietInv

LEMMA BNext == BInv /\ [BreakerNext]_breakerVars => BInv'
<1> SUFFICES ASSUME BInv, [BreakerNext]_breakerVars PROVE BInv'
  OBVIOUS
<1>1. ASSUME NEW c \in Callers, CancelCaller(c) PROVE BInv'
  BY <1>1 DEF CancelCaller, fieldVars, BInv, BreakerTypeOK, FieldsAgree, TrialInv, QuietInv
<1>2. CASE UNCHANGED breakerVars
  BY <1>2 DEF breakerVars, fieldVars, BInv, BreakerTypeOK, FieldsAgree, TrialInv, QuietInv
<1>. QED
  BY <1>1, <1>2, BBeforeCall, BAfterSuccess, BAfterFailure, BTick DEF BreakerNext, Return

LEMMA BInvariance == BreakerSpec => []BInv
  BY BInit, BNext, PTL DEF BreakerSpec

(* The breaker's fields never contradict each other.                       *)
THEOREM FieldsCorrect == BreakerSpec => [](BreakerTypeOK /\ FieldsAgree)
<1>1. BInv => BreakerTypeOK /\ FieldsAgree
  BY DEF BInv
<1>. QED
  BY <1>1, BInvariance, PTL

(* One half-open phase lets one call through.                              *)
THEOREM OneTrial == BreakerSpec => []SingleTrial
<1>1. BInv => SingleTrial
  <2> SUFFICES ASSUME BInv PROVE Cardinality(trial) <= 1
    BY DEF SingleTrial
  <2>1. CASE trial = {}
    BY <2>1, FS_EmptySet
  <2>2. CASE trial # {}
    <3>1. PICK c \in trial : trial = {c}
      BY <2>2 DEF BInv, TrialInv
    <3>2. Cardinality({c}) = 1
      BY FS_Singleton
    <3>. QED
      BY <3>1, <3>2
  <2>. QED
    BY <2>1, <2>2
<1>. QED
  BY <1>1, BInvariance, PTL

(* The breaker's fields agree, and one trial call goes through at a time.  *)
THEOREM BreakerSound == BreakerSpec => []BreakerKept
<1>1. BreakerTypeOK /\ FieldsAgree /\ SingleTrial => BreakerKept
  BY DEF BreakerKept
<1>. QED
  BY <1>1, FieldsCorrect, OneTrial, PTL

(* No call starts within recovery_timeout of the last opening failure.     *)
THEOREM Quarantined == BreakerSpec => Quarantine
<1>1. BInv /\ [BreakerNext]_breakerVars => [inCall' \subseteq inCall \/ quiet >= recovery_timeout]_breakerVars
  <2> SUFFICES ASSUME BInv, BreakerNext PROVE inCall' \subseteq inCall \/ quiet >= recovery_timeout
    OBVIOUS
  <2>1. ASSUME NEW c \in Callers, BeforeCall(c) PROVE quiet >= recovery_timeout
    BY <2>1 DEF BeforeCall, Admits, Advances, BInv, QuietInv
  <2>2. ASSUME NEW c \in Callers, Return(c) \/ CancelCaller(c) PROVE inCall' \subseteq inCall
    BY <2>2 DEF Return, AfterSuccess, AfterFailure, CancelCaller
  <2>3. CASE Tick
    BY <2>3 DEF Tick
  <2>. QED
    BY <2>1, <2>2, <2>3 DEF BreakerNext
<1>. QED
  BY <1>1, BInvariance, PTL DEF BreakerSpec, Quarantine

-----------------------------------------------------------------------------
(* The services together. A part moves by its own steps or not at all.     *)

LEMMA ServicesMove ==
  [ServicesNext]_serviceVars =>
    /\ [RunNext]_runVars /\ [FeedbackNext]_feedbackVars /\ [BreakerNext]_breakerVars
    /\ [LlmNext]_llmVars /\ [ToolNext]_toolVars
  BY DEF ServicesNext, serviceVars

(* A behaviour of the services is one of each of them; of promotions the   *)
(* fairness is asked only when they are the part that runs.                *)
THEOREM ServicesAreParts ==
  ServicesSpec => /\ RunSpec /\ BreakerSpec /\ LlmSpec /\ ToolSpec
                  /\ FeedbackInit /\ [][FeedbackNext]_feedbackVars
<1>1. ServicesInit => RunInit /\ FeedbackInit /\ BreakerInit /\ LlmInit /\ ToolInit
  BY DEF ServicesInit
<1>. QED
  BY <1>1, ServicesMove, PTL
     DEF ServicesSpec, ServicesFairness, RunSpec, BreakerSpec, LlmSpec, ToolSpec

(* Every column and every local of every service keeps its type.           *)
THEOREM ServicesTypeCorrect ==
  ASSUME IsFiniteSet(Invocations)
  PROVE  ServicesSpec => []ServicesTypeOK
<1>1. RunTypeOK /\ FeedbackTypeOK /\ (BreakerTypeOK /\ FieldsAgree) /\ LlmTypeOK /\ ToolTypeOK
        => ServicesTypeOK
  BY DEF ServicesTypeOK
<1>. QED
  BY <1>1, ServicesAreParts, RunTypeCorrect, FTypes, FieldsCorrect, GatewayTypeCorrect, ToolTypeCorrect, PTL

(* What the run of the services checks of all of them, with one promotion  *)
(* of feedback at a time.                                                  *)
THEOREM ServicesKeep ==
  ASSUME \A p, q \in Promoters : p = q
  PROVE  ServicesSpec => [](RunsKept /\ FeedbackKept /\ BreakerKept /\ UsageKept /\ ToolsKept)
  BY ServicesAreParts, RunsBacked, FKeeps, BreakerSound, GatewayAccounts, ToolRunsTell, PTL
=============================================================================
