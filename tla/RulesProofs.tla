----------------------------- MODULE RulesProofs -----------------------------
(***************************************************************************)
(* What the system tells or decides by rule: the alerts of the nightly     *)
(* evaluation, the report of a load test, the variants of a prompt         *)
(* experiment, the freeze of an SLO, the risk of a release and what a      *)
(* retention sweep deletes, whatever they are made with.  What a sum, the  *)
(* buckets of an experiment or a cascade comes to is shown by way of a     *)
(* least counterexample.                                                   *)
(***************************************************************************)
EXTENDS EvalTrend, PerfBudgets, PromptExperiments, ReleaseRisk, Retention,
        FiniteSetTheorems, SequenceTheorems, WellFoundedInduction, TLAPS

(* Of the numbers in S one is the least: what fails for some number fails  *)
(* for one below which it does not.                                        *)
LEMMA LeastOf ==
  ASSUME NEW S \in SUBSET Nat, S # {}
  PROVE  \E x \in S : \A y \in S : x <= y
<1>1. PICK m \in S : \A y \in S : ~(<<y, m>> \in OpToRel(<, Nat))
  BY NatLessThanWellFounded, WFMin
<1>2. \A y \in S : m <= y
  <2> SUFFICES ASSUME NEW y \in S PROVE m <= y
    OBVIOUS
  <2>1. y \in Nat /\ m \in Nat
    OBVIOUS
  <2>2. y < m => <<y, m>> \in OpToRel(<, Nat)
    <3> SUFFICES ASSUME y < m PROVE <<y, m>> \in OpToRel(<, Nat)
      OBVIOUS
    <3>1. <<y, m>> \in Nat \X Nat
      BY <2>1
    <3>. QED
      BY <3>1 DEF OpToRel
  <2>3. ~(y < m)
    BY <1>1, <2>2, Zenon
  <2>. QED
    BY <2>1, <2>3
<1>. QED
  BY <1>2

-----------------------------------------------------------------------------
(* Sums over finite sets.  What a fold computes is proved by descent: if a *)
(* claim fails for a finite set, it fails for one with the least number of *)
(* elements.                                                               *)

(* Of the sets in C, all of them finite, one has the fewest elements.      *)
LEMMA Smallest ==
  ASSUME NEW C, C # {}, \A s \in C : IsFiniteSet(s)
  PROVE  \E s \in C : \A t \in C : Cardinality(s) <= Cardinality(t)
<1> DEFINE sizes == {Cardinality(s) : s \in C}
<1>1. sizes \in SUBSET Nat /\ sizes # {}
  BY FS_CardinalityType
<1>2. PICK n \in sizes : \A m \in sizes : n <= m
  BY <1>1, LeastOf
<1>. QED
  BY <1>2

Pick(s) == CHOOSE x \in s : TRUE

(* F adds up f over every subset of S. *)
AddsUp(f, S, F) ==
  F = [s \in SUBSET S |-> IF s = {} THEN 0 ELSE f[Pick(s)] + F[s \ {Pick(s)}]]

LEMMA SumUnfolds ==
  ASSUME NEW f, NEW S, \E F : AddsUp(f, S, F)
  PROVE  \E F : AddsUp(f, S, F) /\ SumFunctionOnSet(f, S) = F[S]
<1> DEFINE F == CHOOSE F : F = [s \in SUBSET S |->
                 IF s = {} THEN 0 ELSE f[CHOOSE x \in s : TRUE] + F[s \ {CHOOSE x \in s : TRUE}]]
<1>1. SumFunctionOnSet(f, S) = F[S]
  BY DEF SumFunctionOnSet, FoldFunctionOnSet, MapThenFoldSet
<1>2. AddsUp(f, S, F)
  BY DEF AddsUp, Pick
<1>. QED
  BY <1>1, <1>2

LEMMA PickIs ==
  ASSUME NEW s, s # {}, IsFiniteSet(s)
  PROVE  /\ Pick(s) \in s /\ IsFiniteSet(s \ {Pick(s)})
         /\ Cardinality(s) \in Nat /\ Cardinality(s \ {Pick(s)}) = Cardinality(s) - 1
<1>1. Pick(s) \in s
  BY DEF Pick
<1>2. IsFiniteSet(s \ {Pick(s)}) /\ Cardinality(s \ {Pick(s)}) = Cardinality(s) - 1
  BY <1>1, FS_RemoveElement
<1>. QED
  BY <1>1, <1>2, FS_CardinalityType

LEMMA SumsAgree ==
  ASSUME NEW f, NEW S, NEW T, NEW F, NEW G, AddsUp(f, S, F), AddsUp(f, T, G), IsFiniteSet(S)
  PROVE  \A s \in SUBSET (S \cap T) : F[s] = G[s]
<1> DEFINE C == {s \in SUBSET (S \cap T) : F[s] # G[s]}
<1> SUFFICES ASSUME C # {} PROVE FALSE
  OBVIOUS
<1>1. \A s \in C : IsFiniteSet(s)
  BY FS_Subset
<1>2. PICK s \in C : \A t \in C : Cardinality(s) <= Cardinality(t)
  BY <1>1, Smallest
<1>3. s \in SUBSET S /\ s \in SUBSET T /\ F[s] # G[s]
  OBVIOUS
<1>4. /\ F[s] = IF s = {} THEN 0 ELSE f[Pick(s)] + F[s \ {Pick(s)}]
      /\ G[s] = IF s = {} THEN 0 ELSE f[Pick(s)] + G[s \ {Pick(s)}]
  BY <1>3 DEF AddsUp
<1>5. s # {} /\ F[s \ {Pick(s)}] # G[s \ {Pick(s)}]
  BY <1>3, <1>4
<1>6. s \ {Pick(s)} \in C
  BY <1>3, <1>5
<1>7. Cardinality(s) \in Nat /\ Cardinality(s \ {Pick(s)}) = Cardinality(s) - 1
  BY <1>1, <1>5, PickIs
<1>. QED
  BY <1>2, <1>6, <1>7

LEMMA SumsExist ==
  ASSUME NEW f, NEW S, IsFiniteSet(S)
  PROVE  \E F : AddsUp(f, S, F)
<1> DEFINE C == {s \in SUBSET S : ~\E F : AddsUp(f, s, F)}
<1> SUFFICES ASSUME C # {} PROVE FALSE
  OBVIOUS
<1>1. \A s \in SUBSET S : IsFiniteSet(s)
  BY FS_Subset
<1>2. PICK T \in C : \A t \in C : Cardinality(T) <= Cardinality(t)
  BY <1>1, Smallest
<1>3. T \in SUBSET S /\ IsFiniteSet(T) /\ ~\E F : AddsUp(f, T, F)
  BY <1>1
<1> DEFINE Of(u) == CHOOSE F : AddsUp(f, u, F)
           G == [s \in SUBSET T |-> IF s = {} THEN 0 ELSE f[Pick(s)] + Of(s \ {Pick(s)})[s \ {Pick(s)}]]
<1> HIDE DEF C
<1>4. \A u \in SUBSET T : u # T => AddsUp(f, u, Of(u))
  <2> SUFFICES ASSUME NEW u \in SUBSET T, u # T PROVE \E F : AddsUp(f, u, F)
    OBVIOUS
  <2>1. Cardinality(u) < Cardinality(T)
    <3>1. /\ Cardinality(u) <= Cardinality(T) /\ Cardinality(T) # Cardinality(u)
          /\ IsFiniteSet(u)
      BY <1>3, FS_Subset
    <3>. QED
      BY <1>3, <3>1, FS_CardinalityType
  <2>2. u \notin C
    <3>1. Cardinality(u) \in Nat /\ Cardinality(T) \in Nat
      BY <1>1, <1>3, FS_CardinalityType
    <3>. QED
      BY <1>2, <2>1, <3>1
  <2>. QED
    BY <1>3, <2>2 DEF C
<1> HIDE DEF Of
<1>5. ASSUME NEW s \in SUBSET T, s # {}
      PROVE  G[s \ {Pick(s)}] = Of(s \ {Pick(s)})[s \ {Pick(s)}]
  <2> DEFINE u == s \ {Pick(s)}
             v == u \ {Pick(u)}
  <2>1. u \in SUBSET T /\ u # T /\ IsFiniteSet(u) /\ Pick(s) \in s
    <3>1. Pick(s) \in s
      BY <1>5 DEF Pick
    <3>. QED
      BY <1>1, <1>3, <3>1
  <2>2. AddsUp(f, u, Of(u))
    BY <1>4, <2>1
  <2>3. Of(u)[u] = IF u = {} THEN 0 ELSE f[Pick(u)] + Of(u)[v]
    BY <2>2 DEF AddsUp
  <2>4. G[u] = IF u = {} THEN 0 ELSE f[Pick(u)] + Of(v)[v]
    BY <2>1
  <2>5. u # {} => Of(u)[v] = Of(v)[v]
    <3> SUFFICES ASSUME u # {} PROVE Of(u)[v] = Of(v)[v]
      OBVIOUS
    <3>1. v \in SUBSET T /\ v # T
      BY <2>1
    <3>2. AddsUp(f, v, Of(v))
      BY <1>4, <3>1
    <3>3. v \in SUBSET (u \cap v)
      OBVIOUS
    <3> HIDE DEF u, v
    <3>. QED
      BY <2>1, <2>2, <3>2, <3>3, SumsAgree
  <2>. QED
    BY <2>3, <2>4, <2>5
<1>6. AddsUp(f, T, G)
  BY <1>5 DEF AddsUp
<1>. QED
  BY <1>3, <1>6

(* The sum over a finite set is what it says it is.                        *)
LEMMA SumIs ==
  ASSUME NEW f, NEW S, IsFiniteSet(S)
  PROVE  SumFunctionOnSet(f, S) = IF S = {} THEN 0
           ELSE f[Pick(S)] + SumFunctionOnSet(f, S \ {Pick(S)})
<1>1. PICK F : AddsUp(f, S, F) /\ SumFunctionOnSet(f, S) = F[S]
  BY SumsExist, SumUnfolds
<1>2. F[S] = IF S = {} THEN 0 ELSE f[Pick(S)] + F[S \ {Pick(S)}]
  BY <1>1 DEF AddsUp
<1> DEFINE u == S \ {Pick(S)}
<1>3. IsFiniteSet(u)
  BY FS_Subset
<1>4. PICK G : AddsUp(f, u, G) /\ SumFunctionOnSet(f, u) = G[u]
  BY <1>3, SumsExist, SumUnfolds
<1>5. u \in SUBSET (S \cap u)
  OBVIOUS
<1> HIDE DEF u
<1>6. F[u] = G[u]
  BY <1>1, <1>4, <1>5, SumsAgree
<1>. QED
  BY <1>1, <1>2, <1>4, <1>6 DEF u

LEMMA SumEmpty ==
  ASSUME NEW f
  PROVE  SumFunctionOnSet(f, {}) = 0
  BY SumIs, FS_EmptySet

(* Integers add up to one, and what is never negative to something that    *)
(* is not.                                                                 *)
LEMMA SumInt ==
  ASSUME NEW f, NEW S, IsFiniteSet(S), \A x \in S : f[x] \in Int
  PROVE  SumFunctionOnSet(f, S) \in Int
<1> DEFINE C == {s \in SUBSET S : SumFunctionOnSet(f, s) \notin Int}
<1> SUFFICES ASSUME C # {} PROVE FALSE
  OBVIOUS
<1>1. \A s \in C : IsFiniteSet(s)
  BY FS_Subset
<1>2. PICK s \in C : \A t \in C : Cardinality(s) <= Cardinality(t)
  BY <1>1, Smallest
<1>3. IsFiniteSet(s) /\ s \in SUBSET S /\ SumFunctionOnSet(f, s) \notin Int
  BY <1>1
<1>4. SumFunctionOnSet(f, s) = IF s = {} THEN 0 ELSE f[Pick(s)] + SumFunctionOnSet(f, s \ {Pick(s)})
  BY <1>3, SumIs
<1>5. s # {}
  BY <1>3, <1>4
<1>6. /\ Pick(s) \in s /\ Cardinality(s) \in Nat
      /\ Cardinality(s \ {Pick(s)}) = Cardinality(s) - 1
  BY <1>3, <1>5, PickIs
<1>7. s \ {Pick(s)} \notin C
  BY <1>2, <1>6
<1>. QED
  BY <1>3, <1>4, <1>5, <1>6, <1>7

LEMMA SumNat ==
  ASSUME NEW f, NEW S, IsFiniteSet(S), \A x \in S : f[x] \in Nat
  PROVE  SumFunctionOnSet(f, S) \in Nat
<1> DEFINE C == {s \in SUBSET S : SumFunctionOnSet(f, s) \notin Nat}
<1> SUFFICES ASSUME C # {} PROVE FALSE
  OBVIOUS
<1>1. \A s \in C : IsFiniteSet(s)
  BY FS_Subset
<1>2. PICK s \in C : \A t \in C : Cardinality(s) <= Cardinality(t)
  BY <1>1, Smallest
<1>3. IsFiniteSet(s) /\ s \in SUBSET S /\ SumFunctionOnSet(f, s) \notin Nat
  BY <1>1
<1>4. SumFunctionOnSet(f, s) = IF s = {} THEN 0 ELSE f[Pick(s)] + SumFunctionOnSet(f, s \ {Pick(s)})
  BY <1>3, SumIs
<1>5. s # {}
  BY <1>3, <1>4
<1>6. /\ Pick(s) \in s /\ Cardinality(s) \in Nat
      /\ Cardinality(s \ {Pick(s)}) = Cardinality(s) - 1
  BY <1>3, <1>5, PickIs
<1>7. s \ {Pick(s)} \notin C
  BY <1>2, <1>6
<1>. QED
  BY <1>3, <1>4, <1>5, <1>6, <1>7

(* Any element may be taken out first.                                     *)
LEMMA SumAdd ==
  ASSUME NEW f, NEW S, IsFiniteSet(S), \A y \in S : f[y] \in Int, NEW x \in S
  PROVE  SumFunctionOnSet(f, S) = f[x] + SumFunctionOnSet(f, S \ {x})
<1> DEFINE Sum(s) == SumFunctionOnSet(f, s)
           C == {s \in SUBSET S : \E y \in s : Sum(s) # f[y] + Sum(s \ {y})}
<1> SUFFICES ASSUME C # {} PROVE FALSE
  OBVIOUS
<1>1. \A s \in SUBSET S : IsFiniteSet(s) /\ Sum(s) \in Int
  BY FS_Subset, SumInt
<1>2. PICK s \in C : \A t \in C : Cardinality(s) <= Cardinality(t)
  BY <1>1, Smallest
<1>3. PICK y \in s : Sum(s) # f[y] + Sum(s \ {y})
  OBVIOUS
<1> DEFINE p == Pick(s)
<1>4. IsFiniteSet(s) /\ s \in SUBSET S
  BY <1>1
<1>5. Sum(s) = f[p] + Sum(s \ {p}) /\ p \in s
  BY <1>4, SumIs, PickIs
<1>6. y # p
  BY <1>3, <1>5
<1>7. \A z \in s : s \ {z} \notin C
  <2> SUFFICES ASSUME NEW z \in s PROVE s \ {z} \notin C
    OBVIOUS
  <2>1. Cardinality(s \ {z}) = Cardinality(s) - 1 /\ Cardinality(s) \in Nat
    BY <1>4, FS_RemoveElement, FS_CardinalityType
  <2>. QED
    BY <1>2, <2>1
<1> HIDE DEF p, Sum
<1>8. Sum(s \ {p}) = f[y] + Sum((s \ {p}) \ {y})
  BY <1>4, <1>5, <1>6, <1>7
<1>9. Sum(s \ {y}) = f[p] + Sum((s \ {y}) \ {p})
  BY <1>4, <1>5, <1>6, <1>7
<1>10. (s \ {p}) \ {y} = (s \ {y}) \ {p}
  OBVIOUS
<1> DEFINE rest == Sum((s \ {y}) \ {p})  noP == Sum(s \ {p})  noY == Sum(s \ {y})  all == Sum(s)
<1>11. rest \in Int /\ f[y] \in Int /\ f[p] \in Int
  BY <1>1, <1>4, <1>5
<1>12. all # f[y] + noY /\ all = f[p] + noP /\ noP = f[y] + rest /\ noY = f[p] + rest
  BY <1>3, <1>5, <1>8, <1>9, <1>10
<1> HIDE DEF rest, noP, noY, all
<1>. QED
  BY <1>11, <1>12

(* The terms decide the sum, and bound it.                                 *)
LEMMA SumMono ==
  ASSUME NEW f, NEW g, NEW S, IsFiniteSet(S),
         \A x \in S : f[x] \in Int /\ g[x] \in Int /\ f[x] <= g[x]
  PROVE  SumFunctionOnSet(f, S) <= SumFunctionOnSet(g, S)
<1> DEFINE C == {s \in SUBSET S : ~(SumFunctionOnSet(f, s) <= SumFunctionOnSet(g, s))}
<1> SUFFICES ASSUME C # {} PROVE FALSE
  OBVIOUS
<1>1. \A s \in SUBSET S : /\ IsFiniteSet(s) /\ SumFunctionOnSet(f, s) \in Int
                          /\ SumFunctionOnSet(g, s) \in Int
  BY FS_Subset, SumInt
<1>2. PICK s \in C : \A t \in C : Cardinality(s) <= Cardinality(t)
  BY <1>1, Smallest
<1>3. IsFiniteSet(s) /\ s \in SUBSET S /\ ~(SumFunctionOnSet(f, s) <= SumFunctionOnSet(g, s))
  BY <1>1
<1>4. /\ SumFunctionOnSet(f, s) = IF s = {} THEN 0 ELSE f[Pick(s)] + SumFunctionOnSet(f, s \ {Pick(s)})
      /\ SumFunctionOnSet(g, s) = IF s = {} THEN 0 ELSE g[Pick(s)] + SumFunctionOnSet(g, s \ {Pick(s)})
  BY <1>3, SumIs
<1>5. s # {}
  BY <1>3, <1>4
<1>6. /\ Pick(s) \in s /\ Cardinality(s) \in Nat
      /\ Cardinality(s \ {Pick(s)}) = Cardinality(s) - 1
  BY <1>3, <1>5, PickIs
<1>7. s \ {Pick(s)} \notin C
  BY <1>2, <1>6
<1> DEFINE r == s \ {Pick(s)}
<1>8. r \in SUBSET S /\ SumFunctionOnSet(f, r) <= SumFunctionOnSet(g, r)
  BY <1>3, <1>7
<1>9. /\ SumFunctionOnSet(f, r) \in Int /\ SumFunctionOnSet(g, r) \in Int
      /\ f[Pick(s)] \in Int /\ g[Pick(s)] \in Int /\ f[Pick(s)] <= g[Pick(s)]
  BY <1>1, <1>3, <1>6, <1>8
<1> HIDE DEF r
<1>. QED
  BY <1>3, <1>4, <1>5, <1>8, <1>9 DEF r

LEMMA SumSame ==
  ASSUME NEW f, NEW g, NEW S, IsFiniteSet(S), \A x \in S : f[x] \in Int /\ f[x] = g[x]
  PROVE  SumFunctionOnSet(f, S) = SumFunctionOnSet(g, S)
<1>1. SumFunctionOnSet(f, S) \in Int /\ SumFunctionOnSet(g, S) \in Int
  BY SumInt
<1>2. SumFunctionOnSet(f, S) <= SumFunctionOnSet(g, S)
  BY SumMono
<1>3. SumFunctionOnSet(g, S) <= SumFunctionOnSet(f, S)
  BY SumMono
<1>. QED
  BY <1>1, <1>2, <1>3

(* What is left out of a sum of naturals is what the sum gets smaller by,  *)
(* and a sum that is positive has a term that is.                          *)
LEMMA SumSplit ==
  ASSUME NEW f, NEW S, IsFiniteSet(S), \A x \in S : f[x] \in Int, NEW A, A \subseteq S
  PROVE  SumFunctionOnSet(f, S) = SumFunctionOnSet(f, A) + SumFunctionOnSet(f, S \ A)
<1> DEFINE Sum(s) == SumFunctionOnSet(f, s)
           C == {s \in SUBSET A : Sum(S) # Sum(s) + Sum(S \ s)}
<1> SUFFICES ASSUME C # {} PROVE FALSE
  OBVIOUS
<1>1. \A s \in SUBSET S : IsFiniteSet(s) /\ Sum(s) \in Int
  BY FS_Subset, SumInt
<1>2. PICK s \in C : \A t \in C : Cardinality(s) <= Cardinality(t)
  BY <1>1, Smallest
<1>3. IsFiniteSet(s) /\ s \in SUBSET S /\ s \in SUBSET A /\ Sum(S) # Sum(s) + Sum(S \ s)
  BY <1>1
<1>4. s # {}
  <2>1. S \ {} = S /\ Sum({}) = 0 /\ Sum(S) \in Int
    BY <1>1, SumEmpty
  <2>. QED
    BY <1>3, <2>1
<1>5. PICK x \in s : TRUE
  BY <1>4
<1> DEFINE r == s \ {x}
<1>6. Cardinality(r) = Cardinality(s) - 1 /\ Cardinality(s) \in Nat
  BY <1>3, FS_RemoveElement, FS_CardinalityType
<1>7. Sum(S) = Sum(r) + Sum(S \ r)
  BY <1>2, <1>3, <1>6
<1>8. Sum(s) = f[x] + Sum(r)
  BY <1>3, SumAdd
<1>9. Sum(S \ r) = f[x] + Sum(S \ s)
  <2>1. x \in S \ r /\ IsFiniteSet(S \ r) /\ \A y \in S \ r : f[y] \in Int
    BY <1>1, <1>3
  <2>2. Sum(S \ r) = f[x] + Sum((S \ r) \ {x})
    BY <2>1, SumAdd
  <2>3. (S \ r) \ {x} = S \ s
    BY <1>3
  <2> HIDE DEF r
  <2>. QED
    BY <2>2, <2>3
<1> DEFINE all == Sum(S)  kept == Sum(s)  rest == Sum(S \ s)  less == Sum(r)  more == Sum(S \ r)
<1>10. less \in Int /\ rest \in Int /\ f[x] \in Int
  BY <1>1, <1>3
<1>11. all # kept + rest /\ all = less + more /\ kept = f[x] + less /\ more = f[x] + rest
  BY <1>3, <1>7, <1>8, <1>9
<1> HIDE DEF all, kept, rest, less, more
<1>. QED
  BY <1>10, <1>11

LEMMA SumPositive ==
  ASSUME NEW f, NEW S, IsFiniteSet(S), SumFunctionOnSet(f, S) # 0,
         \A x \in S : f[x] \in Int
  PROVE  \E x \in S : f[x] # 0
<1> SUFFICES ASSUME \A x \in S : f[x] = 0 PROVE FALSE
  OBVIOUS
<1> DEFINE C == {s \in SUBSET S : SumFunctionOnSet(f, s) # 0}
<1>1. \A s \in C : IsFiniteSet(s)
  BY FS_Subset
<1>2. PICK s \in C : \A t \in C : Cardinality(s) <= Cardinality(t)
  BY <1>1, Smallest
<1>3. IsFiniteSet(s) /\ s \in SUBSET S /\ SumFunctionOnSet(f, s) # 0
  BY <1>1
<1>4. SumFunctionOnSet(f, s) = IF s = {} THEN 0 ELSE f[Pick(s)] + SumFunctionOnSet(f, s \ {Pick(s)})
  BY <1>3, SumIs
<1>5. s # {}
  BY <1>3, <1>4
<1>6. /\ Pick(s) \in s /\ Cardinality(s) \in Nat
      /\ Cardinality(s \ {Pick(s)}) = Cardinality(s) - 1
  BY <1>3, <1>5, PickIs
<1>7. s \ {Pick(s)} \notin C
  BY <1>2, <1>6
<1>. QED
  BY <1>3, <1>4, <1>5, <1>6, <1>7

-----------------------------------------------------------------------------
(* The nightly evaluation.                                                 *)

AllCards == UNION {Cards[a] : a \in Agents}
TargetOf(a)   == CHOOSE i \in DOMAIN Targets : Targets[i] = a
TrendEntry == [finished_at : Nat, overall_pass_rate : {overall_pass_rate(card) : card \in AllCards}]
Alert == [kind : {"gate_regression", "trend_decline"}, agent : Agents, night : Nat]

(* The report that is or may yet be consumed is that of the last night.    *)
ReportInv ==
  /\ stage \in {"rest", "evaluating", "consuming", "emitting"}
  /\ turn \in 0..Len(Targets) /\ night \in 0..Nights
  /\ results \in Seq(AllCards) /\ Len(results) <= Len(Targets)
  /\ \A i \in DOMAIN results : results[i] \in Cards[Targets[i]]
  /\ DOMAIN scored = Agents
  /\ \A a \in Agents : scored[a] \in Seq(Cards[a]) /\ Len(scored[a]) = night
  /\ unbroken \subseteq 1..night /\ ended \subseteq 1..night
  /\ stage = "evaluating" => Len(results) = turn /\ night < Nights
  /\ stage = "emitting" => turn = Len(Targets)
  /\ stage \in {"consuming", "emitting"} => night > 0 /\ night \notin ended
  /\ stage \in {"consuming", "emitting"} \/ (stage = "rest" /\ results # <<>>) =>
       /\ Len(results) = Len(Targets)
       /\ \A i \in DOMAIN Targets : results[i] = scored[Targets[i]][night]

(* The agent's entry of that night is there.                               *)
OnRecord(a, n) == n < night \/ stage # "consuming" \/ TargetOf(a) <= turn

(* The entries are those of nights, in their order; a night that was       *)
(* consumed in one go has one of each agent.                               *)
EntriesOf(a) ==
  /\ trends[a] \in Seq(TrendEntry)
  /\ \A i \in DOMAIN trends[a] :
       /\ trends[a][i].finished_at \in 1..night
       /\ trends[a][i].overall_pass_rate = overall_pass_rate(scored[a][trends[a][i].finished_at])
  /\ \A i, j \in DOMAIN trends[a] :
       /\ i <= j => trends[a][i].finished_at <= trends[a][j].finished_at
       /\ trends[a][i].finished_at = trends[a][j].finished_at
            /\ trends[a][i].finished_at \in unbroken => i = j
  /\ \A n \in unbroken :
       OnRecord(a, n) <=> \E i \in DOMAIN trends[a] : trends[a][i].finished_at = n
EntryInv == DOMAIN trends = Agents /\ \A a \in Agents : EntriesOf(a)

WindowOf(n) == (n - trend_window + 1)..n

Right(x) ==
  /\ x.night \in 1..night
  /\ x.kind = "gate_regression" => Regressed(x.agent, x.night)
  /\ x.kind = "trend_decline" /\ WindowOf(x.night) \subseteq unbroken => Declined(x.agent, x.night)

Reported(a, n, told) ==
  /\ Regressed(a, n) => [kind |-> "gate_regression", agent |-> a, night |-> n] \in told
  /\ WindowOf(n) \subseteq unbroken /\ Declined(a, n) =>
       [kind |-> "trend_decline", agent |-> a, night |-> n] \in told

(* Nothing but what is so is raised or told; what is so has been told once *)
(* the night has ended, and raised once the agent has been consumed.       *)
AlertInv ==
  /\ alerts \in Seq(Alert) /\ delivered \subseteq Alert
  /\ stage \notin {"consuming", "emitting"} => alerts = <<>>
  /\ \A i \in DOMAIN alerts : alerts[i].night = night /\ Right(alerts[i])
  /\ \A x \in delivered : Right(x)
  /\ \A a \in Agents :
       /\ \A n \in ended : Reported(a, n, delivered)
       /\ stage = "emitting" \/ (stage = "consuming" /\ TargetOf(a) <= turn) =>
            Reported(a, night, delivered \cup Range(alerts))

TrendInv == ReportInv /\ EntryInv /\ AlertInv

LEMMA AppendIs ==
  ASSUME NEW S, NEW s \in Seq(S), NEW x \in S
  PROVE  /\ Append(s, x) \in Seq(S) /\ Len(Append(s, x)) = Len(s) + 1 /\ Len(s) \in Nat
         /\ DOMAIN s = 1..Len(s) /\ DOMAIN Append(s, x) = 1..(Len(s) + 1)
         /\ \A i \in 1..Len(s) : Append(s, x)[i] = s[i]
         /\ Append(s, x)[Len(s) + 1] = x
  OBVIOUS

LEMMA PlaceIs ==
  /\ Len(Targets) \in Nat /\ DOMAIN Targets = 1..Len(Targets)
  /\ \A a \in Agents : TargetOf(a) \in 1..Len(Targets) /\ Targets[TargetOf(a)] = a
  /\ \A i \in 1..Len(Targets) : Targets[i] \in Agents /\ TargetOf(Targets[i]) = i
<1>1. Len(Targets) \in Nat /\ DOMAIN Targets = 1..Len(Targets)
  BY TrendAssumption
<1>2. \A a \in Agents : \E i \in DOMAIN Targets : Targets[i] = a
  BY DEF Agents, Range
<1>3. \A a \in Agents : TargetOf(a) \in DOMAIN Targets /\ Targets[TargetOf(a)] = a
  BY <1>2 DEF TargetOf
<1>4. \A i \in DOMAIN Targets : Targets[i] \in Agents
  BY DEF Agents, Range
<1>5. \A i, j \in DOMAIN Targets : Targets[i] = Targets[j] => i = j
  BY TrendAssumption DEF IsInjective
<1>. QED
  BY <1>1, <1>3, <1>4, <1>5

LEMMA TrendInitInv == TrendInit => TrendInv
<1> SUFFICES ASSUME TrendInit PROVE TrendInv
  OBVIOUS
<1> USE DEF TrendInit
<1>1. ReportInv
  <2>1. 0 \in 0..Len(Targets) /\ 0 \in 0..Nights
    BY PlaceIs, TrendAssumption
  <2>2. <<>> \in Seq(AllCards) /\ Len(<<>>) = 0 /\ \A a \in Agents : <<>> \in Seq(Cards[a])
    OBVIOUS
  <2>. QED
    BY <2>1, <2>2, PlaceIs DEF ReportInv
<1>2. EntryInv
  BY DEF EntryInv, EntriesOf
<1>3. AlertInv
  BY DEF AlertInv
<1>. QED
  BY <1>1, <1>2, <1>3 DEF TrendInv

-----------------------------------------------------------------------------
(* A scorecard that is on record stays as it is, and so does what is said  *)
(* of it.                                                                  *)
LEMMA SaidOfNights ==
  ASSUME ReportInv, ReportInv', UNCHANGED scored \/ FinishNightly,
         NEW a \in Agents, NEW n \in 1..night
  PROVE  /\ scored'[a][n] = scored[a][n]
         /\ Regressed(a, n)' <=> Regressed(a, n)
         /\ Declined(a, n)' <=> Declined(a, n)
<1>1. night \in Nat /\ Len(scored[a]) = night /\ scored[a] \in Seq(Cards[a])
  BY DEF ReportInv
<1>2. \A m \in 1..night : scored'[a][m] = scored[a][m]
  <2>1. CASE UNCHANGED scored
    BY <2>1
  <2>2. CASE FinishNightly
    <3>1. PICK card : scored'[a] = Append(scored[a], card)
      BY <2>2 DEF FinishNightly
    <3>. QED
      BY <1>1, <3>1
  <2>. QED
    BY <2>1, <2>2
<1>3. scored'[a][n] = scored[a][n]
  BY <1>2
<1>4. Regressed(a, n)' <=> Regressed(a, n)
  BY <1>3 DEF Regressed
<1>5. Declined(a, n)' <=> Declined(a, n)
  <2>1. CASE n < trend_window
    BY <1>1, <2>1, TrendAssumption DEF Declined
  <2>2. CASE ~(n < trend_window)
    <3>1. trend_window \in Nat \ {0} /\ n - trend_window + 1 \in 1..night /\ n \in 1..night
      BY <1>1, <2>2, TrendAssumption
    <3>2. \A m \in (n - trend_window + 1)..(n - 1) : m \in 1..night /\ m + 1 \in 1..night
      BY <1>1, <3>1
    <3> DEFINE rate(m) == overall_pass_rate(scored[a][m])
               now(m)  == overall_pass_rate(scored'[a][m])
    <3>3. \A m \in 1..night : now(m) = rate(m)
      BY <1>2
    <3>4. Declined(a, n) <=>
            /\ n >= trend_window
            /\ \A m \in (n - trend_window + 1)..(n - 1) : rate(m + 1) < rate(m)
            /\ rate(n - trend_window + 1) - rate(n) >= decline_threshold
      BY DEF Declined
    <3>5. Declined(a, n)' <=>
            /\ n >= trend_window
            /\ \A m \in (n - trend_window + 1)..(n - 1) : now(m + 1) < now(m)
            /\ now(n - trend_window + 1) - now(n) >= decline_threshold
      BY DEF Declined
    <3> HIDE DEF rate, now
    <3>. QED
      BY <3>1, <3>2, <3>3, <3>4, <3>5
  <2>. QED
    BY <1>1, <2>1, <2>2, TrendAssumption
<1>. QED
  BY <1>3, <1>4, <1>5

LEMMA ReportGoesOn ==
  ASSUME ReportInv, [TrendNext]_trendVars
  PROVE  ReportInv'
<1>1. CASE StartNightly
  BY <1>1, PlaceIs, TrendAssumption DEF StartNightly, ReportInv
<1>2. CASE RunOne
  <2>1. /\ stage = "evaluating" /\ turn < Len(Targets) /\ turn' = turn + 1
        /\ UNCHANGED <<stage, night, scored, unbroken, ended>>
    BY <1>2 DEF RunOne
  <2>2. PICK card \in Cards[Targets[turn + 1]] : results' = Append(results, card)
    BY <1>2 DEF RunOne
  <2>3. results \in Seq(AllCards) /\ Len(results) = turn /\ turn \in Nat
    BY <2>1 DEF ReportInv
  <2>4. card \in AllCards
    BY <2>1, <2>3, PlaceIs DEF AllCards
  <2>5. /\ results' \in Seq(AllCards) /\ Len(results') = turn + 1
        /\ \A i \in DOMAIN results' : results'[i] \in Cards[Targets[i]]
    <3>1. \A i \in 1..turn : results[i] \in Cards[Targets[i]]
      BY <2>3 DEF ReportInv
    <3>. QED
      BY <2>2, <2>3, <2>4, <3>1, AppendIs
  <2>6. turn' \in 0..Len(Targets) /\ Len(results') <= Len(Targets) /\ Len(results') = turn'
    BY <2>1, <2>3, <2>5, PlaceIs
  <2>. QED
    BY <2>1, <2>5, <2>6 DEF ReportInv
<1>3. CASE NightlyFails
  BY <1>3, PlaceIs, TrendAssumption DEF NightlyFails, ReportInv
<1>4. CASE FinishNightly
  <2>1. /\ stage = "evaluating" /\ turn = Len(Targets) /\ night' = night + 1
        /\ unbroken' = unbroken \cup {night + 1} /\ stage' = "consuming" /\ turn' = 0
        /\ scored' = [a \in Agents |-> Append(scored[a], results[TargetOf(a)])]
        /\ UNCHANGED <<results, ended>>
    BY <1>4 DEF FinishNightly, TargetOf
  <2>2. /\ night \in Nat /\ Nights \in Nat /\ night < Nights /\ Len(results) = Len(Targets)
        /\ \A i \in DOMAIN Targets : results[i] \in Cards[Targets[i]]
    BY <2>1, TrendAssumption DEF ReportInv
  <2>3. night' \in 0..Nights /\ night' > 0 /\ turn' \in 0..Len(Targets)
    BY <2>1, <2>2, PlaceIs
  <2>4. unbroken' \subseteq 1..night' /\ ended' \subseteq 1..night' /\ night' \notin ended'
    BY <2>1, <2>2 DEF ReportInv
  <2>5. ASSUME NEW a \in Agents
        PROVE  /\ scored'[a] \in Seq(Cards[a]) /\ Len(scored'[a]) = night'
               /\ scored'[a][night'] = results[TargetOf(a)]
    <3>1. scored[a] \in Seq(Cards[a]) /\ Len(scored[a]) = night /\ results[TargetOf(a)] \in Cards[a]
      BY <2>2, PlaceIs DEF ReportInv
    <3> DEFINE card == results[TargetOf(a)]
    <3>2. scored'[a] = Append(scored[a], card)
      BY <2>1
    <3> HIDE DEF card
    <3>3. /\ Append(scored[a], card) \in Seq(Cards[a])
          /\ Len(Append(scored[a], card)) = night + 1
          /\ Append(scored[a], card)[night + 1] = card
      <4>1. scored[a] \in Seq(Cards[a]) /\ Len(scored[a]) = night /\ card \in Cards[a]
        BY <3>1 DEF card
      <4> DEFINE cards == scored[a]
                 S == Cards[a]
      <4>2. cards \in Seq(S) /\ Len(cards) = night /\ card \in S
        BY <4>1
      <4> HIDE DEF cards, S
      <4>3. /\ Append(cards, card) \in Seq(S) /\ Len(Append(cards, card)) = Len(cards) + 1
            /\ Append(cards, card)[Len(cards) + 1] = card
        BY <4>2, AppendIs
      <4>. QED
        BY <4>2, <4>3 DEF cards, S
    <3>. QED
      BY <2>1, <3>2, <3>3 DEF card
  <2>6. \A i \in DOMAIN Targets : results[i] = scored'[Targets[i]][night']
    BY <2>5, PlaceIs
  <2>7. /\ results \in Seq(AllCards) /\ Len(results) <= Len(Targets)
        /\ \A i \in DOMAIN results : results[i] \in Cards[Targets[i]]
    BY DEF ReportInv
  <2>8. DOMAIN scored' = Agents
    BY <2>1
  <2>. QED
    BY <2>1, <2>2, <2>3, <2>4, <2>5, <2>6, <2>7, <2>8 DEF ReportInv
<1>5. CASE ConsumeOne
  <2>1. /\ stage = "consuming" /\ turn < Len(Targets) /\ turn' = turn + 1
        /\ UNCHANGED <<stage, results, night, scored, unbroken, ended>>
    BY <1>5 DEF ConsumeOne
  <2>. QED
    BY <2>1, PlaceIs DEF ReportInv
<1>6. CASE EmitAlerts
  BY <1>6, PlaceIs, TrendAssumption DEF EmitAlerts, ReportInv
<1>7. CASE Emit
  BY <1>7, PlaceIs, TrendAssumption DEF Emit, ReportInv
<1>8. CASE Consumed
  BY <1>8, PlaceIs, TrendAssumption DEF Consumed, ReportInv
<1>9. CASE ConsumeStops
  BY <1>9, PlaceIs, TrendAssumption DEF ConsumeStops, ReportInv
<1>10. CASE ConsumeAgain
  BY <1>10, PlaceIs, TrendAssumption DEF ConsumeAgain, ReportInv
<1>11. CASE UNCHANGED trendVars
  BY <1>11 DEF trendVars, reportVars, ReportInv
<1>. QED
  BY <1>1, <1>2, <1>3, <1>4, <1>5, <1>6, <1>7, <1>8, <1>9, <1>10, <1>11 DEF TrendNext

-----------------------------------------------------------------------------
(* What leaves the trend store alone.                                      *)
LEMMA EntriesStay ==
  ASSUME ReportInv, ReportInv', EntryInv, trends' = trends, UNCHANGED scored \/ FinishNightly,
         night <= night',
         \A a \in Agents : \A n \in unbroken' :
           \/ n \in unbroken /\ (OnRecord(a, n)' <=> OnRecord(a, n))
           \/ n > night /\ ~OnRecord(a, n)'
  PROVE  EntryInv'
<1> SUFFICES ASSUME NEW a \in Agents PROVE EntriesOf(a)'
  BY DEF EntryInv
<1> DEFINE es == trends[a]
<1>1. night \in Nat /\ night' \in Nat /\ night <= night'
  BY DEF ReportInv
<1>2. /\ es \in Seq(TrendEntry)
      /\ \A i \in DOMAIN es :
           /\ es[i].finished_at \in 1..night
           /\ es[i].overall_pass_rate = overall_pass_rate(scored[a][es[i].finished_at])
      /\ \A i, j \in DOMAIN es :
           /\ i <= j => es[i].finished_at <= es[j].finished_at
           /\ es[i].finished_at = es[j].finished_at /\ es[i].finished_at \in unbroken => i = j
      /\ \A n \in unbroken : OnRecord(a, n) <=> \E i \in DOMAIN es : es[i].finished_at = n
  BY DEF EntryInv, EntriesOf
<1> HIDE DEF es
<1>3. ASSUME NEW i \in DOMAIN es
      PROVE  /\ es[i].finished_at \in 1..night'
             /\ es[i].overall_pass_rate = overall_pass_rate(scored'[a][es[i].finished_at])
  <2>1. es[i].finished_at \in 1..night
    BY <1>2
  <2>2. scored'[a][es[i].finished_at] = scored[a][es[i].finished_at]
    BY <2>1, SaidOfNights
  <2>. QED
    BY <1>1, <1>2, <2>1, <2>2
<1>4. \A i \in DOMAIN es : es[i].finished_at \in unbroken' => es[i].finished_at \in unbroken
  BY <1>1, <1>2
<1>5. \A n \in unbroken' : OnRecord(a, n)' <=> \E i \in DOMAIN es : es[i].finished_at = n
  <2> SUFFICES ASSUME NEW n \in unbroken'
               PROVE  OnRecord(a, n)' <=> \E i \in DOMAIN es : es[i].finished_at = n
    OBVIOUS
  <2>1. n \in Nat
    BY DEF ReportInv
  <2>2. CASE n \in unbroken /\ (OnRecord(a, n)' <=> OnRecord(a, n))
    BY <1>2, <2>2
  <2>3. CASE n > night /\ ~OnRecord(a, n)'
    BY <1>1, <1>2, <2>1, <2>3
  <2>. QED
    BY <2>2, <2>3
<1>6. trends'[a] = es
  BY DEF es
<1>. QED
  BY <1>2, <1>3, <1>4, <1>5, <1>6 DEF EntriesOf

LEMMA EntriesConsumed ==
  ASSUME ReportInv, ReportInv', EntryInv, ConsumeOne
  PROVE  EntryInv'
<1>0. PICK c \in {Targets[turn + 1]} : c = Targets[turn + 1]
  OBVIOUS
<1> DEFINE e == [finished_at |-> night, overall_pass_rate |-> overall_pass_rate(results[turn + 1])]
<1>1. /\ stage = "consuming" /\ turn < Len(Targets) /\ turn' = turn + 1
      /\ trends' = [trends EXCEPT ![c] = Append(trends[c], e)]
      /\ UNCHANGED <<stage, night, scored, unbroken>>
  BY <1>0 DEF ConsumeOne
<1>2. UNCHANGED <<night, scored, unbroken>>
  BY <1>1
<1>3. /\ turn \in Nat /\ Len(Targets) \in Nat /\ c \in Agents /\ TargetOf(c) = turn + 1
      /\ night \in Nat /\ night > 0
  BY <1>0, <1>1, PlaceIs DEF ReportInv
<1>4. /\ results[turn + 1] = scored[c][night] /\ results[turn + 1] \in AllCards
  <2>1. /\ turn + 1 \in DOMAIN Targets /\ turn + 1 \in DOMAIN results
        /\ results[turn + 1] \in Cards[Targets[turn + 1]]
    <3>1. Len(results) = Len(Targets) /\ results \in Seq(AllCards)
      BY <1>1 DEF ReportInv
    <3>2. turn + 1 \in 1..Len(Targets)
      BY <1>1, <1>3
    <3>3. DOMAIN results = 1..Len(Targets) /\ DOMAIN Targets = 1..Len(Targets)
      BY <3>1, PlaceIs
    <3>. QED
      BY <3>2, <3>3 DEF ReportInv
  <2>2. results[turn + 1] = scored[Targets[turn + 1]][night]
    BY <1>1, <2>1 DEF ReportInv
  <2>3. results[turn + 1] \in AllCards
    BY <1>0, <1>3, <2>1 DEF AllCards
  <2>. QED
    BY <1>0, <2>2, <2>3
<1>5. e \in TrendEntry /\ e.finished_at = night /\ e.overall_pass_rate = overall_pass_rate(scored[c][night])
  BY <1>3, <1>4 DEF TrendEntry
<1> HIDE DEF e
<1>6. DOMAIN trends = Agents /\ DOMAIN trends' = Agents
  BY <1>1 DEF EntryInv
<1>7. ASSUME NEW a \in Agents, a # c PROVE EntriesOf(a)'
  <2>1. trends'[a] = trends[a]
    BY <1>1, <1>6, <1>7
  <2>2. TargetOf(a) \in 1..Len(Targets) /\ TargetOf(a) # turn + 1
    BY <1>3, <1>7, PlaceIs
  <2>3. \A n : OnRecord(a, n)' <=> OnRecord(a, n)
    BY <1>1, <1>3, <2>2 DEF OnRecord
  <2> DEFINE es == trends[a]
  <2>4. /\ es \in Seq(TrendEntry)
        /\ \A i \in DOMAIN es :
             /\ es[i].finished_at \in 1..night
             /\ es[i].overall_pass_rate = overall_pass_rate(scored[a][es[i].finished_at])
        /\ \A i, j \in DOMAIN es :
             /\ i <= j => es[i].finished_at <= es[j].finished_at
             /\ es[i].finished_at = es[j].finished_at /\ es[i].finished_at \in unbroken => i = j
        /\ \A n \in unbroken : OnRecord(a, n) <=> \E i \in DOMAIN es : es[i].finished_at = n
    BY DEF EntryInv, EntriesOf
  <2>5. trends'[a] = es
    BY <2>1
  <2> HIDE DEF es
  <2>6. \A n \in unbroken : OnRecord(a, n)' <=> \E i \in DOMAIN es : es[i].finished_at = n
    BY <2>3, <2>4
  <2>. QED
    BY <1>2, <2>4, <2>5, <2>6 DEF EntriesOf
<1>8. EntriesOf(c)'
  <2> DEFINE es == trends[c]
             new == Append(es, e)
  <2>1. /\ es \in Seq(TrendEntry)
        /\ \A i \in DOMAIN es :
             /\ es[i].finished_at \in 1..night
             /\ es[i].overall_pass_rate = overall_pass_rate(scored[c][es[i].finished_at])
        /\ \A i, j \in DOMAIN es :
             /\ i <= j => es[i].finished_at <= es[j].finished_at
             /\ es[i].finished_at = es[j].finished_at /\ es[i].finished_at \in unbroken => i = j
        /\ \A n \in unbroken : OnRecord(c, n) <=> \E i \in DOMAIN es : es[i].finished_at = n
    BY <1>3 DEF EntryInv, EntriesOf
  <2> HIDE DEF es
  <2>2. /\ new \in Seq(TrendEntry) /\ Len(es) \in Nat
        /\ DOMAIN es = 1..Len(es) /\ DOMAIN new = 1..(Len(es) + 1)
        /\ \A i \in 1..Len(es) : new[i] = es[i]
        /\ new[Len(es) + 1] = e
    BY <1>5, <2>1, AppendIs
  <2> HIDE DEF new
  <2>3. night \in unbroken => \A i \in 1..Len(es) : es[i].finished_at # night
    <3>1. ~OnRecord(c, night)
      BY <1>1, <1>3 DEF OnRecord
    <3>2. night \in unbroken => ~\E i \in DOMAIN es : es[i].finished_at = night
      BY <2>1, <3>1
    <3>. QED
      BY <2>2, <3>2
  <2>4. \A i \in 1..Len(es) : es[i].finished_at \in 1..night
    BY <2>1, <2>2
  <2>5. \A i \in DOMAIN new : i \in 1..Len(es) \/ i = Len(es) + 1
    BY <2>2
  <2>6. \A i \in DOMAIN new :
          /\ new[i].finished_at \in 1..night
          /\ new[i].overall_pass_rate = overall_pass_rate(scored[c][new[i].finished_at])
    <3> SUFFICES ASSUME NEW i \in DOMAIN new
                 PROVE  /\ new[i].finished_at \in 1..night
                        /\ new[i].overall_pass_rate = overall_pass_rate(scored[c][new[i].finished_at])
      OBVIOUS
    <3>1. CASE i \in 1..Len(es)
      BY <2>1, <2>2, <3>1
    <3>2. CASE i = Len(es) + 1
      BY <1>3, <1>5, <2>2, <3>2
    <3>. QED
      BY <2>5, <3>1, <3>2
  <2>7. \A i, j \in DOMAIN new : i <= j => new[i].finished_at <= new[j].finished_at
    BY <1>3, <1>5, <2>1, <2>2, <2>4, <2>5
  <2>8. \A i, j \in DOMAIN new :
          new[i].finished_at = new[j].finished_at /\ new[i].finished_at \in unbroken => i = j
    BY <1>5, <2>1, <2>2, <2>3, <2>5
  <2>9. \A n \in unbroken : OnRecord(c, n)' <=> \E i \in DOMAIN new : new[i].finished_at = n
    <3> SUFFICES ASSUME NEW n \in unbroken
                 PROVE  OnRecord(c, n)' <=> \E i \in DOMAIN new : new[i].finished_at = n
      OBVIOUS
    <3>1. n \in 1..night
      BY DEF ReportInv
    <3>2. OnRecord(c, n)'
      BY <1>1, <1>3 DEF OnRecord
    <3>3. CASE n = night
      <4>1. Len(es) + 1 \in DOMAIN new /\ new[Len(es) + 1].finished_at = n
        BY <1>5, <2>2, <3>3
      <4>. QED
        BY <3>2, <4>1
    <3>4. CASE n # night
      <4>1. OnRecord(c, n)
        BY <1>3, <3>1, <3>4 DEF OnRecord
      <4>2. PICK i \in DOMAIN es : es[i].finished_at = n
        BY <2>1, <4>1
      <4>3. i \in DOMAIN new /\ new[i].finished_at = n
        BY <2>2, <4>2
      <4>. QED
        BY <3>2, <4>3
    <3>. QED
      BY <3>3, <3>4
  <2>10. trends'[c] = new
    BY <1>1, <1>3, <1>6 DEF new, es
  <2>. QED
    BY <1>2, <2>2, <2>6, <2>7, <2>8, <2>9, <2>10 DEF EntriesOf
<1>. QED
  BY <1>6, <1>7, <1>8 DEF EntryInv

LEMMA EntryNext ==
  ASSUME TrendInv, ReportInv', [TrendNext]_trendVars
  PROVE  EntryInv'
<1>1. ReportInv /\ EntryInv /\ night \in Nat /\ unbroken \subseteq 1..night
  BY DEF TrendInv, ReportInv
<1>2. \A a \in Agents : TargetOf(a) \in 1..Len(Targets)
  BY PlaceIs
<1>3. CASE StartNightly
  BY <1>1, <1>3, EntriesStay DEF StartNightly, OnRecord
<1>4. CASE RunOne
  BY <1>1, <1>4, EntriesStay DEF RunOne, OnRecord
<1>5. CASE NightlyFails
  BY <1>1, <1>5, EntriesStay DEF NightlyFails, OnRecord
<1>6. CASE FinishNightly
  <2>1. /\ stage = "evaluating" /\ night' = night + 1 /\ trends' = trends
        /\ unbroken' = unbroken \cup {night + 1} /\ stage' = "consuming" /\ turn' = 0
    BY <1>6 DEF FinishNightly
  <2>2. \A a \in Agents : \A n \in unbroken' :
          \/ n \in unbroken /\ (OnRecord(a, n)' <=> OnRecord(a, n))
          \/ n > night /\ ~OnRecord(a, n)'
    <3> SUFFICES ASSUME NEW a \in Agents, NEW n \in unbroken'
                 PROVE  \/ n \in unbroken /\ (OnRecord(a, n)' <=> OnRecord(a, n))
                        \/ n > night /\ ~OnRecord(a, n)'
      OBVIOUS
    <3>1. CASE n \in unbroken
      BY <1>1, <2>1, <3>1 DEF OnRecord
    <3>2. CASE n = night + 1
      BY <1>1, <1>2, <2>1, <3>2 DEF OnRecord
    <3>. QED
      BY <2>1, <3>1, <3>2
  <2>. QED
    BY <1>1, <1>6, <2>1, <2>2, EntriesStay
<1>7. CASE ConsumeOne
  BY <1>1, <1>7, EntriesConsumed
<1>8. CASE EmitAlerts
  <2>1. /\ stage = "consuming" /\ turn = Len(Targets) /\ stage' = "emitting"
        /\ UNCHANGED <<trends, scored, night, unbroken>>
    BY <1>8 DEF EmitAlerts
  <2>2. \A a \in Agents : \A n \in unbroken : OnRecord(a, n)' <=> OnRecord(a, n)
    BY <1>1, <1>2, <2>1, PlaceIs DEF OnRecord
  <2>. QED
    BY <1>1, <2>1, <2>2, EntriesStay
<1>9. CASE Emit
  BY <1>1, <1>9, EntriesStay DEF Emit, OnRecord
<1>10. CASE Consumed
  BY <1>1, <1>10, EntriesStay DEF Consumed, OnRecord
<1>11. CASE ConsumeStops
  BY <1>1, <1>11, EntriesStay DEF ConsumeStops, OnRecord
<1>12. CASE ConsumeAgain
  <2>1. /\ night \notin unbroken /\ UNCHANGED <<trends, scored, night, unbroken>>
        /\ stage = "rest"
    BY <1>12 DEF ConsumeAgain
  <2>2. \A a \in Agents : \A n \in unbroken : OnRecord(a, n)' <=> OnRecord(a, n)
    BY <1>1, <2>1 DEF OnRecord
  <2>. QED
    BY <1>1, <2>1, <2>2, EntriesStay
<1>13. CASE UNCHANGED trendVars
  BY <1>1, <1>13, EntriesStay DEF trendVars, reportVars, OnRecord
<1>. QED
  BY <1>3, <1>4, <1>5, <1>6, <1>7, <1>8, <1>9, <1>10, <1>11, <1>12, <1>13 DEF TrendNext

-----------------------------------------------------------------------------
(* A decline is seen if the entries end with those of the nights of the    *)
(* window, and then exactly if there is one.                               *)
LEMMA DeclineIs ==
  ASSUME NEW E, NEW es \in Seq(E), NEW n \in Nat, NEW rate,
         Len(es) > 0, es[Len(es)].finished_at = n,
         \A i \in DOMAIN es :
           es[i].finished_at \in Nat /\ es[i].overall_pass_rate = rate[es[i].finished_at],
         \A i, j \in DOMAIN es :
           /\ i <= j => es[i].finished_at <= es[j].finished_at
           /\ es[i].finished_at = es[j].finished_at /\ es[i].finished_at \in WindowOf(n) => i = j,
         \A m \in WindowOf(n) : \E i \in DOMAIN es : es[i].finished_at = m
  PROVE  detect_decline(es) <=>
           /\ \A m \in (n - trend_window + 1)..(n - 1) : rate[m + 1] < rate[m]
           /\ rate[n - trend_window + 1] - rate[n] >= decline_threshold
<1> DEFINE w == trend_window
           L == Len(es)
           f == [i \in 1..L |-> es[i].finished_at]
           h == history(es)
           r == [i \in DOMAIN h |-> h[i].overall_pass_rate]
<1>1. w \in Nat \ {0} /\ L \in Nat \ {0} /\ DOMAIN es = 1..L
  BY TrendAssumption
<1>2. w <= L /\ \A k \in 0..(w - 1) : f[L - k] = n - k
  <2>1. f \in [1..L -> Nat] /\ f[L] = n
    BY <1>1
  <2>2. \A i, j \in 1..L : i <= j => f[i] <= f[j]
    BY <1>1
  <2>3. \A m \in (n - w + 1)..n : \E i \in 1..L : f[i] = m
    BY <1>1 DEF WindowOf
  <2>4. \A i, j \in 1..L : f[i] = f[j] /\ f[i] \in (n - w + 1)..n => i = j
    BY <1>1 DEF WindowOf
  <2> HIDE DEF f, w, L
  <2> DEFINE Bad == {k \in 0..(w - 1) : ~(k < L /\ f[L - k] = n - k)}
  <2>5. Bad = {}
    <3> SUFFICES ASSUME Bad # {} PROVE FALSE
      OBVIOUS
    <3>1. PICK k \in Bad : \A l \in Bad : k <= l
      <4>1. Bad \in SUBSET Nat
        OBVIOUS
      <4> HIDE DEF Bad
      <4>. QED
        BY <4>1, LeastOf
    <3>2. k \in 1..(w - 1)
      BY <1>1, <2>1
    <3>3. k - 1 \in 0..(w - 1) /\ k - 1 \notin Bad
      <4>1. k - 1 \in 0..(w - 1) /\ ~(k <= k - 1)
        BY <1>1, <3>2
      <4> HIDE DEF Bad
      <4>. QED
        BY <3>1, <4>1
    <3>4. k - 1 < L /\ f[L - (k - 1)] = n - (k - 1)
      BY <3>3
    <3> DEFINE last == L - (k - 1)
    <3>5. last \in 1..L /\ f[last] = n - k + 1 /\ n - k \in (n - w + 1)..n
      BY <1>1, <2>1, <3>2, <3>4
    <3>6. PICK j \in 1..L : f[j] = n - k
      BY <2>3, <3>5
    <3>7. j < last
      BY <1>1, <2>2, <3>2, <3>5, <3>6
    <3>8. last - 1 \in 1..L /\ f[last - 1] >= n - k /\ f[last - 1] <= n - k + 1
      BY <1>1, <2>1, <2>2, <3>5, <3>6, <3>7
    <3>9. f[last - 1] # n - k + 1
      <4>1. n - k + 1 \in (n - w + 1)..n
        BY <1>1, <3>2
      <4>. QED
        BY <1>1, <2>4, <3>5, <3>8, <4>1
    <3>10. L - k = last - 1 /\ k < L
      <4>1. last - 1 \in 1..L
        BY <3>8
      <4>. QED
        BY <1>1, <3>2, <4>1
    <3>11. f[last - 1] = n - k
      <4> DEFINE v == f[last - 1]
      <4>1. v \in Nat
        BY <2>1, <3>8
      <4> HIDE DEF v
      <4>2. v >= n - k /\ v <= n - k + 1 /\ v # n - k + 1
        BY <3>8, <3>9 DEF v
      <4>3. v = n - k
        <5> DEFINE u == n - k
        <5>1. u \in Int
          BY <1>1, <3>2
        <5>2. v >= u /\ v <= u + 1 /\ v # u + 1
          BY <4>2
        <5> HIDE DEF u
        <5>3. v = u
          BY <4>1, <5>1, <5>2
        <5>. QED
          BY <5>3 DEF u
      <4>. QED
        BY <4>3 DEF v
    <3>. QED
      BY <3>1, <3>10, <3>11
  <2>6. \A k \in 0..(w - 1) : k < L /\ f[L - k] = n - k
    BY <2>5
  <2>7. w - 1 \in 0..(w - 1)
    BY <1>1
  <2>. QED
    BY <1>1, <2>6, <2>7
<1>3. DOMAIN h = 1..w /\ \A i \in 1..w : h[i] = es[L - w + i]
  <2>1. CASE L <= w
    BY <1>1, <1>2, <2>1 DEF history
  <2>2. CASE ~(L <= w)
    <3>1. h = SubSeq(es, L - w + 1, L)
      BY <1>1, <2>2 DEF history
    <3>2. L - w + 1 \in 1..L /\ L \in 1..L /\ L - (L - w + 1) + 1 = w
      BY <1>1, <2>2
    <3>. QED
      BY <1>1, <3>1, <3>2
  <2>. QED
    BY <2>1, <2>2
<1>4. \A i \in 1..w : L - w + i \in 1..L /\ es[L - w + i].finished_at = n - w + i
  <2> SUFFICES ASSUME NEW i \in 1..w
               PROVE  L - w + i \in 1..L /\ es[L - w + i].finished_at = n - w + i
    OBVIOUS
  <2>1. w - i \in 0..(w - 1) /\ L - (w - i) = L - w + i /\ n - (w - i) = n - w + i
        /\ L - w + i \in 1..L
    BY <1>1, <1>2
  <2>2. f[L - (w - i)] = n - (w - i)
    BY <1>2, <2>1
  <2>. QED
    BY <2>1, <2>2
<1>5. DOMAIN r = 1..w /\ \A i \in 1..w : r[i] = rate[n - w + i]
  BY <1>1, <1>3, <1>4
<1>6. Len(r) = w
  <2>1. r \in [1..w -> {r[i] : i \in 1..w}]
    BY <1>3
  <2>. QED
    BY <1>1, <2>1
<1>7. detect_decline(es) <=> /\ Len(r) >= w
                             /\ \A i \in 1..(Len(r) - 1) : r[i + 1] < r[i]
                             /\ r[1] - r[Len(r)] >= decline_threshold
  BY DEF detect_decline
<1> HIDE DEF r
<1>8. r[1] = rate[n - w + 1] /\ r[w] = rate[n]
  <2>1. 1 \in 1..w /\ w \in 1..w /\ n - w + w = n
    BY <1>1
  <2>. QED
    BY <1>5, <2>1
<1>9. (\A i \in 1..(w - 1) : r[i + 1] < r[i]) <=> \A m \in (n - w + 1)..(n - 1) : rate[m + 1] < rate[m]
  <2>1. ASSUME \A i \in 1..(w - 1) : r[i + 1] < r[i], NEW m \in (n - w + 1)..(n - 1)
        PROVE  rate[m + 1] < rate[m]
    <3> DEFINE i == m - (n - w)
    <3>1. i \in 1..(w - 1) /\ i \in 1..w /\ i + 1 \in 1..w /\ n - w + i = m /\ n - w + (i + 1) = m + 1
      BY <1>1
    <3>2. r[i] = rate[m] /\ r[i + 1] = rate[m + 1]
      BY <1>5, <3>1
    <3>. QED
      BY <2>1, <3>1, <3>2
  <2>2. ASSUME \A m \in (n - w + 1)..(n - 1) : rate[m + 1] < rate[m], NEW i \in 1..(w - 1)
        PROVE  r[i + 1] < r[i]
    <3> DEFINE m == n - w + i
    <3>1. i \in 1..w /\ i + 1 \in 1..w /\ m \in (n - w + 1)..(n - 1) /\ n - w + (i + 1) = m + 1
      BY <1>1
    <3>2. r[i] = rate[m] /\ r[i + 1] = rate[m + 1]
      BY <1>5, <3>1
    <3>. QED
      BY <2>2, <3>1, <3>2
  <2>. QED
    BY <2>1, <2>2
<1>. QED
  BY <1>1, <1>6, <1>7, <1>8, <1>9

(* The gate compares by differences what Regressed compares by sums.       *)
LEMMA GateIs ==
  ASSUME ReportInv, NEW a \in Agents, NEW n \in 1..night
  PROVE  has_regressions(a, scored[a][n]) <=> Regressed(a, n)
<1> DEFINE card == scored[a][n]
           base == Baseline[a]
<1>1. card \in Cards[a]
  BY DEF ReportInv
<1>2. ASSUME base # NoCard, NEW d \in DOMAIN base \cap DOMAIN card
      PROVE  {card[d].mean, card[d].pass_rate, base[d].mean, base[d].pass_rate} \subseteq Int
  <2>1. a \in Range(Targets)
    BY DEF Agents
  <2>2. {card, base} \subseteq Cards[a] \cup ({Baseline[a]} \ {NoCard})
    BY <1>1, <1>2
  <2> HIDE DEF card, base
  <2>3. /\ {card[d].mean, card[d].pass_rate} \subseteq 0..Whole
        /\ {base[d].mean, base[d].pass_rate} \subseteq 0..Whole
    BY <2>1, <2>2, TrendAssumption
  <2>. QED
    BY <2>3
<1> HIDE DEF card
<1>3. ASSUME base # NoCard, NEW d \in DOMAIN base \cap DOMAIN card
      PROVE  Worse(base[d], card[d]) <=>
               \/ card[d].mean + tolerance < base[d].mean
               \/ card[d].pass_rate + tolerance < base[d].pass_rate
  <2> DEFINE m == card[d].mean  bm == base[d].mean
             p == card[d].pass_rate  bp == base[d].pass_rate
  <2>1. m \in Int /\ bm \in Int /\ p \in Int /\ bp \in Int /\ tolerance \in Int
    BY <1>2, <1>3, TrendAssumption
  <2>2. Worse(base[d], card[d]) <=> m - bm < -tolerance \/ p - bp < -tolerance
    BY DEF Worse
  <2> HIDE DEF m, bm, p, bp
  <2>3. Worse(base[d], card[d]) <=> m + tolerance < bm \/ p + tolerance < bp
    BY <2>1, <2>2
  <2>. QED
    BY <2>3 DEF m, bm, p, bp
<1>. QED
  BY <1>3 DEF has_regressions, Regressed, card

LEMMA JudgedStay ==
  ASSUME ReportInv, ReportInv', UNCHANGED scored \/ FinishNightly,
         unbroken' \cap 1..night \subseteq unbroken, NEW a \in Agents, NEW n \in 1..night
  PROVE  /\ Regressed(a, n)' <=> Regressed(a, n)
         /\ Declined(a, n)' <=> Declined(a, n)
         /\ WindowOf(n) \subseteq unbroken' => WindowOf(n) \subseteq unbroken
<1>1. night \in Nat /\ night' \in Nat /\ unbroken' \subseteq 1..night'
  BY DEF ReportInv
<1>2. ASSUME WindowOf(n) \subseteq unbroken', NEW m \in WindowOf(n) PROVE m \in unbroken
  <2>1. m \in Int /\ m <= n
    BY <1>1, TrendAssumption DEF WindowOf
  <2>2. m \in unbroken' /\ m \in 1..night'
    BY <1>1, <1>2
  <2>3. m \in 1..night
    BY <1>1, <2>1, <2>2
  <2>. QED
    BY <2>2, <2>3
<1>. QED
  BY <1>2, SaidOfNights

LEMMA RaiseIs ==
  ASSUME NEW S, NEW s \in Seq(S), NEW x \in S, NEW holds
  PROVE  LET t == s \o (IF holds THEN <<x>> ELSE <<>>) IN
         t \in Seq(S) /\ Range(t) = Range(s) \cup {y \in {x} : holds}
<1> DEFINE t == s \o (IF holds THEN <<x>> ELSE <<>>)
<1>1. CASE holds
  <2>1. t = s \o <<x>>
    BY <1>1
  <2>2. /\ t \in Seq(S) /\ Len(t) = Len(s) + 1 /\ Len(s) \in Nat /\ DOMAIN s = 1..Len(s)
        /\ DOMAIN t = 1..(Len(s) + 1) /\ \A i \in 1..Len(s) : t[i] = s[i]
        /\ t[Len(s) + 1] = x
    BY <2>1
  <2> HIDE DEF t
  <2>3. \A i \in DOMAIN t : i \in DOMAIN s \/ i = Len(s) + 1
    BY <2>2
  <2>4. Range(t) = Range(s) \cup {x}
    BY <2>2, <2>3 DEF Range
  <2>. QED
    BY <1>1, <2>2, <2>4 DEF t
<1>2. CASE ~holds
  <2>1. t = s
    BY <1>2
  <2>. QED
    BY <1>2, <2>1
<1>. QED
  BY <1>1, <1>2

LEMMA DeclineSeen ==
  ASSUME ReportInv, ReportInv', EntryInv', ConsumeOne, NEW c \in Agents, c = Targets[turn + 1],
         trends'[c] = Append(trends[c], [finished_at |-> night,
                               overall_pass_rate |-> overall_pass_rate(results[turn + 1])]),
         trends[c] \in Seq(TrendEntry), results[turn + 1] \in AllCards,
         WindowOf(night) \subseteq unbroken
  PROVE  detect_decline(trends'[c]) <=> Declined(c, night)
<1> DEFINE e == [finished_at |-> night, overall_pass_rate |-> overall_pass_rate(results[turn + 1])]
           es == trends'[c]
           rate == [m \in 1..night |-> overall_pass_rate(scored[c][m])]
           w == trend_window
<1>1. /\ turn' = turn + 1 /\ turn < Len(Targets) /\ turn \in Nat /\ stage = "consuming"
      /\ night \in Nat /\ UNCHANGED <<stage, night, scored, unbroken>> /\ unbroken \subseteq 1..night
  BY PlaceIs DEF ConsumeOne, ReportInv
<1>2. TargetOf(c) = turn + 1
  BY <1>1, PlaceIs
<1>3. /\ es \in Seq(TrendEntry)
      /\ \A i \in DOMAIN es :
           /\ es[i].finished_at \in 1..night
           /\ es[i].overall_pass_rate = overall_pass_rate(scored[c][es[i].finished_at])
      /\ \A i, j \in DOMAIN es :
           /\ i <= j => es[i].finished_at <= es[j].finished_at
           /\ es[i].finished_at = es[j].finished_at /\ es[i].finished_at \in unbroken => i = j
      /\ \A n \in unbroken : OnRecord(c, n)' <=> \E i \in DOMAIN es : es[i].finished_at = n
  <2>1. EntriesOf(c)'
    BY DEF EntryInv
  <2>2. UNCHANGED <<night, scored, unbroken>>
    BY <1>1
  <2>. QED
    BY <2>1, <2>2 DEF EntriesOf
<1>4. Len(es) > 0 /\ es[Len(es)].finished_at = night
  <2> DEFINE old == trends[c]
  <2>1. old \in Seq(TrendEntry) /\ e \in TrendEntry /\ es = Append(old, e) /\ e.finished_at = night
    BY <1>1 DEF TrendEntry
  <2> HIDE DEF old, es, e
  <2>2. Len(es) = Len(old) + 1 /\ Len(old) \in Nat /\ es[Len(old) + 1] = e
    BY <2>1, AppendIs
  <2>. QED
    BY <2>1, <2>2
<1> HIDE DEF es
<1>5. \A i \in DOMAIN es : es[i].finished_at \in Nat /\ es[i].overall_pass_rate = rate[es[i].finished_at]
  BY <1>1, <1>3
<1>6. \A n \in unbroken : OnRecord(c, n)'
  BY <1>1, <1>2 DEF OnRecord
<1>7. \A m \in WindowOf(night) : \E i \in DOMAIN es : es[i].finished_at = m
  BY <1>3, <1>6
<1>8. \A i, j \in DOMAIN es :
        /\ i <= j => es[i].finished_at <= es[j].finished_at
        /\ es[i].finished_at = es[j].finished_at /\ es[i].finished_at \in WindowOf(night) => i = j
  BY <1>3
<1> HIDE DEF rate
<1>9. detect_decline(es) <=>
        /\ \A m \in (night - w + 1)..(night - 1) : rate[m + 1] < rate[m]
        /\ rate[night - w + 1] - rate[night] >= decline_threshold
  <2>1. es \in Seq(TrendEntry) /\ night \in Nat
    BY <1>1, <1>3
  <2>. QED
    BY <1>4, <1>5, <1>7, <1>8, <2>1, DeclineIs
<1>10. w \in Nat \ {0} /\ night >= w /\ \A m \in (night - w + 1)..night : m \in 1..night
  <2>1. w \in Nat \ {0}
    BY TrendAssumption
  <2>2. WindowOf(night) = (night - w + 1)..night
    BY DEF WindowOf
  <2>3. night - w + 1 \in (night - w + 1)..night
    BY <1>1, <2>1
  <2>4. night - w + 1 >= 1
    BY <1>1, <2>2, <2>3
  <2>. QED
    BY <1>1, <2>1, <2>4
<1>11. \A m \in 1..night : rate[m] = overall_pass_rate(scored[c][m])
  BY DEF rate
<1> DEFINE now(m) == overall_pass_rate(scored[c][m])
<1>12. Declined(c, night) <=>
         /\ night >= w
         /\ \A m \in (night - w + 1)..(night - 1) : now(m + 1) < now(m)
         /\ now(night - w + 1) - now(night) >= decline_threshold
  BY DEF Declined
<1> HIDE DEF now
<1>13. \A m \in 1..night : rate[m] = now(m)
  BY <1>11 DEF now
<1>14. \A m \in (night - w + 1)..(night - 1) : m \in 1..night /\ m + 1 \in 1..night
  BY <1>1, <1>10
<1>15. night - w + 1 \in 1..night /\ night \in 1..night
  BY <1>1, <1>10
<1>. QED
  BY <1>9, <1>10, <1>12, <1>13, <1>14, <1>15 DEF es

LEMMA AlertsConsumed ==
  ASSUME TrendInv, ReportInv', EntryInv', ConsumeOne
  PROVE  AlertInv'
<1>1. PICK c \in {Targets[turn + 1]} : c = Targets[turn + 1]
  OBVIOUS
<1>2. PICK n \in {night} : n = night
  OBVIOUS
<1> DEFINE card == results[turn + 1]
           e == [finished_at |-> night, overall_pass_rate |-> overall_pass_rate(card)]
           x == [kind |-> "gate_regression", agent |-> c, night |-> n]
           y == [kind |-> "trend_decline", agent |-> c, night |-> n]
           worse == has_regressions(c, card)
           falls == detect_decline(trends'[c])
           mid == alerts \o (IF worse THEN <<x>> ELSE <<>>)
<1>3. /\ stage = "consuming" /\ turn < Len(Targets) /\ turn' = turn + 1
      /\ trends' = [trends EXCEPT ![c] = Append(trends[c], e)]
      /\ UNCHANGED <<stage, results, delivered, night, scored, unbroken, ended>>
  BY <1>1 DEF ConsumeOne
<1>4. /\ turn \in Nat /\ c \in Agents /\ TargetOf(c) = turn + 1 /\ n \in Nat /\ n \in 1..night
      /\ n \notin ended /\ ended \subseteq 1..night /\ ReportInv /\ AlertInv
  BY <1>1, <1>2, <1>3, PlaceIs DEF TrendInv, ReportInv
<1>5. card = scored[c][n] /\ card \in AllCards
  <2>1. Len(results) = Len(Targets) /\ results \in Seq(AllCards)
    BY <1>3 DEF TrendInv, ReportInv
  <2>2. turn + 1 \in 1..Len(Targets)
    BY <1>3, <1>4, PlaceIs
  <2>3. DOMAIN results = 1..Len(Targets) /\ DOMAIN Targets = 1..Len(Targets)
    BY <2>1, PlaceIs
  <2>4. results[turn + 1] \in Cards[Targets[turn + 1]]
    BY <1>4, <2>2, <2>3 DEF ReportInv
  <2>5. results[turn + 1] = scored[Targets[turn + 1]][night]
    BY <1>3, <1>4, <2>2, <2>3 DEF ReportInv
  <2>6. results[turn + 1] \in AllCards
    BY <1>1, <1>4, <2>4 DEF AllCards
  <2>. QED
    BY <1>1, <1>2, <2>5, <2>6
<1>6. trends'[c] = Append(trends[c], e) /\ trends[c] \in Seq(TrendEntry)
  BY <1>3, <1>4 DEF TrendInv, EntryInv, EntriesOf
<1>7. worse <=> Regressed(c, n)
  BY <1>4, <1>5, GateIs
<1>8. WindowOf(n) \subseteq unbroken => (falls <=> Declined(c, n))
  BY <1>1, <1>2, <1>4, <1>5, <1>6, DeclineSeen
<1>9. alerts' = mid \o (IF falls THEN <<y>> ELSE <<>>)
  <2>1. alerts' = (alerts \o (IF worse THEN <<x>> ELSE <<>>))
                    \o (IF detect_decline(Append(trends[c], e)) THEN <<y>> ELSE <<>>)
    BY <1>1, <1>2 DEF ConsumeOne
  <2>. QED
    BY <1>6, <2>1
<1>10. x \in Alert /\ y \in Alert
  BY <1>4 DEF Alert
<1> HIDE DEF worse, falls, x, y
<1>11. mid \in Seq(Alert) /\ Range(mid) = Range(alerts) \cup {z \in {x} : worse}
  BY <1>4, <1>10, RaiseIs DEF AlertInv
<1> HIDE DEF mid
<1>12. alerts' \in Seq(Alert) /\ Range(alerts') = Range(mid) \cup {z \in {y} : falls}
  BY <1>9, <1>10, <1>11, RaiseIs
<1>13. \A z \in Range(alerts) : z.night = night /\ Right(z)
  BY <1>4 DEF AlertInv, Range
<1>14. (worse => Right(x)) /\ (falls => Right(y))
  BY <1>4, <1>7, <1>8 DEF Right, x, y
<1>15. \A z \in Range(alerts') : z.night = night /\ Right(z)
  <2> SUFFICES ASSUME NEW z \in Range(alerts') PROVE z.night = night /\ Right(z)
    OBVIOUS
  <2>1. CASE z \in Range(alerts)
    BY <1>13, <2>1
  <2>2. CASE z = x /\ worse
    BY <1>2, <1>14, <2>2 DEF x
  <2>3. CASE z = y /\ falls
    BY <1>2, <1>14, <2>3 DEF y
  <2>. QED
    BY <1>11, <1>12, <2>1, <2>2, <2>3
<1>16. \A z : Right(z)' <=> Right(z)
  BY <1>3 DEF Right, Regressed, Declined
<1>17. ASSUME NEW i \in DOMAIN alerts' PROVE (alerts'[i]).night = night /\ Right(alerts'[i])
  BY <1>15 DEF Range
<1>18. ASSUME NEW a \in Agents, NEW m \in Nat
       PROVE  (Regressed(a, m)' <=> Regressed(a, m)) /\ (Declined(a, m)' <=> Declined(a, m))
  BY <1>3 DEF Regressed, Declined
<1>19. ASSUME NEW a \in Agents, NEW m \in ended PROVE Reported(a, m, delivered)'
  <2>1. Reported(a, m, delivered) /\ m \in Nat
    BY <1>4, <1>19 DEF AlertInv
  <2>. QED
    BY <1>3, <1>18, <2>1 DEF Reported
<1>20. ASSUME NEW a \in Agents, TargetOf(a) <= turn'
       PROVE  Reported(a, night, delivered \cup Range(alerts))'
  <2>1. Range(alerts) \subseteq Range(alerts')
    BY <1>11, <1>12
  <2>2. CASE a = c
    <3>1. Regressed(c, n) => x \in Range(alerts')
      BY <1>7, <1>11, <1>12
    <3>2. WindowOf(n) \subseteq unbroken /\ Declined(c, n) => y \in Range(alerts')
      BY <1>8, <1>12
    <3>3. (Regressed(c, n)' <=> Regressed(c, n)) /\ (Declined(c, n)' <=> Declined(c, n))
      BY <1>4, <1>18
    <3>. QED
      BY <1>2, <1>3, <2>2, <3>1, <3>2, <3>3 DEF Reported, x, y
  <2>3. CASE a # c
    <3>1. TargetOf(a) <= turn
      <4>1. TargetOf(a) # turn + 1 /\ TargetOf(a) \in Nat
        BY <1>1, <1>3, <1>4, <2>3, PlaceIs
      <4>. QED
        BY <1>3, <1>4, <1>20, <4>1
    <3>2. Reported(a, n, delivered \cup Range(alerts))
      BY <1>2, <1>3, <1>4, <3>1 DEF AlertInv
    <3>3. (Regressed(a, n)' <=> Regressed(a, n)) /\ (Declined(a, n)' <=> Declined(a, n))
      BY <1>4, <1>18
    <3>. QED
      BY <1>2, <1>3, <2>1, <3>2, <3>3 DEF Reported
  <2>. QED
    BY <2>2, <2>3
<1>21. delivered' \subseteq Alert /\ stage' = "consuming" /\ \A z \in delivered' : Right(z)'
  BY <1>3, <1>4, <1>16 DEF AlertInv
<1>22. \A i \in DOMAIN alerts' : (alerts'[i]).night = night' /\ Right(alerts[i])'
  BY <1>3, <1>17 DEF Right, Regressed, Declined
<1>. QED
  BY <1>3, <1>12, <1>19, <1>20, <1>21, <1>22 DEF AlertInv

(* What raises nothing and tells nothing, and ends no night.               *)
LEMMA JudgedSame ==
  ASSUME UNCHANGED <<night, scored, unbroken>>
  PROVE  /\ \A z : Right(z)' <=> Right(z)
         /\ \A a, n, told : Reported(a, n, told)' <=> Reported(a, n, told)
<1>1. \A a, n : (Regressed(a, n)' <=> Regressed(a, n)) /\ (Declined(a, n)' <=> Declined(a, n))
  BY DEF Regressed, Declined
<1>2. \A z : Right(z)' <=> Right(z)
  BY <1>1 DEF Right
<1>3. \A a, n, told : Reported(a, n, told)' <=> Reported(a, n, told)
  BY <1>1 DEF Reported
<1>. QED
  BY <1>2, <1>3

LEMMA AlertsStay ==
  ASSUME ReportInv, ReportInv', AlertInv, UNCHANGED scored \/ FinishNightly,
         unbroken' \cap 1..night \subseteq unbroken, night <= night',
         UNCHANGED <<delivered, ended>>,
         alerts' = <<>>, stage' # "emitting", stage' = "consuming" => turn' = 0
  PROVE  AlertInv'
<1>1. night \in Nat /\ night' \in Nat /\ ended \subseteq 1..night
  BY DEF ReportInv
<1>2. ASSUME NEW z \in delivered PROVE Right(z)'
  <2>1. z \in Alert /\ Right(z)
    BY DEF AlertInv
  <2>2. z.agent \in Agents /\ z.night \in 1..night /\ z.night \in 1..night'
    BY <1>1, <2>1 DEF Alert, Right
  <2>3. /\ Regressed(z.agent, z.night)' <=> Regressed(z.agent, z.night)
        /\ Declined(z.agent, z.night)' <=> Declined(z.agent, z.night)
        /\ WindowOf(z.night) \subseteq unbroken' => WindowOf(z.night) \subseteq unbroken
    <3> DEFINE a == z.agent
               n == z.night
    <3>1. a \in Agents /\ n \in 1..night
      BY <2>2
    <3> HIDE DEF a, n
    <3>2. /\ Regressed(a, n)' <=> Regressed(a, n)
          /\ Declined(a, n)' <=> Declined(a, n)
          /\ WindowOf(n) \subseteq unbroken' => WindowOf(n) \subseteq unbroken
      BY <3>1, JudgedStay
    <3>. QED
      BY <3>2 DEF a, n
  <2>. QED
    BY <2>1, <2>2, <2>3 DEF Right
<1>3. ASSUME NEW a \in Agents, NEW n \in ended PROVE Reported(a, n, delivered)'
  <2>1. Reported(a, n, delivered) /\ n \in 1..night
    BY <1>1 DEF AlertInv
  <2>2. /\ Regressed(a, n)' <=> Regressed(a, n)
        /\ Declined(a, n)' <=> Declined(a, n)
        /\ WindowOf(n) \subseteq unbroken' => WindowOf(n) \subseteq unbroken
    BY <2>1, JudgedStay
  <2>. QED
    BY <2>1, <2>2 DEF Reported
<1>4. \A a \in Agents : ~(stage' = "consuming" /\ TargetOf(a) <= turn')
  BY PlaceIs
<1>5. alerts' \in Seq(Alert) /\ delivered' \subseteq Alert /\ DOMAIN alerts' = {}
  BY DEF AlertInv
<1>. QED
  BY <1>2, <1>3, <1>4, <1>5 DEF AlertInv

LEMMA AlertNext ==
  ASSUME TrendInv, ReportInv', EntryInv', [TrendNext]_trendVars
  PROVE  AlertInv'
<1>1. ReportInv /\ AlertInv /\ night \in Nat /\ unbroken \subseteq 1..night
  BY DEF TrendInv, ReportInv
<1>2. stage \notin {"consuming", "emitting"} => alerts = <<>>
  BY <1>1 DEF AlertInv
<1>3. CASE StartNightly
  BY <1>1, <1>2, <1>3, AlertsStay DEF StartNightly
<1>4. CASE RunOne
  BY <1>1, <1>2, <1>4, AlertsStay DEF RunOne
<1>5. CASE NightlyFails
  BY <1>1, <1>2, <1>5, AlertsStay DEF NightlyFails
<1>6. CASE FinishNightly
  <2>1. /\ stage = "evaluating" /\ night' = night + 1 /\ UNCHANGED <<alerts, delivered, ended>>
        /\ unbroken' = unbroken \cup {night + 1} /\ stage' = "consuming" /\ turn' = 0
    BY <1>6 DEF FinishNightly
  <2>2. unbroken' \cap 1..night \subseteq unbroken
    BY <1>1, <2>1
  <2>. QED
    BY <1>1, <1>2, <1>6, <2>1, <2>2, AlertsStay
<1>7. CASE ConsumeOne
  BY <1>7, AlertsConsumed
<1>8. CASE EmitAlerts
  <2>1. /\ stage = "consuming" /\ turn = Len(Targets) /\ stage' = "emitting"
        /\ UNCHANGED <<turn, alerts, delivered, night, scored, unbroken, ended>>
    BY <1>8 DEF EmitAlerts
  <2>2. \A a \in Agents : TargetOf(a) <= turn
    BY <2>1, PlaceIs
  <2>3. \A a \in Agents : Reported(a, night, delivered \cup Range(alerts))
    BY <1>1, <2>1, <2>2 DEF AlertInv
  <2>4. Range(alerts') = Range(alerts)
    BY <2>1
  <2>. QED
    BY <1>1, <2>1, <2>3, <2>4, JudgedSame DEF AlertInv
<1>9. CASE Emit
  <2>1. /\ stage = "emitting" /\ alerts # <<>> /\ delivered' = delivered \cup {Head(alerts)}
        /\ alerts' = Tail(alerts) /\ UNCHANGED <<stage, turn, night, scored, unbroken, ended>>
    BY <1>9 DEF Emit
  <2>2. alerts \in Seq(Alert)
    BY <1>1 DEF AlertInv
  <2>3. /\ Head(alerts) = alerts[1] /\ 1 \in DOMAIN alerts /\ alerts' \in Seq(Alert)
        /\ Len(alerts) \in Nat \ {0} /\ DOMAIN alerts = 1..Len(alerts)
        /\ DOMAIN alerts' = 1..(Len(alerts) - 1)
        /\ \A i \in 1..(Len(alerts) - 1) : alerts'[i] = alerts[i + 1]
    BY <2>1, <2>2
  <2>4. \A i \in DOMAIN alerts' : i + 1 \in DOMAIN alerts /\ alerts'[i] = alerts[i + 1]
    BY <2>3
  <2>5. \A i \in DOMAIN alerts : i = 1 \/ (i - 1 \in DOMAIN alerts' /\ alerts'[i - 1] = alerts[i])
    BY <2>3
  <2>6. Head(alerts) \in Alert /\ Right(Head(alerts))
    BY <1>1, <2>2, <2>3 DEF AlertInv
  <2>7. delivered \cup Range(alerts) \subseteq delivered' \cup Range(alerts')
    <3>1. ASSUME NEW i \in DOMAIN alerts PROVE alerts[i] \in delivered' \cup Range(alerts')
      <4>1. CASE i = 1
        BY <2>1, <2>3, <4>1
      <4>2. CASE i # 1
        BY <2>5, <4>2 DEF Range
      <4>. QED
        BY <4>1, <4>2
    <3>. QED
      BY <2>1, <3>1 DEF Range
  <2>8. \A z : Right(z)' <=> Right(z)
    BY <2>1 DEF Right, Regressed, Declined
  <2>9. /\ delivered' \subseteq Alert /\ \A z \in delivered' : Right(z)'
    BY <1>1, <2>1, <2>6, <2>8 DEF AlertInv
  <2>10. ASSUME NEW i \in DOMAIN alerts' PROVE (alerts'[i]).night = night /\ Right(alerts'[i])
    BY <1>1, <2>4 DEF AlertInv
  <2>11. \A i \in DOMAIN alerts' : (alerts'[i]).night = night' /\ Right(alerts[i])'
    BY <2>1, <2>8, <2>10
  <2>12. ASSUME NEW a \in Agents, NEW m
         PROVE  (Regressed(a, m)' <=> Regressed(a, m)) /\ (Declined(a, m)' <=> Declined(a, m))
    BY <2>1 DEF Regressed, Declined
  <2>13. ASSUME NEW a \in Agents, NEW n \in ended PROVE Reported(a, n, delivered)'
    BY <1>1, <2>1, <2>12 DEF AlertInv, Reported
  <2>14. ASSUME NEW a \in Agents PROVE Reported(a, night, delivered \cup Range(alerts))'
    <3>1. Reported(a, night, delivered \cup Range(alerts))
      BY <1>1, <2>1 DEF AlertInv
    <3>. QED
      BY <2>1, <2>7, <2>12, <3>1 DEF Reported
  <2>. QED
    BY <2>1, <2>3, <2>9, <2>11, <2>13, <2>14 DEF AlertInv
<1>10. CASE Consumed
  <2>1. /\ stage = "emitting" /\ alerts = <<>> /\ stage' = "rest" /\ ended' = ended \cup {night}
        /\ UNCHANGED <<turn, alerts, delivered, night, scored, unbroken>>
    BY <1>10 DEF Consumed
  <2>2. \A a \in Agents : Reported(a, night, delivered)
    <3>1. delivered \cup Range(alerts) = delivered
      BY <2>1 DEF Range
    <3>. QED
      BY <1>1, <2>1, <3>1 DEF AlertInv
  <2>3. \A a \in Agents : \A n \in ended' : Reported(a, n, delivered)
    BY <1>1, <2>1, <2>2 DEF AlertInv
  <2>. QED
    BY <1>1, <2>1, <2>3, JudgedSame DEF AlertInv
<1>11. CASE ConsumeStops
  BY <1>1, <1>11, AlertsStay DEF ConsumeStops
<1>12. CASE ConsumeAgain
  BY <1>1, <1>2, <1>12, AlertsStay DEF ConsumeAgain
<1>13. CASE UNCHANGED trendVars
  <2>1. UNCHANGED <<stage, turn, alerts, delivered, night, scored, unbroken, ended>>
    BY <1>13 DEF trendVars, reportVars
  <2>. QED
    BY <1>1, <2>1, JudgedSame DEF AlertInv
<1>. QED
  BY <1>3, <1>4, <1>5, <1>6, <1>7, <1>8, <1>9, <1>10, <1>11, <1>12, <1>13 DEF TrendNext

LEMMA TrendInvariance == TrendSpec => []TrendInv
<1>1. TrendInv /\ [TrendNext]_trendVars => TrendInv'
  <2> SUFFICES ASSUME TrendInv, [TrendNext]_trendVars PROVE TrendInv'
    OBVIOUS
  <2>1. ReportInv'
    BY ReportGoesOn DEF TrendInv
  <2>2. EntryInv'
    BY <2>1, EntryNext
  <2>3. AlertInv'
    BY <2>1, <2>2, AlertNext
  <2>. QED
    BY <2>1, <2>2, <2>3 DEF TrendInv
<1>. QED
  BY <1>1, TrendInitInv, PTL DEF TrendSpec

(* The report in hand, the agents consumed and what is on record of each   *)
(* night stay of their types.                                              *)
THEOREM TrendTypeCorrect == TrendSpec => []TrendTypeOK
<1>1. TrendInv => TrendTypeOK
  BY DEF TrendInv, ReportInv, TrendTypeOK
<1>. QED
  BY <1>1, TrendInvariance, PTL

(* Consumption after consumption, with the process stopping between two    *)
(* agents or two alerts: once the alerts of a night are out, exactly the   *)
(* agents that regressed, and those that declined over a window of nights  *)
(* consumed in one go, have been reported.                                 *)
THEOREM AlertsTellTheTrend == TrendSpec => []AlertsTold
<1>1. TrendInv => AlertsTold
  <2> SUFFICES ASSUME TrendInv, NEW a \in Agents, NEW n \in ended
               PROVE  /\ Told("gate_regression", a, n) <=> Regressed(a, n)
                      /\ (n - trend_window + 1)..n \subseteq unbroken =>
                           (Told("trend_decline", a, n) <=> Declined(a, n))
    BY DEF AlertsTold
  <2> DEFINE x == [kind |-> "gate_regression", agent |-> a, night |-> n]
             y == [kind |-> "trend_decline", agent |-> a, night |-> n]
  <2>1. Reported(a, n, delivered) /\ \A z \in delivered : Right(z)
    BY DEF TrendInv, AlertInv
  <2>2. x \in delivered => Regressed(a, n)
    BY <2>1 DEF Right
  <2>3. y \in delivered /\ WindowOf(n) \subseteq unbroken => Declined(a, n)
    BY <2>1 DEF Right
  <2>4. /\ Regressed(a, n) => x \in delivered
        /\ WindowOf(n) \subseteq unbroken /\ Declined(a, n) => y \in delivered
    BY <2>1 DEF Reported
  <2>5. (Told("gate_regression", a, n) <=> x \in delivered)
        /\ (Told("trend_decline", a, n) <=> y \in delivered)
        /\ WindowOf(n) = (n - trend_window + 1)..n
    BY DEF Told, WindowOf
  <2> HIDE DEF x, y
  <2>. QED
    BY <2>2, <2>3, <2>4, <2>5
<1>. QED
  BY <1>1, TrendInvariance, PTL

-----------------------------------------------------------------------------
(* The latency budgets.                                                    *)

(* A latency is over its budget exactly if the SLO of the capability does  *)
(* not count it as good.                                                   *)
LEMMA CeilingMirrorsSlo ==
  ASSUME NEW c \in DOMAIN Ceiling, NEW t \in Int
  PROVE  t > Ceiling[c] <=> ~IsGood([of |-> [latency_ms |-> t]], DEFAULT_SLOS[SloOf[c]])
<1> DEFINE slo == DEFAULT_SLOS[SloOf[c]]
<1>1. c \in {"pr_analysis", "test_plan_generation", "api_smoke", "ui_smoke",
             "failure_classification", "evidence_report"}
  BY DEF Ceiling
<1>2. slo = Latency(Ceiling[c]) /\ Ceiling[c] \in Int
  <2>1. CASE c = "pr_analysis"
    BY <2>1 DEF DEFAULT_SLOS, SloOf, Ceiling
  <2>2. CASE c = "test_plan_generation"
    BY <2>2 DEF DEFAULT_SLOS, SloOf, Ceiling
  <2>3. CASE c = "api_smoke"
    BY <2>3 DEF DEFAULT_SLOS, SloOf, Ceiling
  <2>4. CASE c = "ui_smoke"
    BY <2>4 DEF DEFAULT_SLOS, SloOf, Ceiling
  <2>5. CASE c = "failure_classification"
    BY <2>5 DEF DEFAULT_SLOS, SloOf, Ceiling
  <2>6. CASE c = "evidence_report"
    BY <2>6 DEF DEFAULT_SLOS, SloOf, Ceiling
  <2>. QED
    BY <1>1, <2>1, <2>2, <2>3, <2>4, <2>5, <2>6
<1>3. slo.kind = "latency" /\ slo.threshold_ms = Ceiling[c]
  BY <1>2 DEF Latency
<1> HIDE DEF slo
<1>4. IsGood([of |-> [latency_ms |-> t]], slo) <=> t <= slo.threshold_ms
  BY <1>3 DEF IsGood
<1>. QED
  BY <1>2, <1>3, <1>4 DEF slo

LatenciesInv ==
  /\ DOMAIN taken = Capabilities
  /\ \A c \in Capabilities : taken[c] \subseteq Latencies(c)
  /\ perf_report # NotRun => perf_report = [overall |-> overall_verdict(evaluate_perf_run(taken))]

LEMMA PerfInvariance == PerfSpec => []LatenciesInv
<1>1. PerfInit => LatenciesInv
  BY DEF PerfInit, LatenciesInv
<1>2. LatenciesInv /\ [PerfNext]_perfVars => LatenciesInv'
  <2> SUFFICES ASSUME LatenciesInv, [PerfNext]_perfVars PROVE LatenciesInv'
    OBVIOUS
  <2>1. CASE Report
    BY <2>1 DEF Report, LatenciesInv
  <2>2. ASSUME NEW c \in Capabilities, NEW t \in Latencies(c), Call(c, t) PROVE LatenciesInv'
    BY <2>2 DEF Call, LatenciesInv
  <2>3. CASE UNCHANGED perfVars
    BY <2>3 DEF perfVars, LatenciesInv
  <2>. QED
    BY <2>1, <2>2, <2>3 DEF PerfNext
<1>. QED
  BY <1>1, <1>2, PTL DEF PerfSpec

LEMMA LatenciesAreInts == \A c \in DOMAIN Ceiling : Latencies(c) \subseteq Int
<1> SUFFICES ASSUME NEW c \in DOMAIN Ceiling PROVE Latencies(c) \subseteq Int
  OBVIOUS
<1>1. Ceiling[c] \in Nat
  BY DEF Ceiling
<1>2. warn_threshold_ms(c) \in Int
  BY <1>1 DEF warn_threshold_ms
<1>. QED
  BY <1>1, <1>2 DEF Latencies

(* A verdict is one of three.                                              *)
LEMMA VerdictIs ==
  ASSUME NEW runs
  PROVE  overall_verdict(runs) \in {"pass", "warn", "fail"}
  BY DEF overall_verdict

(* The report of a load test and the SLOs speak of the same limits: it     *)
(* fails exactly if it took a latency that is no good to the SLO of its    *)
(* capability.                                                             *)
THEOREM PerfMirrors == PerfSpec => [](PerfTypeOK /\ PerfMirrorsSlo)
<1>1. LatenciesInv => PerfTypeOK
  BY VerdictIs DEF LatenciesInv, PerfTypeOK
<1>2. LatenciesInv => PerfMirrorsSlo
  <2> SUFFICES ASSUME LatenciesInv, perf_report # NotRun
               PROVE  perf_report.overall = "fail" <=>
                        \E c \in DOMAIN taken \intersect DOMAIN Ceiling : \E t \in taken[c] :
                          ~IsGood([of |-> [latency_ms |-> t]], DEFAULT_SLOS[SloOf[c]])
    BY DEF PerfMirrorsSlo
  <2> DEFINE tested == DOMAIN taken \intersect DOMAIN Ceiling
  <2>1. perf_report.overall = "fail" <=> \E c \in tested : verdict_for(c, taken[c]) = "fail"
    BY DEF LatenciesInv, overall_verdict, evaluate_perf_run
  <2>2. \A c : verdict_for(c, taken[c]) = "fail" <=> \E t \in taken[c] : t > Ceiling[c]
    BY DEF verdict_for
  <2>3. ASSUME NEW c \in tested, NEW t \in taken[c]
        PROVE  t > Ceiling[c] <=> ~IsGood([of |-> [latency_ms |-> t]], DEFAULT_SLOS[SloOf[c]])
    <3>1. t \in Int
      BY LatenciesAreInts DEF LatenciesInv
    <3>. QED
      BY <3>1, CeilingMirrorsSlo
  <2> HIDE DEF tested
  <2>. QED
    BY <2>1, <2>2, <2>3 DEF tested
<1>. QED
  BY <1>1, <1>2, PerfInvariance, PTL

-----------------------------------------------------------------------------
(* The prompt experiments.                                                 *)

LEMMA LeastIndexIs ==
  ASSUME NEW S \in SUBSET Nat, S # {}
  PROVE  Min(S) \in S /\ \A y \in S : Min(S) <= y
  BY LeastOf DEF Min

(* Sums over the first numbers: nothing at first, each of them one number  *)
(* more than the one before.                                               *)
LEMMA SumSteps ==
  ASSUME NEW L \in Nat, NEW g, \A i \in 1..L : g[i] \in Nat
  PROVE  /\ SumFunctionOnSet(g, 1..0) = 0
         /\ \A i \in 0..L : SumFunctionOnSet(g, 1..i) \in Nat
         /\ \A i \in 1..L : SumFunctionOnSet(g, 1..i) = SumFunctionOnSet(g, 1..(i - 1)) + g[i]
         /\ \A i, j \in 0..L : i <= j => SumFunctionOnSet(g, 1..i) <= SumFunctionOnSet(g, 1..j)
<1>1. SumFunctionOnSet(g, 1..0) = 0
  <2>1. 1..0 = {}
    OBVIOUS
  <2>. QED
    BY <2>1, SumEmpty
<1>2. ASSUME NEW i \in 0..L
      PROVE  /\ IsFiniteSet(1..i) /\ (\A k \in 1..i : g[k] \in Nat /\ g[k] \in Int)
             /\ SumFunctionOnSet(g, 1..i) \in Nat
  <2>1. i \in Int /\ IsFiniteSet(1..i)
    BY FS_Interval
  <2>2. \A k \in 1..i : g[k] \in Nat /\ g[k] \in Int
    OBVIOUS
  <2>. QED
    BY <2>1, <2>2, SumNat
<1>3. ASSUME NEW i \in 1..L
      PROVE  SumFunctionOnSet(g, 1..i) = SumFunctionOnSet(g, 1..(i - 1)) + g[i]
  <2>1. i \in 0..L /\ i - 1 \in 0..L /\ i \in 1..i /\ (1..i) \ {i} = 1..(i - 1)
    OBVIOUS
  <2>2. IsFiniteSet(1..i) /\ \A k \in 1..i : g[k] \in Int
    BY <1>2, <2>1
  <2>3. SumFunctionOnSet(g, 1..i) = g[i] + SumFunctionOnSet(g, (1..i) \ {i})
    BY <2>1, <2>2, SumAdd
  <2>4. SumFunctionOnSet(g, 1..(i - 1)) \in Nat /\ g[i] \in Nat
    BY <1>2, <2>1
  <2>5. SumFunctionOnSet(g, (1..i) \ {i}) = SumFunctionOnSet(g, 1..(i - 1))
    BY <2>1, Zenon
  <2>6. \A x, y \in Nat : x + y = y + x
    OBVIOUS
  <2>. QED
    BY <2>3, <2>4, <2>5, <2>6, Zenon
<1>4. ASSUME NEW i \in 0..L, NEW j \in 0..L, i <= j
      PROVE  SumFunctionOnSet(g, 1..i) <= SumFunctionOnSet(g, 1..j)
  <2>1. IsFiniteSet(1..j) /\ 1..i \subseteq 1..j /\ \A k \in 1..j : g[k] \in Nat /\ g[k] \in Int
    BY <1>2, <1>4
  <2>2. SumFunctionOnSet(g, 1..j)
          = SumFunctionOnSet(g, 1..i) + SumFunctionOnSet(g, (1..j) \ (1..i))
    BY <2>1, SumSplit
  <2>3. SumFunctionOnSet(g, (1..j) \ (1..i)) \in Nat
    <3>1. IsFiniteSet((1..j) \ (1..i)) /\ \A k \in (1..j) \ (1..i) : g[k] \in Nat
      BY <2>1, FS_Subset
    <3>. QED
      BY <3>1, SumNat
  <2>4. SumFunctionOnSet(g, 1..i) \in Nat
    BY <1>2
  <2>. QED
    BY <2>2, <2>3, <2>4
<1>. QED
  BY <1>1, <1>2, <1>3, <1>4

LEMMA SeqIs ==
  ASSUME NEW S, NEW s \in Seq(S), s # <<>>
  PROVE  Len(s) \in Nat \ {0} /\ DOMAIN s = 1..Len(s)
  OBVIOUS

(* The weights cumulated: they start at nothing, never go down, and end    *)
(* within a hundredth of the whole.                                        *)
LEMMA ReachIs ==
  ASSUME NEW vs \in Designs, WellFormed(vs)
  PROVE  /\ Len(vs) \in Nat \ {0} /\ DOMAIN vs = 1..Len(vs) /\ weight(vs, 1..0) = 0
         /\ \A i \in 0..Len(vs) : weight(vs, 1..i) \in Nat
         /\ \A i \in 1..Len(vs) : vs[i].weight \in Nat
         /\ \A i \in 1..Len(vs) : weight(vs, 1..i) = weight(vs, 1..(i - 1)) + vs[i].weight
         /\ \A i, j \in 0..Len(vs) : i <= j => weight(vs, 1..i) <= weight(vs, 1..j)
         /\ weight(vs, 1..Len(vs)) \in 99..101
<1>1. PICK L \in Nat \ {0} : L = Len(vs) /\ DOMAIN vs = 1..L
  <2>1. vs \in Seq(Range(vs)) /\ vs # <<>>
    BY ExperimentAssumption DEF WellFormed
  <2>. QED
    BY <2>1, SeqIs
<1>2. PICK g : g = [i \in 1..L |-> vs[i].weight]
  OBVIOUS
<1>3. \A i \in 1..L : g[i] \in Nat /\ g[i] = vs[i].weight
  <2>1. \A i \in 1..L : vs[i].weight \in 0..100
    BY <1>1 DEF WellFormed
  <2>2. \A x \in 0..100 : x \in Nat
    OBVIOUS
  <2>3. \A i \in 1..L : g[i] = vs[i].weight
    BY <1>2
  <2>. QED
    BY <2>1, <2>2, <2>3
<1>4. ASSUME NEW i \in 0..L PROVE weight(vs, 1..i) = SumFunctionOnSet(g, 1..i)
  <2>1. PICK h : h = [j \in 1..i |-> vs[j].weight]
    OBVIOUS
  <2>2. IsFiniteSet(1..i) /\ \A j \in 1..i : j \in 1..L
    BY FS_Interval
  <2>3. \A j \in 1..i : h[j] \in Int /\ h[j] = g[j]
    BY <1>3, <2>1, <2>2
  <2>4. weight(vs, 1..i) = SumFunctionOnSet(h, 1..i)
    BY <2>1 DEF weight
  <2>. QED
    BY <2>2, <2>3, <2>4, SumSame
<1>5. /\ SumFunctionOnSet(g, 1..0) = 0
      /\ \A i \in 0..L : SumFunctionOnSet(g, 1..i) \in Nat
      /\ \A i \in 1..L : SumFunctionOnSet(g, 1..i) = SumFunctionOnSet(g, 1..(i - 1)) + g[i]
      /\ \A i, j \in 0..L : i <= j => SumFunctionOnSet(g, 1..i) <= SumFunctionOnSet(g, 1..j)
  <2>1. L \in Nat /\ \A i \in 1..L : g[i] \in Nat
    BY <1>3
  <2>. QED
    BY <2>1, SumSteps
<1>6. weight(vs, 1..L) \in 99..101
  BY <1>1 DEF WellFormed
<1>7. 0 \in 0..L /\ \A i \in 1..L : i \in 0..L /\ i - 1 \in 0..L
  OBVIOUS
<1>8. weight(vs, 1..0) = 0 /\ \A i \in 0..L : weight(vs, 1..i) \in Nat
  BY <1>4, <1>5, <1>7
<1>9. \A i \in 1..L : weight(vs, 1..i) = weight(vs, 1..(i - 1)) + vs[i].weight
  BY <1>3, <1>4, <1>5, <1>7
<1>10. \A i, j \in 0..L : i <= j => weight(vs, 1..i) <= weight(vs, 1..j)
  BY <1>4, <1>5
<1>. QED
  BY <1>1, <1>3, <1>6, <1>8, <1>9, <1>10

(* The variants a bucket stops short of the end of. *)
Beyond(vs, b) == {i \in DOMAIN vs : b < weight(vs, 1..i)}

LEMMA ChosenIs ==
  ASSUME NEW vs \in Designs, WellFormed(vs), NEW b \in Nat
  PROVE  /\ Chosen(vs, b) \in 1..Len(vs)
         /\ Beyond(vs, b) = {} => Chosen(vs, b) = Len(vs)
         /\ Beyond(vs, b) # {} => Chosen(vs, b) \in Beyond(vs, b)
         /\ \A i \in Beyond(vs, b) : Chosen(vs, b) <= i
<1> DEFINE B == Beyond(vs, b)
<1>1. Chosen(vs, b) = IF B = {} THEN Len(vs) ELSE Min(B)
  BY DEF Chosen, Beyond
<1>2. Len(vs) \in Nat \ {0} /\ B \in SUBSET (1..Len(vs))
  BY ReachIs DEF Beyond
<1> HIDE DEF B
<1>3. B # {} => Min(B) \in B /\ \A i \in B : Min(B) <= i
  BY <1>2, LeastIndexIs
<1>. QED
  BY <1>1, <1>2, <1>3 DEF B

(* Of ends that never go down, the first one beyond a number, or the last. *)
LEMMA FirstBeyond ==
  ASSUME NEW L \in Nat \ {0}, NEW R \in [0..L -> Nat], R[0] = 0,
         \A j, k \in 0..L : j <= k => R[j] <= R[k],
         NEW b \in Nat, NEW c \in 1..L, c # L => b < R[c],
         \A j \in 1..L : b < R[j] => c <= j, NEW i \in 1..L
  PROVE  c = i <=> R[i - 1] <= b /\ (i # L => b < R[i])
<1>1. ASSUME NEW j \in 1..L PROVE j \in 0..L /\ j - 1 \in 0..L /\ R[j] \in Nat /\ R[j - 1] \in Nat
  OBVIOUS
<1>2. R[c - 1] <= b
  <2>1. CASE c = 1
    BY <2>1
  <2>2. CASE c # 1
    <3>1. c - 1 \in 1..L /\ ~(c <= c - 1)
      BY <2>2
    <3>. QED
      BY <1>1, <3>1
  <2>. QED
    BY <2>1, <2>2
<1>3. ASSUME R[i - 1] <= b, i # L => b < R[i] PROVE c = i
  <2>1. c <= i
    BY <1>3
  <2>2. ASSUME c <= i - 1 PROVE FALSE
    <3>1. c # L /\ c \in 0..L /\ i - 1 \in 0..L
      BY <2>2
    <3>2. b < R[c] /\ R[c] <= R[i - 1] /\ R[c] \in Nat /\ R[i - 1] \in Nat
      BY <2>2, <3>1
    <3>. QED
      BY <1>3, <3>2
  <2>. QED
    BY <2>1, <2>2
<1>. QED
  BY <1>2, <1>3

(* A variant but the last gets the buckets from where the one before it    *)
(* ends to its own end, the last one all that are left.                    *)
LEMMA BucketsOf ==
  ASSUME NEW vs \in Designs, WellFormed(vs), NEW i \in 1..Len(vs), NEW b \in Nat
  PROVE  Chosen(vs, b) = i <=>
           /\ weight(vs, 1..(i - 1)) <= b
           /\ i # Len(vs) => b < weight(vs, 1..i)
<1>1. PICK L : L = Len(vs)
  OBVIOUS
<1>2. PICK R : R = [j \in 0..L |-> weight(vs, 1..j)]
  OBVIOUS
<1>3. PICK c : c = Chosen(vs, b)
  OBVIOUS
<1>4. L \in Nat \ {0} /\ DOMAIN vs = 1..L /\ 0 \in 0..L /\ i \in 1..L
  BY <1>1, ReachIs
<1>5. \A j \in 0..L : R[j] = weight(vs, 1..j)
  BY <1>2
<1>6. /\ R \in [0..L -> Nat] /\ R[0] = 0
      /\ \A j, k \in 0..L : j <= k => R[j] <= R[k]
  <2>1. R \in [0..L -> Nat]
    BY <1>1, <1>2, ReachIs
  <2>. QED
    BY <1>1, <1>4, <1>5, <2>1, ReachIs
<1>7. \A j \in 1..L : j \in 0..L /\ j - 1 \in 0..L
  BY <1>4
<1>8. \A j : j \in Beyond(vs, b) <=> j \in 1..L /\ b < R[j]
  BY <1>4, <1>5, <1>7 DEF Beyond
<1>9. /\ c \in 1..L /\ (Beyond(vs, b) = {} => c = L) /\ (Beyond(vs, b) # {} => c \in Beyond(vs, b))
      /\ \A j \in Beyond(vs, b) : c <= j
  BY <1>1, <1>3, ChosenIs
<1>10. c \in 1..L /\ (c # L => b < R[c]) /\ \A j \in 1..L : b < R[j] => c <= j
  BY <1>8, <1>9
<1>11. c = i <=> R[i - 1] <= b /\ (i # L => b < R[i])
  BY <1>4, <1>6, <1>10, FirstBeyond
<1>. QED
  BY <1>1, <1>3, <1>4, <1>5, <1>7, <1>11


(* Numbers from a up to z, or, if z is about the whole, all from a on: as  *)
(* many as from a to z, give or take one.                                  *)
LEMMA ArmIs ==
  ASSUME NEW a \in Nat, NEW z \in Nat, a <= z, z <= 101, NEW S,
         \/ S = {b \in 0..99 : a <= b /\ b < z}
         \/ 99 <= z /\ S = {b \in 0..99 : a <= b}
  PROVE  Cardinality(S) - (z - a) \in -1..1
<1>1. PICK e \in Int : S = a..e /\ (e = z - 1 \/ e = 99) /\ (e = 99 => z \in 99..101)
  <2>1. CASE 99 <= z /\ S = {b \in 0..99 : a <= b}
    <3>1. S = a..99 /\ z \in 99..101
      BY <2>1
    <3>. QED
      BY <3>1
  <2>2. CASE S = {b \in 0..99 : a <= b /\ b < z} /\ z <= 100
    <3>1. S = a..(z - 1) /\ z - 1 \in Int /\ (z - 1 = 99 => z \in 99..101)
      BY <2>2
    <3>. QED
      BY <3>1
  <2>3. CASE S = {b \in 0..99 : a <= b /\ b < z} /\ z = 101
    <3>1. S = a..99 /\ z \in 99..101
      BY <2>3
    <3>. QED
      BY <3>1
  <2>. QED
    BY <2>1, <2>2, <2>3
<1>2. a \in Int /\ z \in Int
  OBVIOUS
<1>3. Cardinality(S) = IF a > e THEN 0 ELSE e - a + 1
  BY <1>1, <1>2, FS_Interval
<1>4. PICK n : n = Cardinality(S)
  OBVIOUS
<1>5. n = IF a > e THEN 0 ELSE e - a + 1
  BY <1>3, <1>4
<1>6. n - (z - a) \in -1..1
  BY <1>1, <1>5
<1>. QED
  BY <1>4, <1>6

LEMMA SharesOf ==
  ASSUME NEW vs \in Designs, WellFormed(vs), NEW i \in DOMAIN vs
  PROVE  Cardinality({b \in 0..99 : Chosen(vs, b) = i}) - vs[i].weight \in -1..1
<1>1. PICK L \in Nat \ {0} : L = Len(vs) /\ DOMAIN vs = 1..L
  BY ReachIs
<1>2. i \in 1..L /\ i \in 0..L /\ i - 1 \in 0..L /\ L \in 0..L /\ i <= L /\ i - 1 <= i
  BY <1>1
<1>3. PICK a \in Nat : a = weight(vs, 1..(i - 1))
  BY <1>1, <1>2, ReachIs
<1>4. PICK z \in Nat : z = weight(vs, 1..i)
  BY <1>1, <1>2, ReachIs
<1>5. PICK w \in Nat : w = vs[i].weight /\ z = a + w
  BY <1>1, <1>2, <1>3, <1>4, ReachIs
<1>6. PICK r \in 99..101 : r = weight(vs, 1..L)
  BY <1>1, ReachIs
<1>7. z <= r /\ (i = L => z = r)
  BY <1>1, <1>2, <1>4, <1>6, ReachIs
<1>8. PICK S : S = {b \in 0..99 : Chosen(vs, b) = i}
  OBVIOUS
<1>9. \A b \in 0..99 : Chosen(vs, b) = i <=> a <= b /\ (i # L => b < z)
  <2>1. \A b \in 0..99 : b \in Nat
    OBVIOUS
  <2>2. i \in 1..Len(vs)
    BY <1>1, <1>2
  <2>. QED
    BY <1>1, <1>3, <1>4, <2>1, <2>2, BucketsOf
<1>10. Cardinality(S) - (z - a) \in -1..1
  <2>1. a <= z /\ z <= 101
    BY <1>5, <1>6, <1>7
  <2>2. CASE i # L
    <3>1. S = {b \in 0..99 : a <= b /\ b < z}
      BY <1>8, <1>9, <2>2
    <3>. QED
      BY <2>1, <3>1, ArmIs
  <2>3. CASE i = L
    <3>1. S = {b \in 0..99 : a <= b}
      BY <1>8, <1>9, <2>3
    <3>2. 99 <= z
      BY <1>6, <1>7, <2>3
    <3>. QED
      BY <2>1, <3>1, <3>2, ArmIs
  <2>. QED
    BY <2>2, <2>3
<1>11. w = z - a
  BY <1>5
<1>. QED
  BY <1>5, <1>8, <1>10, <1>11

(* Of two ways to weigh as many variants, the one whose ends come no later *)
(* gives a bucket no variant before the one it has by the other.           *)
LEMMA ChosenLater ==
  ASSUME NEW vs \in Designs, NEW ws \in Designs, WellFormed(vs), WellFormed(ws),
         Len(vs) = Len(ws), NEW b \in Nat,
         \A i \in DOMAIN vs : weight(ws, 1..i) <= weight(vs, 1..i)
  PROVE  Chosen(ws, b) >= Chosen(vs, b)
<1>1. PICK L \in Nat \ {0} : L = Len(vs) /\ L = Len(ws) /\ DOMAIN vs = 1..L /\ DOMAIN ws = 1..L
  BY ReachIs
<1>2. PICK c \in 1..L : c = Chosen(vs, b) /\ \A i \in Beyond(vs, b) : c <= i
  BY <1>1, ChosenIs
<1>3. PICK d \in 1..L : d = Chosen(ws, b) /\ (d = L \/ d \in Beyond(ws, b))
  BY <1>1, ChosenIs
<1>4. CASE d = L
  BY <1>2, <1>3, <1>4
<1>5. CASE d \in Beyond(ws, b)
  <2>1. PICK x \in Nat : x = weight(ws, 1..d)
    BY <1>1, ReachIs
  <2>2. PICK y \in Nat : y = weight(vs, 1..d)
    BY <1>1, ReachIs
  <2>3. b < x /\ x <= y
    BY <1>1, <1>5, <2>1, <2>2 DEF Beyond
  <2>4. d \in Beyond(vs, b)
    <3>1. b < y
      BY <2>3
    <3>. QED
      BY <1>1, <2>2, <3>1 DEF Beyond
  <2>5. c <= d
    BY <1>2, <2>4
  <2>. QED
    BY <1>2, <1>3, <2>5
<1>. QED
  BY <1>3, <1>4, <1>5

(* Versions are ordered, so that of some there is a latest one.            *)
LEMMA LatestVersionIs ==
  ASSUME build \in Builds, build # {}
  PROVE  latest \in build
<1> DEFINE After(v) == {w \in build : Before(v, w)}
<1>1. IsFiniteSet(build) /\ build \subseteq Nat \X Nat
  BY ExperimentAssumption
<1>2. \A v \in build : IsFiniteSet(After(v)) /\ Cardinality(After(v)) \in Nat
  BY <1>1, FS_Subset, FS_CardinalityType
<1>3. PICK v \in build : \A w \in build : Cardinality(After(v)) <= Cardinality(After(w))
  <2> DEFINE S == {Cardinality(After(w)) : w \in build}
  <2>1. S \in SUBSET Nat /\ S # {}
    BY <1>2
  <2> HIDE DEF After
  <2>2. PICK n \in S : \A m \in S : n <= m
    BY <2>1, LeastOf
  <2>. QED
    BY <2>2
<1>4. ASSUME NEW w \in build, w # v, ~Before(w, v) PROVE FALSE
  <2>1. /\ v[1] \in Nat /\ v[2] \in Nat /\ v = <<v[1], v[2]>>
        /\ w[1] \in Nat /\ w[2] \in Nat /\ w = <<w[1], w[2]>>
    BY <1>1
  <2>2. Before(v, w)
    BY <1>4, <2>1 DEF Before
  <2>3. \A u \in build : Before(w, u) => Before(v, u)
    <3> SUFFICES ASSUME NEW u \in build, Before(w, u) PROVE Before(v, u)
      OBVIOUS
    <3>1. u[1] \in Nat /\ u[2] \in Nat
      BY <1>1
    <3>. QED
      BY <2>1, <2>2, <3>1 DEF Before
  <2>4. ~Before(w, w)
    BY <2>1 DEF Before
  <2>5. After(w) \subseteq After(v) /\ w \in After(v) /\ w \notin After(w)
    BY <2>2, <2>3, <2>4
  <2> HIDE DEF After
  <2>6. Cardinality(After(w)) < Cardinality(After(v))
    BY <1>2, <2>5, FS_Subset
  <2>. QED
    BY <1>2, <1>3, <2>6
<1>. QED
  BY <1>3, <1>4 DEF latest


(* What an assignment is: the variant the key's bucket falls into, or none.*)
Assigned ==
  {a \in [key : Subjects, of : Designs, variant : Nat, version : UNION Builds] :
     /\ WellFormed(a.of) /\ a.variant \in 0..Len(a.of)
     /\ a.variant > 0 => a.variant = Chosen(a.of, Bucket[a.key])}

AssignedInv ==
  /\ build \in Builds \cup {{}} /\ HasFallback(build, fallback_version)
  /\ variants \in Designs \cup {<<>>} /\ switched_on \in BOOLEAN
  /\ variants # <<>> => WellFormed(variants)
  /\ assigned \in Seq(Assigned)

LEMMA BucketIs == \A key \in Subjects : Bucket[key] \in Nat
<1>1. Bucket \in [Subjects -> 0..99] /\ 0..99 \subseteq Nat
  BY ExperimentAssumption
<1>2. \A key \in Subjects : Bucket[key] \in 0..99
  BY <1>1
<1>. QED
  BY <1>1, <1>2

(* An assignment is one, whether its version is the variant's own or the   *)
(* one to fall back on.                                                    *)
LEMMA AssignedIs ==
  ASSUME AssignedInv, NEW key \in Subjects, variants # <<>>, build # {},
         NEW i \in Nat, i = 0 \/ i = Chosen(variants, Bucket[key]),
         NEW v \in build
  PROVE  [key |-> key, of |-> variants, variant |-> i, version |-> v] \in Assigned
<1>1. variants \in Designs /\ WellFormed(variants) /\ build \in Builds
  BY DEF AssignedInv
<1>2. Chosen(variants, Bucket[key]) \in 1..Len(variants) /\ Len(variants) \in Nat
  BY <1>1, ReachIs, ChosenIs, BucketIs
<1>3. i \in 0..Len(variants)
  BY <1>2
<1>. QED
  BY <1>1, <1>3 DEF Assigned

LEMMA AssignedStep == AssignedInv /\ [ExperimentNext]_experimentVars => AssignedInv'
<1> SUFFICES ASSUME AssignedInv, [ExperimentNext]_experimentVars PROVE AssignedInv'
  OBVIOUS
<1>1. ASSUME NEW b \in Builds, NEW v \in UNION Builds \cup {Newest}, Deploy(b, v) PROVE AssignedInv'
  BY <1>1 DEF AssignedInv, Deploy, HasFallback
<1>2. ASSUME NEW vs \in Designs, NEW on \in BOOLEAN, Configure(vs, on) PROVE AssignedInv'
  BY <1>2 DEF AssignedInv, Configure, HasFallback
<1>3. ASSUME NEW key \in Subjects, select(key) PROVE AssignedInv'
  <2>1. variants # <<>> /\ variants \in Designs /\ WellFormed(variants)
    BY <1>3 DEF select, AssignedInv
  <2>2. PICK i \in Nat : i = Chosen(variants, Bucket[key])
    <3>1. /\ Len(variants) \in Nat /\ Chosen(variants, Bucket[key]) \in 1..Len(variants)
      BY <2>1, ReachIs, ChosenIs, BucketIs
    <3>. QED
      BY <3>1
  <2>3. assigned \in Seq(Assigned)
    BY DEF AssignedInv
  <2>4. CASE switched_on /\ variants[i].version \in build
    <3>1. PICK a : a = [key |-> key, of |-> variants, variant |-> i, version |-> variants[i].version]
      OBVIOUS
    <3>2. a \in Assigned
      BY <2>1, <2>2, <2>4, <3>1, AssignedIs
    <3>3. assigned' = Append(assigned, a) /\ UNCHANGED <<build, fallback_version, variants, switched_on>>
      BY <1>3, <2>2, <2>4, <3>1 DEF select
    <3>4. Append(assigned, a) \in Seq(Assigned)
      BY <2>3, <3>2, AppendIs
    <3>. QED
      BY <3>3, <3>4 DEF AssignedInv, HasFallback
  <2>5. CASE ~(switched_on /\ variants[i].version \in build)
    <3>1. fallback(key) /\ UNCHANGED <<build, fallback_version, variants, switched_on>>
      BY <1>3, <2>2, <2>5 DEF select
    <3>2. PICK v : v = IF fallback_version = Newest THEN latest ELSE fallback_version
      OBVIOUS
    <3>3. PICK a : a = [key |-> key, of |-> variants, variant |-> 0, version |-> v]
      OBVIOUS
    <3>4. assigned' = Append(assigned, a) /\ (fallback_version # Newest \/ build # {})
      BY <3>1, <3>2, <3>3 DEF fallback
    <3>5. build \in Builds \cup {{}} /\ (fallback_version = Newest \/ fallback_version \in build)
      BY DEF AssignedInv, HasFallback
    <3>6. build # {} /\ build \in Builds
      BY <3>4, <3>5
    <3>7. v \in build
      BY <3>2, <3>5, <3>6, LatestVersionIs
    <3>8. a \in Assigned
      BY <2>1, <3>3, <3>6, <3>7, AssignedIs
    <3>9. Append(assigned, a) \in Seq(Assigned)
      BY <2>3, <3>8, AppendIs
    <3>. QED
      BY <3>1, <3>4, <3>9 DEF AssignedInv, HasFallback
  <2>. QED
    BY <2>4, <2>5
<1>4. CASE UNCHANGED experimentVars
  BY <1>4 DEF AssignedInv, experimentVars, HasFallback
<1>. QED
  BY <1>1, <1>2, <1>3, <1>4 DEF ExperimentNext

LEMMA AssignedInvariance == ExperimentSpec => []AssignedInv
<1>1. ExperimentInit => AssignedInv
  <2>1. <<>> \in Seq(Assigned)
    OBVIOUS
  <2>. QED
    BY <2>1 DEF ExperimentInit, AssignedInv, HasFallback
<1>. QED
  BY <1>1, AssignedStep, PTL DEF ExperimentSpec

LEMMA NeverBack ==
  ASSUME AssignedInv
  PROVE  NeverMovedBack
<1> SUFFICES ASSUME NEW n \in DOMAIN assigned, NEW l \in DOMAIN assigned,
                    assigned[n].key = assigned[l].key, Arms(n) = Arms(l),
                    assigned[n].variant > 0, assigned[l].variant > 0,
                    \A i \in DOMAIN Arms(n) : Reach(l, i) <= Reach(n, i)
             PROVE  assigned[l].variant >= assigned[n].variant
  BY DEF NeverMovedBack
<1>1. PICK a : a = assigned[n]
  OBVIOUS
<1>2. PICK z : z = assigned[l]
  OBVIOUS
<1>3. a \in Assigned /\ z \in Assigned
  BY <1>1, <1>2 DEF AssignedInv
<1>4. /\ a.of \in Designs /\ WellFormed(a.of) /\ z.of \in Designs /\ WellFormed(z.of)
      /\ a.key \in Subjects /\ a.key = z.key
      /\ a.variant = Chosen(a.of, Bucket[a.key]) /\ z.variant = Chosen(z.of, Bucket[a.key])
  BY <1>1, <1>2, <1>3 DEF Assigned
<1>5. DOMAIN a.of = DOMAIN z.of
  <2>1. DOMAIN Arms(n) = DOMAIN a.of /\ DOMAIN Arms(l) = DOMAIN z.of
    BY <1>1, <1>2 DEF Arms
  <2>. QED
    BY <2>1
<1>6. Len(a.of) = Len(z.of)
  <2>1. PICK j \in Nat \ {0} : j = Len(a.of) /\ DOMAIN a.of = 1..j
    BY <1>4, ReachIs
  <2>2. PICK k \in Nat \ {0} : k = Len(z.of) /\ DOMAIN z.of = 1..k
    BY <1>4, ReachIs
  <2>3. 1..j = 1..k
    BY <1>5, <2>1, <2>2
  <2>4. j = k
    BY <2>3
  <2>. QED
    BY <2>1, <2>2, <2>4
<1>7. \A i \in DOMAIN a.of : weight(z.of, 1..i) <= weight(a.of, 1..i)
  BY <1>1, <1>2 DEF Arms, Reach
<1>8. Chosen(z.of, Bucket[a.key]) >= Chosen(a.of, Bucket[a.key])
  BY <1>4, <1>6, <1>7, BucketIs, ChosenLater
<1>. QED
  BY <1>1, <1>2, <1>4, <1>8

(* Whatever is deployed, switched off or weighed anew, a caller is only    *)
(* moved with the weights and never back, and every variant has the share  *)
(* of the hundred buckets its weight says, give or take the hundredth the  *)
(* weights may miss the whole by.                                          *)
THEOREM ExperimentsKeepAssignments == ExperimentSpec => [](ExperimentTypeOK /\ AssignmentsKept)
<1>1. AssignedInv => ExperimentTypeOK
  <2> SUFFICES ASSUME AssignedInv PROVE ExperimentTypeOK
    OBVIOUS
  <2>1. \A n \in DOMAIN assigned : assigned[n] \in Assigned
    BY DEF AssignedInv
  <2>. QED
    BY <2>1 DEF AssignedInv, Assigned, ExperimentTypeOK
<1>2. AssignedInv => SharesKept
  <2> SUFFICES ASSUME AssignedInv, NEW i \in DOMAIN variants
               PROVE  Cardinality({b \in 0..99 : Chosen(variants, b) = i}) - variants[i].weight \in -1..1
    BY DEF SharesKept
  <2>1. variants # <<>>
    OBVIOUS
  <2>. QED
    BY <2>1, SharesOf DEF AssignedInv
<1>. QED
  BY <1>1, <1>2, AssignedInvariance, NeverBack, PTL DEF AssignmentsKept


-----------------------------------------------------------------------------
(* The error budgets.                                                      *)

Levels == {"normal", "watch", "soft_freeze", "hard_freeze"}

LEMMA WatchedIs ==
  ASSUME NEW n \in Watched
  PROVE  DEFAULT_SLOS[n].objective \in {950, 999} /\ DEFAULT_SLOS[n].window \in {7, 30}
<1>1. n \in {"api_availability", "pr_analysis_latency", "test_plan_generation_latency",
             "api_smoke_latency", "ui_smoke_latency", "failure_classification_latency",
             "evidence_report_latency", "eval_success_rate"}
  BY BudgetAssumption DEF DEFAULT_SLOS
<1>2. CASE n = "api_availability"
  BY <1>2 DEF DEFAULT_SLOS
<1>3. CASE n = "pr_analysis_latency"
  BY <1>3 DEF DEFAULT_SLOS, Latency
<1>4. CASE n = "test_plan_generation_latency"
  BY <1>4 DEF DEFAULT_SLOS, Latency
<1>5. CASE n = "api_smoke_latency"
  BY <1>5 DEF DEFAULT_SLOS, Latency
<1>6. CASE n = "ui_smoke_latency"
  BY <1>6 DEF DEFAULT_SLOS, Latency
<1>7. CASE n = "failure_classification_latency"
  BY <1>7 DEF DEFAULT_SLOS, Latency
<1>8. CASE n = "evidence_report_latency"
  BY <1>8 DEF DEFAULT_SLOS, Latency
<1>9. CASE n = "eval_success_rate"
  BY <1>9 DEF DEFAULT_SLOS
<1>. QED
  BY <1>1, <1>2, <1>3, <1>4, <1>5, <1>6, <1>7, <1>8, <1>9

LEMMA MaxOfZero ==
  ASSUME NEW x \in Int
  PROVE  Max({0, x}) = IF x > 0 THEN x ELSE 0
<1>1. \E m \in {0, x} : \A y \in {0, x} : y <= m
  <2>1. CASE x > 0
    BY <2>1
  <2>2. CASE ~(x > 0)
    BY <2>2
  <2>. QED
    BY <2>1, <2>2
<1>2. Max({0, x}) \in {0, x} /\ \A y \in {0, x} : y <= Max({0, x})
  BY <1>1 DEF Max
<1>. QED
  BY <1>2

(* The level an SLO of that objective is at with so many good and bad      *)
(* samples.                                                                *)
LevelOf(slo, good, bad) == decide(from_compliance(slo, good, bad))

(* Where one level ends and the next begins: with k thousandths to spare,  *)
(* bad samples weigh against good ones.                                    *)
Stands(level, k, good, bad) ==
  /\ level \in Levels
  /\ level # "normal" <=> bad > 0 /\ k * good < (2000 - k) * bad
  /\ level \in {"soft_freeze", "hard_freeze"} <=> bad > 0 /\ (3 * k) * good < (4000 - 3 * k) * bad
  /\ level = "hard_freeze" <=> bad > 0 /\ k * good <= (1000 - k) * bad

LEMMA LevelIs ==
  ASSUME NEW slo, slo.objective \in {950, 999}, NEW good \in Nat, NEW bad \in Nat,
         NEW k, k = 1000 - slo.objective
  PROVE  Stands(LevelOf(slo, good, bad), k, good, bad)
<1>1. k \in {1, 50}
  BY SMT
<1>2. PICK t \in Nat : t = good + bad
  OBVIOUS
<1>3. PICK a \in Int : a = t * k
  BY <1>1
<1>4. PICK r \in Int : r = IF a - 1000 * bad > 0 THEN a - 1000 * bad ELSE 0
  BY <1>3
<1>5. from_compliance(slo, good, bad)
        = IF t = 0 THEN [remaining |-> 1, allowed |-> 1] ELSE [remaining |-> r, allowed |-> a]
  <2>1. a - 1000 * bad \in Int
    BY <1>3
  <2>2. Max({0, a - 1000 * bad}) = r
    BY <1>4, <2>1, MaxOfZero
  <2>. QED
    BY <1>2, <1>3, <2>2 DEF from_compliance
<1>6. LevelOf(slo, good, bad) =
        IF t = 0 THEN "normal" ELSE IF r = 0 THEN "hard_freeze"
        ELSE IF 4 * r < a THEN "soft_freeze" ELSE IF 2 * r < a THEN "watch" ELSE "normal"
  <2>1. CASE t = 0
    BY <1>5, <2>1 DEF LevelOf, decide
  <2>2. CASE t # 0
    BY <1>5, <2>2 DEF LevelOf, decide
  <2>. QED
    BY <2>1, <2>2
<1>7. PICK v : v = LevelOf(slo, good, bad)
  OBVIOUS
<1>8. v = IF t = 0 THEN "normal" ELSE IF r = 0 THEN "hard_freeze"
          ELSE IF 4 * r < a THEN "soft_freeze" ELSE IF 2 * r < a THEN "watch" ELSE "normal"
  BY <1>6, <1>7
<1>9. /\ v \in Levels
      /\ v # "normal" <=> t # 0 /\ (r = 0 \/ 4 * r < a \/ 2 * r < a)
      /\ v \in {"soft_freeze", "hard_freeze"} <=> t # 0 /\ (r = 0 \/ 4 * r < a)
      /\ v = "hard_freeze" <=> t # 0 /\ r = 0
  BY <1>8 DEF Levels
<1>10. CASE k = 1
  <2>1. a = good + bad /\ r = IF good - 999 * bad > 0 THEN good - 999 * bad ELSE 0
    BY <1>2, <1>3, <1>4, <1>10
  <2>2. t # 0 /\ r = 0 <=> bad > 0 /\ good <= 999 * bad
    BY <1>2, <2>1
  <2>3. t # 0 /\ (r = 0 \/ 4 * r < a) <=> bad > 0 /\ 3 * good < 3997 * bad
    BY <1>2, <2>1
  <2>4. t # 0 /\ (r = 0 \/ 4 * r < a \/ 2 * r < a) <=> bad > 0 /\ good < 1999 * bad
    BY <1>2, <2>1
  <2>. QED
    BY <1>7, <1>9, <1>10, <2>2, <2>3, <2>4 DEF Stands
<1>11. CASE k = 50
  <2>1. a = 50 * good + 50 * bad /\ r = IF 50 * good - 950 * bad > 0 THEN 50 * good - 950 * bad ELSE 0
    BY <1>2, <1>3, <1>4, <1>11
  <2>2. t # 0 /\ r = 0 <=> bad > 0 /\ 50 * good <= 950 * bad
    BY <1>2, <2>1
  <2>3. t # 0 /\ (r = 0 \/ 4 * r < a) <=> bad > 0 /\ 150 * good < 3850 * bad
    BY <1>2, <2>1
  <2>4. t # 0 /\ (r = 0 \/ 4 * r < a \/ 2 * r < a) <=> bad > 0 /\ 50 * good < 1950 * bad
    BY <1>2, <2>1
  <2>. QED
    BY <1>7, <1>9, <1>11, <2>2, <2>3, <2>4 DEF Stands
<1>. QED
  BY <1>1, <1>10, <1>11

(* With no more good samples and no fewer bad ones no level is milder.     *)
LEMMA LevelMonotone ==
  ASSUME NEW slo, slo.objective \in {950, 999}, NEW g \in Nat, NEW b \in Nat,
         NEW h \in Nat, NEW d \in Nat, h <= g, b <= d
  PROVE  Severity[LevelOf(slo, g, b)] <= Severity[LevelOf(slo, h, d)]
<1>1. PICK k \in {1, 50} : k = 1000 - slo.objective
  <2>1. slo.objective = 950 \/ slo.objective = 999
    OBVIOUS
  <2>2. 1000 - 950 = 50 /\ 1000 - 999 = 1
    OBVIOUS
  <2>. QED
    BY <2>1, <2>2
<1>2. k = 1 \/ k = 50
  OBVIOUS
<1>3. PICK u : u = LevelOf(slo, g, b)
  OBVIOUS
<1>4. PICK v : v = LevelOf(slo, h, d)
  OBVIOUS
<1>5. Stands(u, k, g, b)
  BY <1>1, <1>3, LevelIs
<1>6. Stands(v, k, h, d)
  BY <1>1, <1>4, LevelIs
<1>7. /\ u # "normal" => v # "normal"
      /\ u \in {"soft_freeze", "hard_freeze"} => v \in {"soft_freeze", "hard_freeze"}
      /\ u = "hard_freeze" => v = "hard_freeze"
  <2>1. CASE k = 1
    <3>1. /\ b > 0 /\ g < 1999 * b => d > 0 /\ h < 1999 * d
          /\ b > 0 /\ 3 * g < 3997 * b => d > 0 /\ 3 * h < 3997 * d
          /\ b > 0 /\ g <= 999 * b => d > 0 /\ h <= 999 * d
      OBVIOUS
    <3>. QED
      BY <1>5, <1>6, <2>1, <3>1 DEF Stands
  <2>2. CASE k = 50
    <3>1. /\ b > 0 /\ 50 * g < 1950 * b => d > 0 /\ 50 * h < 1950 * d
          /\ b > 0 /\ 150 * g < 3850 * b => d > 0 /\ 150 * h < 3850 * d
          /\ b > 0 /\ 50 * g <= 950 * b => d > 0 /\ 50 * h <= 950 * d
      OBVIOUS
    <3>. QED
      BY <1>5, <1>6, <2>2, <3>1 DEF Stands
  <2>. QED
    BY <1>2, <2>1, <2>2
<1>8. Severity[u] <= Severity[v]
  BY <1>5, <1>6, <1>7 DEF Severity, Levels, Stands
<1>. QED
  BY <1>3, <1>4, <1>8


Judged(n, f) ==
  f.good \in Nat /\ f.bad \in Nat /\ f.level = LevelOf(DEFAULT_SLOS[n], f.good, f.bad)

(* A bad sample of the SLO in the window that ends that day. *)
BadSeen(n, d) ==
  \E s \in BagToSet(samples) :
    /\ s.slo_name = n /\ s.observed_at \in (d - DEFAULT_SLOS[n].window)..d
    /\ Tagged(s, DEFAULT_SLOS[n]) /\ ~IsGood(s, DEFAULT_SLOS[n])

BudgetInv ==
  /\ slo_now \in Days /\ batches \in 0..MaxBatches
  /\ IsFiniteSet(DOMAIN samples) /\ DOMAIN samples \subseteq RequestSample
  /\ \A s \in DOMAIN samples : samples[s] \in Nat /\ s.observed_at <= slo_now
  /\ \A n \in Watched : /\ Judged(n, freeze[n]) /\ Judged(n, freezeBefore[n])
                        /\ freeze[n].bad > 0 => BadSeen(n, freeze[n].at)

LEMMA SampleIs == \A s \in RequestSample : s.observed_at \in Nat
<1>1. \A s \in RequestSample : s.observed_at \in Days
  BY DEF RequestSample
<1>. QED
  BY <1>1, BudgetAssumption

(* What an evaluation finds: as many bad samples as there are of them in   *)
(* the window, so that if it finds any there is one.                       *)
LEMMA EvaluateOneIs ==
  ASSUME BudgetInv, NEW n \in Watched, \A s \in Counted(n) : Tagged(s, DEFAULT_SLOS[n])
  PROVE  /\ Judged(n, evaluate_one(n)) /\ evaluate_one(n).at = slo_now
         /\ evaluate_one(n).bad > 0 => BadSeen(n, slo_now)
<1>1. PICK slo : slo = DEFAULT_SLOS[n]
  OBVIOUS
<1>2. PICK C : C = Counted(n)
  OBVIOUS
<1>3. PICK G : G = {s \in C : IsGood(s, slo)}
  OBVIOUS
<1>4. IsFiniteSet(C) /\ C \subseteq DOMAIN samples /\ \A s \in C : samples[s] \in Nat /\ samples[s] \in Int
  <2>1. C \subseteq DOMAIN samples
    BY <1>2 DEF Counted, BagToSet
  <2>2. IsFiniteSet(C)
    BY <2>1, FS_Subset DEF BudgetInv
  <2>. QED
    BY <2>1, <2>2 DEF BudgetInv
<1>5. /\ G \subseteq C /\ IsFiniteSet(G) /\ IsFiniteSet(C \ G)
      /\ \A s \in G : samples[s] \in Nat
      /\ \A s \in C \ G : samples[s] \in Nat /\ samples[s] \in Int
  BY <1>3, <1>4, FS_Subset
<1>6. PICK g \in Nat : g = Total(G)
  BY <1>5, SumNat DEF Total
<1>7. PICK b \in Nat : b = SumFunctionOnSet(samples, C \ G)
  BY <1>5, SumNat
<1>8. PICK t \in Nat : t = Total(C)
  BY <1>4, SumNat DEF Total
<1>9. t = g + b
  BY <1>4, <1>5, <1>6, <1>7, <1>8, SumSplit DEF Total
<1>10. b = t - g
  BY <1>9
<1>11. evaluate_one(n) = [at |-> slo_now, good |-> g, bad |-> b, level |-> LevelOf(slo, g, b)]
  BY <1>1, <1>2, <1>3, <1>6, <1>8, <1>10 DEF evaluate_one, LevelOf
<1>12. b > 0 => BadSeen(n, slo_now)
  <2> SUFFICES ASSUME b > 0 PROVE BadSeen(n, slo_now)
    OBVIOUS
  <2>1. \E s \in C \ G : samples[s] # 0
    <3>1. SumFunctionOnSet(samples, C \ G) # 0
      BY <1>7
    <3>. QED
      BY <1>5, <3>1, SumPositive
  <2>2. PICK s \in C : s \notin G
    BY <2>1
  <2>3. /\ s \in DOMAIN samples /\ s.slo_name = n /\ ~IsGood(s, slo) /\ Tagged(s, slo)
        /\ s.observed_at >= slo_now - slo.window
    BY <1>1, <1>2, <1>3, <2>2 DEF Counted, BagToSet
  <2>4. s.observed_at <= slo_now /\ s.observed_at \in Nat /\ slo_now \in Nat /\ slo.window \in Nat
    BY <1>1, <2>3, SampleIs, WatchedIs, BudgetAssumption DEF BudgetInv
  <2>5. s.observed_at \in (slo_now - slo.window)..slo_now
    BY <2>3, <2>4
  <2>. QED
    BY <1>1, <2>3, <2>5 DEF BadSeen, BagToSet
<1>. QED
  BY <1>1, <1>11, <1>12 DEF Judged

LEMMA BudgetInitInv == BudgetInit => BudgetInv
<1> SUFFICES ASSUME BudgetInit PROVE BudgetInv
  OBVIOUS
<1>1. DOMAIN samples = {}
  BY DEF BudgetInit, EmptyBag, SetToBag
<1>2. slo_now \in Days /\ batches \in 0..MaxBatches
  BY BudgetAssumption DEF BudgetInit
<1>3. ASSUME NEW n \in Watched
      PROVE  Judged(n, Untouched[n]) /\ ~(Untouched[n].bad > 0)
  <2>1. Untouched[n] = [at |-> 0, good |-> 0, bad |-> 0, level |-> "normal"]
    BY DEF Untouched
  <2>2. PICK level : level = LevelOf(DEFAULT_SLOS[n], 0, 0)
    OBVIOUS
  <2>3. PICK k : k = 1000 - DEFAULT_SLOS[n].objective
    OBVIOUS
  <2>4. Stands(level, k, 0, 0)
    <3>1. 0 \in Nat /\ DEFAULT_SLOS[n].objective \in {950, 999}
      BY WatchedIs
    <3>. QED
      BY <2>2, <2>3, <3>1, LevelIs
  <2>5. level = "normal"
    BY <2>4 DEF Stands
  <2>. QED
    BY <2>1, <2>2, <2>5 DEF Judged
<1>4. IsFiniteSet(DOMAIN samples)
  BY <1>1, FS_EmptySet
<1>. QED
  BY <1>1, <1>2, <1>3, <1>4 DEF BudgetInit, BudgetInv

LEMMA BudgetStep == BudgetInv /\ [BudgetNext]_budgetVars => BudgetInv'
<1> SUFFICES ASSUME BudgetInv, [BudgetNext]_budgetVars PROVE BudgetInv'
  OBVIOUS
<1>1. ASSUME NEW sample \in RequestSample, NEW load \in Loads, Observe(sample, load)
      PROVE  BudgetInv'
  <2>1. DOMAIN samples' = DOMAIN samples \cup {sample}
    BY <1>1 DEF Observe, (+)
  <2>2. \A s \in DOMAIN samples' :
          samples'[s] = (IF s \in DOMAIN samples THEN samples[s] ELSE 0)
                        + (IF s = sample THEN load ELSE 0)
    BY <1>1 DEF Observe, (+)
  <2>3. load \in Nat /\ sample.observed_at <= slo_now
    BY <1>1, BudgetAssumption DEF Observe
  <2>4. \A s \in DOMAIN samples' : samples'[s] \in Nat /\ s.observed_at <= slo_now
    BY <2>1, <2>2, <2>3 DEF BudgetInv
  <2>5. IsFiniteSet(DOMAIN samples') /\ DOMAIN samples' \subseteq RequestSample
    BY <2>1, FS_AddElement DEF BudgetInv
  <2>6. UNCHANGED <<slo_now, freeze, freezeBefore>> /\ batches' \in 0..MaxBatches
    BY <1>1, BudgetAssumption DEF Observe, BudgetInv
  <2>7. \A n, d : BadSeen(n, d) => BadSeen(n, d)'
    BY <2>1 DEF BadSeen, BagToSet
  <2>8. \A n \in Watched : /\ Judged(n, freeze'[n]) /\ Judged(n, freezeBefore'[n])
                           /\ freeze'[n].bad > 0 => BadSeen(n, freeze[n].at)'
    BY <2>6, <2>7 DEF BudgetInv
  <2>. QED
    BY <2>4, <2>5, <2>6, <2>8 DEF BudgetInv, Judged
<1>2. CASE Evaluate
  <2>1. UNCHANGED <<slo_now, samples, batches>>
    BY <1>2 DEF Evaluate
  <2>2. \A n \in Watched : freeze'[n] = evaluate_one(n) /\ freezeBefore'[n] = freeze[n]
    BY <1>2 DEF Evaluate
  <2>3. ASSUME NEW n \in Watched
        PROVE  /\ Judged(n, freeze'[n]) /\ Judged(n, freezeBefore'[n])
               /\ freeze'[n].bad > 0 => BadSeen(n, freeze'[n].at)
    <3>1. \A s \in Counted(n) : Tagged(s, DEFAULT_SLOS[n])
      BY <1>2 DEF Evaluate
    <3>2. /\ Judged(n, evaluate_one(n)) /\ evaluate_one(n).at = slo_now
          /\ evaluate_one(n).bad > 0 => BadSeen(n, slo_now)
      BY <3>1, EvaluateOneIs
    <3>3. Judged(n, freeze[n])
      BY DEF BudgetInv
    <3>. QED
      BY <2>2, <3>2, <3>3
  <2>4. \A n, d : BadSeen(n, d) => BadSeen(n, d)'
    BY <2>1 DEF BadSeen
  <2>. QED
    BY <2>1, <2>3, <2>4 DEF BudgetInv, Judged
<1>3. CASE WindowMoves
  <2>1. UNCHANGED <<samples, batches, freeze, freezeBefore>> /\ slo_now' \in Days /\ slo_now' > slo_now
    BY <1>3 DEF WindowMoves
  <2>2. \A s \in DOMAIN samples : s.observed_at <= slo_now'
    <3> SUFFICES ASSUME NEW s \in DOMAIN samples PROVE s.observed_at <= slo_now'
      OBVIOUS
    <3>1. s.observed_at \in Nat /\ slo_now \in Nat /\ slo_now' \in Nat /\ s.observed_at <= slo_now
      BY <2>1, SampleIs, BudgetAssumption DEF BudgetInv
    <3>. QED
      BY <2>1, <3>1
  <2>3. \A n, d : BadSeen(n, d) => BadSeen(n, d)'
    BY <2>1 DEF BadSeen
  <2>. QED
    BY <2>1, <2>2, <2>3 DEF BudgetInv, Judged
<1>4. CASE UNCHANGED budgetVars
  <2>1. UNCHANGED <<slo_now, samples, batches, freeze, freezeBefore>>
    BY <1>4 DEF budgetVars
  <2>2. \A n, d : BadSeen(n, d) => BadSeen(n, d)'
    BY <2>1 DEF BadSeen
  <2>. QED
    BY <2>1, <2>2 DEF BudgetInv, Judged
<1>. QED
  BY <1>1, <1>2, <1>3, <1>4 DEF BudgetNext

LEMMA BudgetInvariance == BudgetSpec => []BudgetInv
  BY BudgetInitInv, BudgetStep, PTL DEF BudgetSpec

(* A freeze eases and tightens with the SLO's own samples only, there is   *)
(* none without a bad one in the window, and the last of the budget is     *)
(* spent when the objective is.                                            *)
THEOREM FreezesAreEarned == BudgetSpec => [](BudgetTypeOK /\ FreezeEarned)
<1>1. BudgetInv => BudgetTypeOK
  BY DEF BudgetInv, BudgetTypeOK, BagToSet, Judged
<1>2. BudgetInv => FreezeEarned
  <2> SUFFICES ASSUME BudgetInv, NEW n \in Watched
               PROVE  LET now == freeze[n]  before == freezeBefore[n] IN
                 /\ Severity[now.level] < Severity[before.level] => now.good > before.good \/ now.bad < before.bad
                 /\ Severity[now.level] > Severity[before.level] => now.good < before.good \/ now.bad > before.bad
                 /\ now.level # "normal" => BadSeen(n, now.at)
                 /\ now.level = "hard_freeze" <=>
                      /\ now.bad > 0
                      /\ now.good * 1000 <= DEFAULT_SLOS[n].objective * (now.good + now.bad)
    BY DEF FreezeEarned, BadSeen
  <2>1. PICK slo : slo = DEFAULT_SLOS[n] /\ slo.objective \in {950, 999}
    BY WatchedIs
  <2>2. PICK g \in Nat, b \in Nat :
           g = freeze[n].good /\ b = freeze[n].bad /\ freeze[n].level = LevelOf(slo, g, b)
    BY <2>1 DEF BudgetInv, Judged
  <2>3. PICK h \in Nat, d \in Nat :
           h = freezeBefore[n].good /\ d = freezeBefore[n].bad /\ freezeBefore[n].level = LevelOf(slo, h, d)
    BY <2>1 DEF BudgetInv, Judged
  <2>4. PICK k : k = 1000 - slo.objective
    OBVIOUS
  <2>5. PICK u : u = LevelOf(slo, g, b) /\ Stands(u, k, g, b)
    BY <2>1, <2>4, LevelIs
  <2>6. PICK v : v = LevelOf(slo, h, d) /\ Stands(v, k, h, d)
    BY <2>1, <2>4, LevelIs
  <2>7. Severity[u] \in Int /\ Severity[v] \in Int
    BY <2>5, <2>6 DEF Stands, Levels, Severity
  <2>8. Severity[u] < Severity[v] => g > h \/ b < d
    <3>1. g <= h /\ d <= b => Severity[v] <= Severity[u]
      BY <2>1, <2>5, <2>6, LevelMonotone
    <3>. QED
      BY <2>7, <3>1
  <2>9. Severity[u] > Severity[v] => g < h \/ b > d
    <3>1. h <= g /\ b <= d => Severity[u] <= Severity[v]
      BY <2>1, <2>5, <2>6, LevelMonotone
    <3>. QED
      BY <2>7, <3>1
  <2>10. u # "normal" => BadSeen(n, freeze[n].at)
    BY <2>2, <2>5 DEF Stands, BudgetInv
  <2>11. u = "hard_freeze" <=> b > 0 /\ g * 1000 <= slo.objective * (g + b)
    <3>1. CASE slo.objective = 999
      <4>1. k = 1
        BY <2>4, <3>1
      <4>2. u = "hard_freeze" <=> b > 0 /\ g <= 999 * b
        BY <2>5, <4>1 DEF Stands
      <4>. QED
        BY <3>1, <4>2
    <3>2. CASE slo.objective = 950
      <4>1. k = 50
        BY <2>4, <3>2
      <4>2. u = "hard_freeze" <=> b > 0 /\ 50 * g <= 950 * b
        BY <2>5, <4>1 DEF Stands
      <4>. QED
        BY <3>2, <4>2
    <3>. QED
      BY <2>1, <3>1, <3>2
  <2>. QED
    BY <2>1, <2>2, <2>3, <2>5, <2>6, <2>8, <2>9, <2>10, <2>11
<1>. QED
  BY <1>1, <1>2, BudgetInvariance, PTL

(* Freezes and load tests together, beside each other: both are held to    *)
(* the same samples and thresholds.                                        *)
THEOREM BudgetsBacked == BudgetSpec /\ PerfSpec => []BudgetsKept
<1>1. FreezeEarned /\ PerfMirrorsSlo => BudgetsKept
  BY DEF BudgetsKept
<1>. QED
  BY <1>1, FreezesAreEarned, PerfMirrors, PTL

-----------------------------------------------------------------------------
(* The release risk.                                                       *)

LEMMA Division ==
  ASSUME NEW x \in Nat, NEW d \in Nat \ {0}
  PROVE  /\ x \div d \in Nat /\ x % d \in Nat /\ x % d < d
         /\ x = d * (x \div d) + (x % d)
  BY SMT

LEMMA Times ==
  ASSUME NEW a \in Int, NEW b \in Int, NEW c \in Nat, a <= b
  PROVE  a * c <= b * c
  OBVIOUS

(* Of two quotients the one that is no less is rounded to no less.         *)
LEMMA RoundedMonotone ==
  ASSUME NEW x \in Nat, NEW d \in Nat \ {0}, NEW y \in Nat, NEW e \in Nat \ {0}, x * e <= y * d
  PROVE  Rounded(x, d) \in Nat /\ Rounded(y, e) \in Nat /\ Rounded(x, d) <= Rounded(y, e)
<1>1. PICK q \in Nat, r \in Nat : q = x \div d /\ r = x % d /\ r < d /\ x = d * q + r
  BY Division
<1>2. PICK p \in Nat, s \in Nat : p = y \div e /\ s = y % e /\ s < e /\ y = e * p + s
  BY Division
<1>3. PICK R \in Nat : R = Rounded(x, d) /\ R = IF 2 * r < d \/ (2 * r = d /\ q % 2 = 0) THEN q ELSE q + 1
  <2>1. /\ Rounded(x, d) = IF 2 * r < d \/ (2 * r = d /\ q % 2 = 0) THEN q ELSE q + 1
        /\ Rounded(x, d) \in Nat
    <3>1. Rounded(x, d) = IF 2 * r < d \/ (2 * r = d /\ q % 2 = 0) THEN q ELSE q + 1
      BY <1>1, Zenon DEF Rounded
    <3>. QED
      BY <3>1
  <2>. QED
    BY <2>1, Zenon
<1>4. PICK S \in Nat : S = Rounded(y, e) /\ S = IF 2 * s < e \/ (2 * s = e /\ p % 2 = 0) THEN p ELSE p + 1
  <2>1. /\ Rounded(y, e) = IF 2 * s < e \/ (2 * s = e /\ p % 2 = 0) THEN p ELSE p + 1
        /\ Rounded(y, e) \in Nat
    <3>1. Rounded(y, e) = IF 2 * s < e \/ (2 * s = e /\ p % 2 = 0) THEN p ELSE p + 1
      BY <1>2, Zenon DEF Rounded
    <3>. QED
      BY <3>1
  <2>. QED
    BY <2>1, Zenon
<1>5. PICK m \in Nat \ {0} : m = d * e
  <2>1. d * e \in Nat /\ d * e # 0
    OBVIOUS
  <2>. QED
    BY <2>1
<1>6. x * e = q * m + r * e /\ y * d = p * m + s * d
  <2>1. (d * q + r) * e = q * (d * e) + r * e /\ (e * p + s) * d = p * (d * e) + s * d
    OBVIOUS
  <2>. QED
    BY <1>1, <1>2, <1>5, <2>1
<1>7. PICK re \in Nat : re = r * e /\ 2 * re = (2 * r) * e
  <2>1. r * e \in Nat /\ 2 * (r * e) = (2 * r) * e
    OBVIOUS
  <2>. QED
    BY <2>1
<1>8. PICK sd \in Nat : sd = s * d /\ 2 * sd = (2 * s) * d
  <2>1. s * d \in Nat /\ 2 * (s * d) = (2 * s) * d
    OBVIOUS
  <2>. QED
    BY <2>1
<1>9. sd < m
  <2>1. s * d < e * d /\ e * d = d * e
    BY <1>2
  <2>. QED
    BY <1>5, <1>8, <2>1
<1>10. q <= p
  <2> SUFFICES ASSUME q >= p + 1 PROVE FALSE
    BY <1>1, <1>2
  <2>1. (p + 1) * m <= q * m
    BY Times
  <2>2. q * m \in Nat /\ p * m \in Nat /\ (p + 1) * m = p * m + m
    OBVIOUS
  <2>3. q * m + re <= p * m + sd
    BY <1>6, <1>7, <1>8
  <2>. QED
    BY <1>9, <2>1, <2>2, <2>3
<1>11. CASE q < p
  BY <1>3, <1>4, <1>11
<1>12. CASE q = p
  <2>1. q * m \in Nat
    OBVIOUS
  <2>2. re <= sd
    BY <1>6, <1>7, <1>8, <1>12, <2>1
  <2>3. ASSUME d <= 2 * r PROVE e <= 2 * s /\ (2 * s = e => 2 * r = d)
    <3>1. d * e <= 2 * re
      BY <1>7, <2>3, Times
    <3>2. m <= 2 * sd
      BY <1>5, <2>2, <3>1
    <3>3. ASSUME 2 * s < e PROVE FALSE
      <4>1. (2 * s) * d < e * d /\ e * d = d * e
        BY <3>3
      <4>. QED
        BY <1>5, <1>8, <3>2, <4>1
    <3>4. ASSUME 2 * s = e, d < 2 * r PROVE FALSE
      <4>1. d * e < (2 * r) * e
        BY <3>4
      <4>2. 2 * sd = m
        BY <1>5, <1>8, <3>4
      <4>. QED
        BY <1>5, <1>7, <2>2, <4>1, <4>2
    <3>. QED
      BY <2>3, <3>3, <3>4
  <2>. QED
    BY <1>3, <1>4, <1>12, <2>3
<1>. QED
  BY <1>3, <1>4, <1>10, <1>11, <1>12

LEMMA RoundedGrows ==
  ASSUME NEW x \in Nat, NEW y \in Nat, NEW d \in Nat \ {0}, x <= y
  PROVE  Rounded(x, d) \in Nat /\ Rounded(x, d) <= Rounded(y, d)
<1>1. x * d <= y * d
  <2>1. PICK j \in Nat : y = x + j
    <3>1. y - x \in Nat /\ y = x + (y - x)
      OBVIOUS
    <3>. QED
      BY <3>1
  <2>. QED
    BY <2>1
<1>. QED
  BY <1>1, RoundedMonotone

LEMMA RoundedWhole ==
  ASSUME NEW q \in Nat, NEW d \in Nat \ {0}
  PROVE  Rounded(q * d, d) = q
<1>1. (q * d) \div d = q /\ (q * d) % d = 0
  BY SMT
<1>. QED
  BY <1>1 DEF Rounded

LEMMA WeightIs ==
  ASSUME NEW name \in DOMAIN Weight
  PROVE  Weight[name] \in {5, 10, 15, 20}
<1>1. name \in {"fail_rate", "critical_failures", "uncovered_acceptance", "flakiness",
                "change_volume", "historical_defect_density", "recent_incidents",
                "ownership_gap", "security_sensitivity", "untested_high_risk_modules"}
  BY DEF Weight
<1>. QED
  BY <1>1 DEF Weight

LEMMA MinOfTwo ==
  ASSUME NEW n \in Nat, NEW d \in Nat
  PROVE  Min({n, d}) = IF n <= d THEN n ELSE d
<1>1. {n, d} \in SUBSET Nat /\ {n, d} # {}
  OBVIOUS
<1>2. Min({n, d}) \in {n, d} /\ \A y \in {n, d} : Min({n, d}) <= y
  BY <1>1, LeastIndexIs
<1>. QED
  BY <1>2

(* x is the part a / b of w, rounded, and no more than the whole. *)
IsPartOf(x, w, a, b) ==
  \E l \in Nat : /\ l <= b /\ l = (IF a <= b THEN a ELSE b)
                 /\ x = Rounded(w * l, b) /\ x \in 0..w

(* What a driver adds: a part of its weight, rounded, and no more than it. *)
LEMMA ContributionIs ==
  ASSUME NEW name \in DOMAIN Weight, NEW w \in Nat, w = Weight[name] * 100,
         NEW a \in Nat, NEW b \in Nat \ {0}
  PROVE  IsPartOf(Contribution(name, a, b), w, a, b)
<1>1. PICK l \in Nat : l = Min({a, b}) /\ l = (IF a <= b THEN a ELSE b)
  BY MinOfTwo
<1>2. Contribution(name, a, b) = Rounded(w * l, b)
  BY <1>1 DEF Contribution
<1>3. w * l \in Nat /\ w * b \in Nat /\ (w * l) * b <= (w * b) * b
  <2>1. l <= b
    BY <1>1
  <2>2. l * w <= b * w /\ l * w = w * l /\ b * w = w * b
    BY <2>1, Times
  <2>. QED
    BY <2>2, Times
<1>4. Rounded(w * l, b) \in Nat /\ Rounded(w * l, b) <= Rounded(w * b, b)
  BY <1>3, RoundedMonotone
<1>5. Rounded(w * b, b) = w
  BY RoundedWhole
<1>6. Contribution(name, a, b) \in 0..w
  BY <1>2, <1>4, <1>5
<1>. QED
  BY <1>1, <1>2, <1>6 DEF IsPartOf

LEMMA ContributionRange ==
  ASSUME NEW name \in DOMAIN Weight, NEW n \in Nat, NEW d \in Nat
  PROVE  Contribution(name, n, d) \in 0..(Weight[name] * 100)
<1>1. PICK w \in Nat : w = Weight[name] * 100
  BY WeightIs
<1>2. CASE d = 0
  BY <1>1, <1>2 DEF Contribution
<1>3. CASE d # 0
  <2>1. d \in Nat \ {0}
    BY <1>3
  <2>2. Contribution(name, n, d) \in 0..w
    <3>1. IsPartOf(Contribution(name, n, d), w, n, d)
      BY <1>1, <2>1, ContributionIs
    <3>. QED
      BY <3>1 DEF IsPartOf
  <2>. QED
    BY <1>1, <2>2
<1>. QED
  BY <1>2, <1>3

(* A driver adds no less for a part that is no smaller.                    *)
LEMMA ContributionMonotone ==
  ASSUME NEW name \in DOMAIN Weight, NEW n \in Nat, NEW d \in Nat, NEW m \in Nat, NEW e \in Nat,
         n * e <= m * d, e = 0 => n = 0
  PROVE  Contribution(name, n, d) <= Contribution(name, m, e)
<1>1. PICK w \in Nat : w = Weight[name] * 100
  BY WeightIs
<1>2. Contribution(name, m, e) \in 0..w
  BY <1>1, ContributionRange
<1>3. CASE d = 0
  BY <1>2, <1>3 DEF Contribution
<1>4. CASE d # 0 /\ n = 0
  <2>1. Contribution(name, n, d) = Rounded(0 * d, d)
    BY <1>1, <1>4, MinOfTwo DEF Contribution
  <2>2. Contribution(name, n, d) = 0
    BY <1>4, <2>1, RoundedWhole
  <2>. QED
    BY <1>2, <2>2
<1>5. CASE d # 0 /\ n # 0
  <2>1. d \in Nat \ {0} /\ e \in Nat \ {0}
    BY <1>5
  <2>2. PICK k \in Nat : /\ k <= d /\ k = (IF n <= d THEN n ELSE d)
                         /\ Contribution(name, n, d) = Rounded(w * k, d)
    <3>1. IsPartOf(Contribution(name, n, d), w, n, d)
      BY <1>1, <2>1, ContributionIs
    <3>. QED
      BY <3>1 DEF IsPartOf
  <2>3. PICK l \in Nat : /\ l <= e /\ l = (IF m <= e THEN m ELSE e)
                         /\ Contribution(name, m, e) = Rounded(w * l, e)
    <3>1. IsPartOf(Contribution(name, m, e), w, m, e)
      BY <1>1, <2>1, ContributionIs
    <3>. QED
      BY <3>1 DEF IsPartOf
  <2>4. k * e <= l * d
    <3>1. CASE m <= e
      <4>1. k <= n /\ l = m
        BY <2>2, <2>3, <3>1
      <4>2. k * e <= n * e
        BY <4>1, Times
      <4>. QED
        BY <4>1, <4>2
    <3>2. CASE ~(m <= e)
      <4>1. l = e
        BY <2>3, <3>2
      <4>2. k * e <= d * e /\ d * e = e * d
        BY <2>2, Times
      <4>. QED
        BY <4>1, <4>2
    <3>. QED
      BY <3>1, <3>2
  <2>5. (w * k) * e <= (w * l) * d
    <3>1. (k * e) * w <= (l * d) * w
      <4>1. k * e \in Int /\ l * d \in Int
        OBVIOUS
      <4>. QED
        BY <2>4, <4>1, Times
    <3>2. (k * e) * w = (w * k) * e /\ (l * d) * w = (w * l) * d
      OBVIOUS
    <3>. QED
      BY <3>1, <3>2
  <2>6. PICK x \in Nat : x = w * k
    OBVIOUS
  <2>7. PICK y \in Nat : y = w * l
    OBVIOUS
  <2>8. Rounded(x, d) <= Rounded(y, e)
    BY <2>1, <2>5, <2>6, <2>7, RoundedMonotone
  <2>. QED
    BY <2>2, <2>3, <2>6, <2>7, <2>8
<1>. QED
  BY <1>3, <1>4, <1>5

(* The ten drivers add no more than their weights, and no less for a       *)
(* candidate that is no better.                                            *)
LEMMA DriversAre ==
  ASSUME NEW f \in RiskFeatures
  PROVE  /\ DOMAIN build_drivers(f) = DOMAIN Weight
         /\ \A name \in DOMAIN Weight : build_drivers(f)[name] \in 0..(Weight[name] * 100)
<1>1. DOMAIN build_drivers(f) = DOMAIN Weight
  BY DEF build_drivers, Weight
<1>2. /\ f.total_tests \in Nat /\ f.failed_tests \in Nat /\ f.critical_failure_count \in Nat
      /\ f.uncovered \in Nat /\ f.total_criteria \in Nat /\ f.flakiness_score \in Nat
      /\ f.changed_lines \in Nat /\ f.defect_density \in Nat /\ f.recent_incident_count \in Nat
      /\ f.untested_modules \in Nat /\ Unit \in Nat
  <2>1. f.flakiness_score \in 0..Unit
    BY DEF RiskFeatures
  <2>2. Unit \in Nat /\ \A x \in 0..Unit : x \in Nat
    BY DEF Unit
  <2>. QED
    BY <2>1, <2>2 DEF RiskFeatures
<1>3. /\ 0 \in Nat /\ 1 \in Nat /\ 2 \in Nat /\ 3 \in Nat /\ 4 \in Nat /\ 5 \in Nat
      /\ 500 \in Nat
  OBVIOUS
<1>4. ASSUME NEW name \in DOMAIN Weight
      PROVE  build_drivers(f)[name] \in 0..(Weight[name] * 100)
  <2>1. PICK W \in Nat : W = Weight[name] * 100
    BY WeightIs
  <2>2. \A n, d \in Nat : Contribution(name, n, d) \in 0..W
    <3> SUFFICES ASSUME NEW n \in Nat, NEW d \in Nat PROVE Contribution(name, n, d) \in 0..W
      OBVIOUS
    <3>1. Contribution(name, n, d) \in 0..(Weight[name] * 100)
      BY ContributionRange
    <3>. QED
      BY <2>1, <3>1, Zenon
  <2>3. CASE name = "fail_rate"
    BY <1>2, <2>1, <2>2, <2>3 DEF build_drivers
  <2>4. CASE name = "critical_failures"
    <3>1. Contribution(name, f.critical_failure_count, 5) \in 0..W
      BY <1>2, <1>3, <2>2, Zenon
    <3>. QED
      BY <2>1, <2>4, <3>1 DEF build_drivers
  <2>5. CASE name = "uncovered_acceptance"
    BY <1>2, <2>1, <2>2, <2>5 DEF build_drivers, uncovered_acceptance
  <2>6. CASE name = "flakiness"
    <3>1. Contribution(name, f.flakiness_score, Unit) \in 0..W
      BY <1>2, <1>3, <2>2, Zenon
    <3>. QED
      BY <2>1, <2>6, <3>1 DEF build_drivers
  <2>7. CASE name = "change_volume"
    <3>1. Contribution(name, f.changed_lines, 500) \in 0..W
      BY <1>2, <1>3, <2>2, Zenon
    <3>. QED
      BY <2>1, <2>7, <3>1 DEF build_drivers
  <2>8. CASE name = "historical_defect_density"
    <3>1. Contribution(name, f.defect_density, 5) \in 0..W
      BY <1>2, <1>3, <2>2, Zenon
    <3>. QED
      BY <2>1, <2>8, <3>1 DEF build_drivers
  <2>9. CASE name = "recent_incidents"
    <3>1. Contribution(name, f.recent_incident_count, 5) \in 0..W
      BY <1>2, <1>3, <2>2, Zenon
    <3>. QED
      BY <2>1, <2>9, <3>1 DEF build_drivers
  <2>10. CASE name = "ownership_gap"
    <3>1. /\ Contribution(name, 1, 1) \in 0..W
          /\ Contribution(name, 1, 2) \in 0..W
          /\ 0 \in 0..W
      <4>1. 0 \in 0..W
        OBVIOUS
      <4>. QED
        BY <1>3, <2>2, <4>1, Zenon
    <3>2. build_drivers(f)[name] = ownership_gap(f)
      BY <2>10 DEF build_drivers
    <3>3. ownership_gap(f) \in 0..W
      BY <2>10, <3>1, Zenon DEF ownership_gap
    <3>. QED
      BY <2>1, <3>2, <3>3
  <2>11. CASE name = "security_sensitivity"
    <3>1. /\ Contribution(name, 1, 1) \in 0..W
          /\ Contribution(name, 3, 5) \in 0..W
          /\ Contribution(name, 1, 4) \in 0..W
          /\ 0 \in 0..W
      <4>1. 0 \in 0..W
        OBVIOUS
      <4>. QED
        BY <1>3, <2>2, <4>1, Zenon
    <3>2. build_drivers(f)[name] = security_sensitivity(f)
      BY <2>11 DEF build_drivers
    <3>3. security_sensitivity(f) \in 0..W
      BY <2>11, <3>1, Zenon DEF security_sensitivity
    <3>. QED
      BY <2>1, <3>2, <3>3
  <2>12. CASE name = "untested_high_risk_modules"
    <3>1. Contribution(name, f.untested_modules, 3) \in 0..W
      BY <1>2, <1>3, <2>2, Zenon
    <3>. QED
      BY <2>1, <2>12, <3>1 DEF build_drivers
  <2>. QED
    BY <2>1, <2>3, <2>4, <2>5, <2>6, <2>7, <2>8, <2>9, <2>10, <2>11, <2>12 DEF Weight
<1>. QED
  BY <1>1, <1>4

(* A candidate that is no better in any input is no better for any driver. *)
LEMMA DriversMonotone ==
  ASSUME NEW f \in RiskFeatures, NEW g \in RiskFeatures, AsBad(f, g), NEW name \in DOMAIN Weight
  PROVE  build_drivers(g)[name] <= build_drivers(f)[name]
<1>1. \A h \in {f, g} :
        /\ h.total_tests \in Nat /\ h.failed_tests \in Nat /\ h.critical_failure_count \in Nat
        /\ h.uncovered \in Nat /\ h.total_criteria \in Nat /\ h.flakiness_score \in Nat
        /\ h.changed_lines \in Nat /\ h.defect_density \in Nat /\ h.recent_incident_count \in Nat
        /\ h.untested_modules \in Nat /\ h.ownership \in Ownership
        /\ h.security_sensitivity \in Security
  BY DEF RiskFeatures
<1>2. /\ g.failed_tests * f.total_tests <= f.failed_tests * g.total_tests
      /\ g.uncovered * f.total_criteria <= f.uncovered * g.total_criteria
      /\ f.total_tests = 0 => g.failed_tests = 0
      /\ f.total_criteria = 0 => g.uncovered = 0
      /\ g.critical_failure_count <= f.critical_failure_count
      /\ g.flakiness_score <= f.flakiness_score /\ g.changed_lines <= f.changed_lines
      /\ g.defect_density <= f.defect_density
      /\ g.recent_incident_count <= f.recent_incident_count
      /\ g.untested_modules <= f.untested_modules
  BY <1>1 DEF AsBad
<1>3. ASSUME NEW n \in Nat, NEW m \in Nat, n <= m, NEW d \in Nat \ {0}
      PROVE  Contribution(name, n, d) <= Contribution(name, m, d)
  <2>1. n * d <= m * d /\ d \in Nat /\ d # 0
    BY <1>3, Times
  <2>. QED
    BY <2>1, ContributionMonotone
<1>4. 5 \in Nat \ {0} /\ 3 \in Nat \ {0} /\ 500 \in Nat \ {0} /\ Unit \in Nat \ {0}
  BY DEF Unit
<1>5. PICK W \in Nat : W = Weight[name] * 100
  BY WeightIs
<1>6. CASE name = "fail_rate"
  <2>1. Contribution(name, g.failed_tests, g.total_tests) <= Contribution(name, f.failed_tests, f.total_tests)
    BY <1>1, <1>2, ContributionMonotone
  <2>. QED
    BY <1>6, <2>1 DEF build_drivers
<1>7. CASE name = "uncovered_acceptance"
  <2>1. Contribution(name, g.uncovered, g.total_criteria) <= Contribution(name, f.uncovered, f.total_criteria)
    BY <1>1, <1>2, ContributionMonotone
  <2>. QED
    BY <1>7, <2>1 DEF build_drivers, uncovered_acceptance
<1>8. CASE name = "critical_failures"
  <2>1. Contribution(name, g.critical_failure_count, 5) <= Contribution(name, f.critical_failure_count, 5)
    BY <1>1, <1>2, <1>3, <1>4
  <2>. QED
    BY <1>8, <2>1 DEF build_drivers
<1>9. CASE name = "flakiness"
  <2>1. Contribution(name, g.flakiness_score, Unit) <= Contribution(name, f.flakiness_score, Unit)
    BY <1>1, <1>2, <1>3, <1>4
  <2>. QED
    BY <1>9, <2>1 DEF build_drivers
<1>10. CASE name = "change_volume"
  <2>1. Contribution(name, g.changed_lines, 500) <= Contribution(name, f.changed_lines, 500)
    BY <1>1, <1>2, <1>3, <1>4
  <2>. QED
    BY <1>10, <2>1 DEF build_drivers
<1>11. CASE name = "historical_defect_density"
  <2>1. Contribution(name, g.defect_density, 5) <= Contribution(name, f.defect_density, 5)
    BY <1>1, <1>2, <1>3, <1>4
  <2>. QED
    BY <1>11, <2>1 DEF build_drivers
<1>12. CASE name = "recent_incidents"
  <2>1. Contribution(name, g.recent_incident_count, 5) <= Contribution(name, f.recent_incident_count, 5)
    BY <1>1, <1>2, <1>3, <1>4
  <2>. QED
    BY <1>12, <2>1 DEF build_drivers
<1>13. CASE name = "untested_high_risk_modules"
  <2>1. Contribution(name, g.untested_modules, 3) <= Contribution(name, f.untested_modules, 3)
    BY <1>1, <1>2, <1>3, <1>4
  <2>. QED
    BY <1>13, <2>1 DEF build_drivers
<1>14. CASE name = "ownership_gap"
  <2>1. /\ Contribution(name, 1, 2) \in 0..W /\ Contribution(name, 1, 1) \in 0..W
        /\ Contribution(name, 1, 2) <= Contribution(name, 1, 1)
    <3>1. 1 \in Nat /\ 2 \in Nat /\ 1 * 1 <= 1 * 2
      OBVIOUS
    <3>2. Contribution(name, 1, 2) <= Contribution(name, 1, 1)
      BY <3>1, ContributionMonotone
    <3>. QED
      BY <1>5, <3>1, <3>2, ContributionRange
  <2>2. \A h : build_drivers(h)[name] =
               CASE h.ownership = "unowned"    -> Contribution(name, 1, 1)
                 [] h.ownership = "solo_owner" -> Contribution(name, 1, 2)
                 [] OTHER                      -> 0
    BY <1>14 DEF build_drivers, ownership_gap
  <2>3. \/ f.ownership = g.ownership \/ g.ownership = "team_owned" \/ f.ownership = "unowned"
    BY DEF AsBad
  <2>4. f.ownership \in Ownership /\ g.ownership \in Ownership
    BY <1>1
  <2>. QED
    BY <2>1, <2>2, <2>3, <2>4 DEF Ownership
<1>15. CASE name = "security_sensitivity"
  <2>1. /\ Contribution(name, 1, 4) \in 0..W /\ Contribution(name, 3, 5) \in 0..W
        /\ Contribution(name, 1, 1) \in 0..W
    BY <1>5, ContributionRange
  <2>2. /\ Contribution(name, 1, 4) <= Contribution(name, 3, 5)
        /\ Contribution(name, 3, 5) <= Contribution(name, 1, 1)
    <3>1. 1 * 5 <= 3 * 4 /\ 3 * 1 <= 1 * 5
      OBVIOUS
    <3>. QED
      BY <3>1, ContributionMonotone
  <2>3. \A h : build_drivers(h)[name] =
               CASE h.security_sensitivity = "high"   -> Contribution(name, 1, 1)
                 [] h.security_sensitivity = "medium" -> Contribution(name, 3, 5)
                 [] h.security_sensitivity = "low"    -> Contribution(name, 1, 4)
                 [] OTHER                             -> 0
    BY <1>15 DEF build_drivers, security_sensitivity
  <2>4. \/ f.security_sensitivity = g.security_sensitivity
        \/ g.security_sensitivity = "none" \/ f.security_sensitivity = "high"
        \/ g.security_sensitivity = "low" /\ f.security_sensitivity = "medium"
    BY DEF AsBad
  <2>5. f.security_sensitivity \in Security /\ g.security_sensitivity \in Security
    BY <1>1
  <2>. QED
    BY <2>1, <2>2, <2>3, <2>4, <2>5 DEF Security
<1>. QED
  BY <1>6, <1>7, <1>8, <1>9, <1>10, <1>11, <1>12, <1>13, <1>14, <1>15 DEF Weight


LEMMA SumPut ==
  ASSUME NEW f, NEW T, IsFiniteSet(T), \A y \in T : f[y] \in Int, NEW x, x \notin T, f[x] \in Int
  PROVE  /\ IsFiniteSet(T \cup {x})
         /\ SumFunctionOnSet(f, T \cup {x}) = f[x] + SumFunctionOnSet(f, T)
<1>1. PICK S : S = T \cup {x}
  OBVIOUS
<1>2. IsFiniteSet(S) /\ x \in S /\ S \ {x} = T /\ \A y \in S : f[y] \in Int
  BY <1>1, FS_AddElement
<1>3. SumFunctionOnSet(f, S) = f[x] + SumFunctionOnSet(f, S \ {x})
  BY <1>2, SumAdd
<1>. QED
  BY <1>1, <1>2, <1>3

(* The weights of the ten drivers make up the whole.                       *)
LEMMA WeightsAddUp ==
  /\ IsFiniteSet(DOMAIN Weight)
  /\ SumFunctionOnSet([name \in DOMAIN Weight |-> Weight[name] * 100], DOMAIN Weight) = 10000
<1>1. PICK g : g = [name \in DOMAIN Weight |-> Weight[name] * 100]
  OBVIOUS
<1>2. /\ g["fail_rate"] = 2000
      /\ g["critical_failures"] = 1500
      /\ g["uncovered_acceptance"] = 1000
      /\ g["flakiness"] = 500
      /\ g["change_volume"] = 1000
      /\ g["historical_defect_density"] = 1000
      /\ g["recent_incidents"] = 1000
      /\ g["ownership_gap"] = 500
      /\ g["security_sensitivity"] = 1000
      /\ g["untested_high_risk_modules"] = 500
  BY <1>1 DEF Weight
<1>3. PICK T0 : T0 = {}
  OBVIOUS
<1>4. IsFiniteSet(T0) /\ SumFunctionOnSet(g, T0) = 0
  BY <1>3, FS_EmptySet, SumEmpty
<1>5. PICK T1 : T1 = T0 \cup {"fail_rate"}
  OBVIOUS
<1>6. IsFiniteSet(T1) /\ SumFunctionOnSet(g, T1) = 2000
  <2>1. "fail_rate" \notin T0 /\ \A y \in T0 : g[y] \in Int
    BY <1>2, <1>3
  <2>2. g["fail_rate"] \in Int
    BY <1>2
  <2>3. IsFiniteSet(T1) /\ SumFunctionOnSet(g, T1) = g["fail_rate"] + SumFunctionOnSet(g, T0)
    BY <1>4, <1>5, <2>1, <2>2, SumPut
  <2>. QED
    BY <1>2, <1>4, <2>3
<1>7. PICK T2 : T2 = T1 \cup {"critical_failures"}
  OBVIOUS
<1>8. IsFiniteSet(T2) /\ SumFunctionOnSet(g, T2) = 3500
  <2>1. "critical_failures" \notin T1 /\ \A y \in T1 : g[y] \in Int
    BY <1>2, <1>3, <1>5
  <2>2. g["critical_failures"] \in Int
    BY <1>2
  <2>3. IsFiniteSet(T2) /\ SumFunctionOnSet(g, T2) = g["critical_failures"] + SumFunctionOnSet(g, T1)
    BY <1>6, <1>7, <2>1, <2>2, SumPut
  <2>. QED
    BY <1>2, <1>6, <2>3
<1>9. PICK T3 : T3 = T2 \cup {"uncovered_acceptance"}
  OBVIOUS
<1>10. IsFiniteSet(T3) /\ SumFunctionOnSet(g, T3) = 4500
  <2>1. "uncovered_acceptance" \notin T2 /\ \A y \in T2 : g[y] \in Int
    BY <1>2, <1>3, <1>5, <1>7
  <2>2. g["uncovered_acceptance"] \in Int
    BY <1>2
  <2>3. IsFiniteSet(T3) /\ SumFunctionOnSet(g, T3) = g["uncovered_acceptance"] + SumFunctionOnSet(g, T2)
    BY <1>8, <1>9, <2>1, <2>2, SumPut
  <2>. QED
    BY <1>2, <1>8, <2>3
<1>11. PICK T4 : T4 = T3 \cup {"flakiness"}
  OBVIOUS
<1>12. IsFiniteSet(T4) /\ SumFunctionOnSet(g, T4) = 5000
  <2>1. "flakiness" \notin T3 /\ \A y \in T3 : g[y] \in Int
    BY <1>2, <1>3, <1>5, <1>7, <1>9
  <2>2. g["flakiness"] \in Int
    BY <1>2
  <2>3. IsFiniteSet(T4) /\ SumFunctionOnSet(g, T4) = g["flakiness"] + SumFunctionOnSet(g, T3)
    BY <1>10, <1>11, <2>1, <2>2, SumPut
  <2>. QED
    BY <1>2, <1>10, <2>3
<1>13. PICK T5 : T5 = T4 \cup {"change_volume"}
  OBVIOUS
<1>14. IsFiniteSet(T5) /\ SumFunctionOnSet(g, T5) = 6000
  <2>1. "change_volume" \notin T4 /\ \A y \in T4 : g[y] \in Int
    BY <1>2, <1>3, <1>5, <1>7, <1>9, <1>11
  <2>2. g["change_volume"] \in Int
    BY <1>2
  <2>3. IsFiniteSet(T5) /\ SumFunctionOnSet(g, T5) = g["change_volume"] + SumFunctionOnSet(g, T4)
    BY <1>12, <1>13, <2>1, <2>2, SumPut
  <2>. QED
    BY <1>2, <1>12, <2>3
<1>15. PICK T6 : T6 = T5 \cup {"historical_defect_density"}
  OBVIOUS
<1>16. IsFiniteSet(T6) /\ SumFunctionOnSet(g, T6) = 7000
  <2>1. "historical_defect_density" \notin T5 /\ \A y \in T5 : g[y] \in Int
    BY <1>2, <1>3, <1>5, <1>7, <1>9, <1>11, <1>13
  <2>2. g["historical_defect_density"] \in Int
    BY <1>2
  <2>3. IsFiniteSet(T6) /\ SumFunctionOnSet(g, T6) = g["historical_defect_density"] + SumFunctionOnSet(g, T5)
    BY <1>14, <1>15, <2>1, <2>2, SumPut
  <2>. QED
    BY <1>2, <1>14, <2>3
<1>17. PICK T7 : T7 = T6 \cup {"recent_incidents"}
  OBVIOUS
<1>18. IsFiniteSet(T7) /\ SumFunctionOnSet(g, T7) = 8000
  <2>1. "recent_incidents" \notin T6 /\ \A y \in T6 : g[y] \in Int
    BY <1>2, <1>3, <1>5, <1>7, <1>9, <1>11, <1>13, <1>15
  <2>2. g["recent_incidents"] \in Int
    BY <1>2
  <2>3. IsFiniteSet(T7) /\ SumFunctionOnSet(g, T7) = g["recent_incidents"] + SumFunctionOnSet(g, T6)
    BY <1>16, <1>17, <2>1, <2>2, SumPut
  <2>. QED
    BY <1>2, <1>16, <2>3
<1>19. PICK T8 : T8 = T7 \cup {"ownership_gap"}
  OBVIOUS
<1>20. IsFiniteSet(T8) /\ SumFunctionOnSet(g, T8) = 8500
  <2>1. "ownership_gap" \notin T7 /\ \A y \in T7 : g[y] \in Int
    BY <1>2, <1>3, <1>5, <1>7, <1>9, <1>11, <1>13, <1>15, <1>17
  <2>2. g["ownership_gap"] \in Int
    BY <1>2
  <2>3. IsFiniteSet(T8) /\ SumFunctionOnSet(g, T8) = g["ownership_gap"] + SumFunctionOnSet(g, T7)
    BY <1>18, <1>19, <2>1, <2>2, SumPut
  <2>. QED
    BY <1>2, <1>18, <2>3
<1>21. PICK T9 : T9 = T8 \cup {"security_sensitivity"}
  OBVIOUS
<1>22. IsFiniteSet(T9) /\ SumFunctionOnSet(g, T9) = 9500
  <2>1. "security_sensitivity" \notin T8 /\ \A y \in T8 : g[y] \in Int
    BY <1>2, <1>3, <1>5, <1>7, <1>9, <1>11, <1>13, <1>15, <1>17, <1>19
  <2>2. g["security_sensitivity"] \in Int
    BY <1>2
  <2>3. IsFiniteSet(T9) /\ SumFunctionOnSet(g, T9) = g["security_sensitivity"] + SumFunctionOnSet(g, T8)
    BY <1>20, <1>21, <2>1, <2>2, SumPut
  <2>. QED
    BY <1>2, <1>20, <2>3
<1>23. PICK T10 : T10 = T9 \cup {"untested_high_risk_modules"}
  OBVIOUS
<1>24. IsFiniteSet(T10) /\ SumFunctionOnSet(g, T10) = 10000
  <2>1. "untested_high_risk_modules" \notin T9 /\ \A y \in T9 : g[y] \in Int
    BY <1>2, <1>3, <1>5, <1>7, <1>9, <1>11, <1>13, <1>15, <1>17, <1>19, <1>21
  <2>2. g["untested_high_risk_modules"] \in Int
    BY <1>2
  <2>3. IsFiniteSet(T10) /\ SumFunctionOnSet(g, T10) = g["untested_high_risk_modules"] + SumFunctionOnSet(g, T9)
    BY <1>22, <1>23, <2>1, <2>2, SumPut
  <2>. QED
    BY <1>2, <1>22, <2>3
<1>25. DOMAIN Weight = T10
  BY <1>3, <1>5, <1>7, <1>9, <1>11, <1>13, <1>15, <1>17, <1>19, <1>21, <1>23 DEF Weight
<1>. QED
  BY <1>1, <1>24, <1>25


Drivers == DOMAIN Weight

LEMMA DriversFinite == IsFiniteSet(Drivers)
  BY WeightsAddUp DEF Drivers

LEMMA DriversSumUp ==
  ASSUME NEW g, g = [name \in Drivers |-> Weight[name] * 100]
  PROVE  SumFunctionOnSet(g, Drivers) = 10000
  BY WeightsAddUp DEF Drivers

LEMMA DriverIs ==
  ASSUME NEW f \in RiskFeatures, NEW name \in Drivers
  PROVE  \E w \in Nat : /\ w = Weight[name] * 100
                        /\ build_drivers(f)[name] \in 0..w /\ build_drivers(f)[name] \in Nat
<1>1. PICK w \in Nat : w = Weight[name] * 100
  BY WeightIs DEF Drivers
<1>2. build_drivers(f)[name] \in 0..w
  BY <1>1, DriversAre DEF Drivers
<1>. QED
  BY <1>1, <1>2

LEMMA DriversSum ==
  ASSUME NEW f \in RiskFeatures
  PROVE  /\ SumFunction(build_drivers(f)) = SumFunctionOnSet(build_drivers(f), Drivers)
         /\ SumFunction(build_drivers(f)) \in Nat
         /\ SumFunction(build_drivers(f)) <= 10000
<1>1. PICK d : d = build_drivers(f)
  OBVIOUS
<1>2. PICK g : g = [name \in Drivers |-> Weight[name] * 100]
  OBVIOUS
<1>3. SumFunction(d) = SumFunctionOnSet(d, Drivers)
  BY <1>1, DriversAre DEF SumFunction, Drivers
<1>4. \A name \in Drivers : d[name] \in Nat /\ g[name] \in Nat /\ d[name] <= g[name]
  <2> SUFFICES ASSUME NEW name \in Drivers
               PROVE  d[name] \in Nat /\ g[name] \in Nat /\ d[name] <= g[name]
    OBVIOUS
  <2>1. PICK w \in Nat : w = Weight[name] * 100 /\ d[name] \in 0..w
    BY <1>1, DriverIs
  <2>2. g[name] = w
    BY <1>2, <2>1
  <2>. QED
    BY <2>1, <2>2
<1>5. \A name \in Drivers : d[name] \in Int /\ g[name] \in Int
  BY <1>4
<1>6. SumFunctionOnSet(d, Drivers) <= SumFunctionOnSet(g, Drivers)
  BY <1>4, <1>5, SumMono, DriversFinite
<1>7. SumFunctionOnSet(d, Drivers) \in Nat
  BY <1>4, SumNat, DriversFinite
<1>8. SumFunctionOnSet(g, Drivers) = 10000
  BY <1>2, DriversSumUp
<1>9. PICK t \in Nat : t = SumFunctionOnSet(d, Drivers)
  BY <1>7
<1>10. t <= 10000
  BY <1>6, <1>8, <1>9
<1>11. SumFunction(d) = t
  BY <1>3, <1>9
<1>. QED
  BY <1>1, <1>3, <1>10, <1>11

LEMMA RiskScoreIs ==
  ASSUME NEW f \in RiskFeatures
  PROVE  /\ score(f).drivers = build_drivers(f)
         /\ score(f).score = Rounded(SumFunction(build_drivers(f)), 100)
         /\ score(f).score \in 0..100
         /\ score(f).band = band_for(score(f).score)
         /\ score(f).recommendation = recommendation_for(band_for(score(f).score))
<1>1. PICK t \in Nat : t = SumFunction(build_drivers(f)) /\ t <= 10000
  BY DriversSum
<1>2. Rounded(t, 100) \in 0..100
  <2>1. PICK h \in Nat \ {0}, y \in Nat : h = 100 /\ y = 10000 /\ y = h * h
    OBVIOUS
  <2>2. Rounded(t, h) \in Nat /\ Rounded(t, h) <= Rounded(y, h)
    BY <1>1, <2>1, RoundedGrows
  <2>3. Rounded(y, h) = h
    BY <2>1, RoundedWhole
  <2>. QED
    BY <2>1, <2>2, <2>3
<1>3. score(f) = [score |-> Rounded(t, 100), band |-> band_for(Rounded(t, 100)),
                  recommendation |-> recommendation_for(band_for(Rounded(t, 100))),
                  drivers |-> build_drivers(f)]
  BY <1>1 DEF score
<1>4. /\ score(f).score = Rounded(t, 100) /\ score(f).drivers = build_drivers(f)
      /\ score(f).band = band_for(Rounded(t, 100))
      /\ score(f).recommendation = recommendation_for(band_for(Rounded(t, 100)))
  BY <1>3
<1>5. PICK z : z = Rounded(t, 100)
  OBVIOUS
<1>6. score(f).score = z /\ score(f).band = band_for(z)
      /\ score(f).recommendation = recommendation_for(band_for(z))
  BY <1>4, <1>5
<1>7. z \in 0..100
  BY <1>2, <1>5
<1>8. z = Rounded(SumFunction(build_drivers(f)), 100)
  BY <1>1, <1>5
<1>. QED
  BY <1>4, <1>6, <1>7, <1>8

(* A candidate that is no better gets no lower score.                      *)
LEMMA ScoreMonotone ==
  ASSUME NEW f \in RiskFeatures, NEW g \in RiskFeatures, AsBad(f, g)
  PROVE  score(g).score <= score(f).score
<1>1. PICK N : N = Drivers
  OBVIOUS
<1>2. PICK d : d = build_drivers(f)
  OBVIOUS
<1>3. PICK e : e = build_drivers(g)
  OBVIOUS
<1>4. \A k \in N : d[k] \in Int /\ e[k] \in Int /\ e[k] <= d[k]
  <2> SUFFICES ASSUME NEW k \in N PROVE d[k] \in Int /\ e[k] \in Int /\ e[k] <= d[k]
    OBVIOUS
  <2>2. d[k] \in Nat /\ e[k] \in Nat
    BY <1>1, <1>2, <1>3, DriverIs
  <2>3. e[k] <= d[k]
    BY <1>1, <1>2, <1>3, DriversMonotone DEF Drivers
  <2>. QED
    BY <2>2, <2>3
<1>5. SumFunctionOnSet(e, N) <= SumFunctionOnSet(d, N)
  <2>1. IsFiniteSet(N)
    BY <1>1, DriversFinite
  <2>. QED
    BY <1>4, <2>1, SumMono
<1>6. PICK t \in Nat : t = SumFunction(d)
  BY <1>2, DriversSum
<1>7. PICK u \in Nat : u = SumFunction(e)
  BY <1>3, DriversSum
<1>8. u <= t
  <2>1. t = SumFunctionOnSet(d, N)
    BY <1>1, <1>2, <1>6, DriversSum
  <2>2. u = SumFunctionOnSet(e, N)
    BY <1>1, <1>3, <1>7, DriversSum
  <2>. QED
    BY <1>5, <2>1, <2>2
<1>9. Rounded(u, 100) <= Rounded(t, 100)
  <2>1. PICK h \in Nat \ {0} : h = 100
    OBVIOUS
  <2>2. Rounded(u, h) <= Rounded(t, h)
    BY <1>8, RoundedGrows
  <2>. QED
    BY <2>1, <2>2
<1>. QED
  <2>1. score(f).score = Rounded(t, 100)
    <3>1. t = SumFunction(build_drivers(f))
      BY <1>2, <1>6
    <3>. QED
      BY <3>1, RiskScoreIs
  <2>2. score(g).score = Rounded(u, 100)
    <3>1. u = SumFunction(build_drivers(g))
      BY <1>3, <1>7
    <3>. QED
      BY <3>1, RiskScoreIs
  <2>. QED
    BY <1>9, <2>1, <2>2, Zenon

LEMMA BandIs ==
  ASSUME NEW n \in Nat
  PROVE  /\ recommendation_for(band_for(n)) = "no_go" <=> n >= 61
         /\ recommendation_for(band_for(n)) = "go" <=> n < 31
         /\ recommendation_for(band_for(n)) \in {"go", "go_with_approval", "no_go"}
<1>1. CASE n >= 81
  BY <1>1 DEF band_for, recommendation_for
<1>2. CASE n >= 61 /\ n < 81
  BY <1>2 DEF band_for, recommendation_for
<1>3. CASE n >= 31 /\ n < 61
  BY <1>3 DEF band_for, recommendation_for
<1>4. CASE n < 31
  BY <1>4 DEF band_for, recommendation_for
<1>. QED
  BY <1>1, <1>2, <1>3, <1>4

(* A value an input may take on may take the place of the one there is.    *)
LEMMA HydratedIs ==
  ASSUME NEW f \in RiskFeatures, NEW k \in DOMAIN Inputs, NEW v \in Inputs[k]
  PROVE  [f EXCEPT ![k] = v] \in RiskFeatures
<1>1. Base \in RiskFeatures /\ k \in DOMAIN Base /\ [Base EXCEPT ![k] = v] \in RiskFeatures
  BY RiskAssumption
<1>2. k \in {"total_tests", "passed_tests", "failed_tests", "critical_failure_count",
            "uncovered", "total_criteria", "flakiness_score", "changed_lines",
            "defect_density", "recent_incident_count", "ownership", "security_sensitivity", "untested_modules"}
  BY <1>1 DEF RiskFeatures
<1>3. CASE k = "total_tests"
  <2>1. v \in Nat
    BY <1>1, <1>3 DEF RiskFeatures
  <2>. QED
    BY <1>3, <2>1 DEF RiskFeatures
<1>4. CASE k = "passed_tests"
  <2>1. v \in Nat
    BY <1>1, <1>4 DEF RiskFeatures
  <2>. QED
    BY <1>4, <2>1 DEF RiskFeatures
<1>5. CASE k = "failed_tests"
  <2>1. v \in Nat
    BY <1>1, <1>5 DEF RiskFeatures
  <2>. QED
    BY <1>5, <2>1 DEF RiskFeatures
<1>6. CASE k = "critical_failure_count"
  <2>1. v \in Nat
    BY <1>1, <1>6 DEF RiskFeatures
  <2>. QED
    BY <1>6, <2>1 DEF RiskFeatures
<1>7. CASE k = "uncovered"
  <2>1. v \in Nat
    BY <1>1, <1>7 DEF RiskFeatures
  <2>. QED
    BY <1>7, <2>1 DEF RiskFeatures
<1>8. CASE k = "total_criteria"
  <2>1. v \in Nat
    BY <1>1, <1>8 DEF RiskFeatures
  <2>. QED
    BY <1>8, <2>1 DEF RiskFeatures
<1>9. CASE k = "flakiness_score"
  <2>1. v \in 0..Unit
    BY <1>1, <1>9 DEF RiskFeatures
  <2>. QED
    BY <1>9, <2>1 DEF RiskFeatures
<1>10. CASE k = "changed_lines"
  <2>1. v \in Nat
    BY <1>1, <1>10 DEF RiskFeatures
  <2>. QED
    BY <1>10, <2>1 DEF RiskFeatures
<1>11. CASE k = "defect_density"
  <2>1. v \in Nat
    BY <1>1, <1>11 DEF RiskFeatures
  <2>. QED
    BY <1>11, <2>1 DEF RiskFeatures
<1>12. CASE k = "recent_incident_count"
  <2>1. v \in Nat
    BY <1>1, <1>12 DEF RiskFeatures
  <2>. QED
    BY <1>12, <2>1 DEF RiskFeatures
<1>13. CASE k = "ownership"
  <2>1. v \in Ownership
    BY <1>1, <1>13 DEF RiskFeatures
  <2>. QED
    BY <1>13, <2>1 DEF RiskFeatures
<1>14. CASE k = "security_sensitivity"
  <2>1. v \in Security
    BY <1>1, <1>14 DEF RiskFeatures
  <2>. QED
    BY <1>14, <2>1 DEF RiskFeatures
<1>15. CASE k = "untested_modules"
  <2>1. v \in Nat
    BY <1>1, <1>15 DEF RiskFeatures
  <2>. QED
    BY <1>15, <2>1 DEF RiskFeatures
<1>. QED
  BY <1>2, <1>3, <1>4, <1>5, <1>6, <1>7, <1>8, <1>9, <1>10, <1>11, <1>12, <1>13, <1>14, <1>15

(* A score is the one of its features, and so was the one before.          *)
RiskInv ==
  /\ features \in RiskFeatures
  /\ risk_score # Unscored => risk_score = score(features)
  /\ scoredBefore # Unscored =>
       scoredBefore.of \in RiskFeatures /\ scoredBefore.risk = score(scoredBefore.of)

LEMMA RiskStep == RiskInv /\ [RiskNext]_riskVars => RiskInv'
<1> SUFFICES ASSUME RiskInv, [RiskNext]_riskVars PROVE RiskInv'
  OBVIOUS
<1>1. CASE ScoringStep
  <2>1. risk_score' = score(features) /\ UNCHANGED <<features, scoredBefore>>
    BY <1>1 DEF ScoringStep
  <2>2. score(features) = score(features')
    BY <2>1
  <2>3. features \in RiskFeatures /\ (scoredBefore # Unscored =>
          scoredBefore.of \in RiskFeatures /\ scoredBefore.risk = score(scoredBefore.of))
    BY DEF RiskInv
  <2>. QED
    BY <2>1, <2>2, <2>3 DEF RiskInv
<1>2. ASSUME NEW k \in DOMAIN Inputs, NEW v \in Inputs[k], Hydrate(k, v) PROVE RiskInv'
  <2>1. features' = [features EXCEPT ![k] = v] /\ risk_score' = Unscored
    BY <1>2 DEF Hydrate
  <2>2. features' \in RiskFeatures
    BY <2>1, HydratedIs DEF RiskInv
  <2>3. scoredBefore' # Unscored =>
          scoredBefore'.of \in RiskFeatures /\ scoredBefore'.risk = score(scoredBefore'.of)
    BY <1>2 DEF Hydrate, RiskInv
  <2>. QED
    BY <2>1, <2>2, <2>3 DEF RiskInv
<1>3. CASE UNCHANGED riskVars
  BY <1>3 DEF RiskInv, riskVars
<1>. QED
  BY <1>1, <1>2, <1>3 DEF RiskNext

LEMMA RiskInvariance == RiskSpec => []RiskInv
<1>1. RiskInit => RiskInv
  BY RiskAssumption DEF RiskInit, RiskInv
<1>. QED
  BY <1>1, RiskStep, PTL DEF RiskSpec

(* A candidate that has become no better in any input gets no lower score  *)
(* and no easier recommendation.                                           *)
THEOREM RiskIsNeverEased == RiskSpec => [](RiskTypeOK /\ RiskNeverEased)
<1>1. RiskInv => RiskTypeOK
  BY RiskScoreIs DEF RiskInv, RiskTypeOK
<1>2. RiskInv => RiskNeverEased
  <2> SUFFICES ASSUME RiskInv, risk_score # Unscored, scoredBefore # Unscored,
                      AsBad(features, scoredBefore.of)
               PROVE  /\ risk_score.score >= scoredBefore.risk.score
                      /\ Strictness[risk_score.recommendation] >= Strictness[scoredBefore.risk.recommendation]
    BY DEF RiskNeverEased
  <2>1. features \in RiskFeatures /\ risk_score = score(features)
    BY DEF RiskInv
  <2>2. PICK s : s = score(features).score
    OBVIOUS
  <2>3. /\ s \in 0..100 /\ s \in Nat /\ risk_score.score = s
        /\ risk_score.recommendation = recommendation_for(band_for(s))
    <3>1. s \in 0..100
      BY <2>1, <2>2, RiskScoreIs
    <3>. QED
      BY <2>1, <2>2, <3>1, RiskScoreIs
  <2>4. PICK g : g = scoredBefore.of
    OBVIOUS
  <2>5. g \in RiskFeatures /\ scoredBefore.risk = score(g) /\ AsBad(features, g)
    BY <2>4 DEF RiskInv
  <2>6. PICK t : t = score(g).score
    OBVIOUS
  <2>7. /\ t \in 0..100 /\ scoredBefore.risk.score = t
        /\ scoredBefore.risk.recommendation = recommendation_for(band_for(t))
    BY <2>5, <2>6, RiskScoreIs
  <2>8. t <= s
    BY <2>1, <2>2, <2>5, <2>6, ScoreMonotone
  <2>9. t \in Nat /\ s \in Nat
    BY <2>3, <2>7
  <2>10. PICK x : x = recommendation_for(band_for(t))
    OBVIOUS
  <2>11. PICK y : y = recommendation_for(band_for(s))
    OBVIOUS
  <2>12. (x = "no_go" <=> t >= 61) /\ (x = "go" <=> t < 31) /\ x \in {"go", "go_with_approval", "no_go"}
    BY <2>9, <2>10, BandIs
  <2>13. (y = "no_go" <=> s >= 61) /\ (y = "go" <=> s < 31) /\ y \in {"go", "go_with_approval", "no_go"}
    BY <2>9, <2>11, BandIs
  <2>14. (x = "no_go" => y = "no_go") /\ (y = "go" => x = "go")
    BY <2>8, <2>9, <2>12, <2>13
  <2>15. Strictness[y] >= Strictness[x]
    BY <2>12, <2>13, <2>14 DEF Strictness
  <2>. QED
    BY <2>3, <2>7, <2>8, <2>9, <2>10, <2>11, <2>15
<1>. QED
  BY <1>1, <1>2, RiskInvariance, PTL

-----------------------------------------------------------------------------
(* The retention sweep.  What it has taken by the time it comes to a class *)
(* is the least set of rows with those that are due in the classes before  *)
(* and with what cascades from its own rows; the transactions that insert  *)
(* in the meantime cannot refer to it.                                     *)

(* What holds at 0, and with n at n + 1, holds up to N. *)
LEMMA Upward ==
  ASSUME NEW N \in Nat, NEW P, 0 \in P, \A n \in 0..N : n \in P /\ n < N => n + 1 \in P
  PROVE  \A n \in 0..N : n \in P
<1> DEFINE C == {n \in 0..N : n \notin P}
<1> SUFFICES ASSUME C # {} PROVE FALSE
  OBVIOUS
<1>1. PICK n \in C : \A m \in C : n <= m
  <2>1. C \in SUBSET Nat
    OBVIOUS
  <2> HIDE DEF C
  <2>. QED
    BY <2>1, LeastOf
<1>2. n \in 0..N /\ n # 0 /\ n \notin P
  OBVIOUS
<1>3. n - 1 \in 0..N /\ n - 1 < N /\ n - 1 \notin C
  BY <1>1, <1>2
<1>. QED
  BY <1>2, <1>3

LEMMA ReferIs ==
  ASSUME NEW X, NEW Y, NEW onDelete
  PROVE  /\ Refer(X \cup Y, onDelete) = Refer(X, onDelete) \cup Refer(Y, onDelete)
         /\ X \subseteq Y => Refer(X, onDelete) \subseteq Refer(Y, onDelete)
         /\ Refer(X, onDelete) \subseteq RowNames
         /\ Refer({}, onDelete) = {}
  BY DEF Refer

Closed(X) == Refer(X, "CASCADE") \subseteq X

Grows(X, n, F) ==
  F = [m \in 0..n |-> IF m = 0 THEN X ELSE F[m - 1] \cup Refer(F[m - 1], "CASCADE")]

LEMMA CascadeUnfolds ==
  ASSUME NEW X, \E F : Grows(X, Cardinality(RowNames), F)
  PROVE  \E F : Grows(X, Cardinality(RowNames), F) /\ Cascade(X) = F[Cardinality(RowNames)]
<1> DEFINE F == CHOOSE F : F = [m \in 0..Cardinality(RowNames) |->
                 IF m = 0 THEN X ELSE F[m - 1] \cup Refer(F[m - 1], "CASCADE")]
<1>1. Cascade(X) = F[Cardinality(RowNames)]
  BY DEF Cascade
<1>2. Grows(X, Cardinality(RowNames), F)
  BY DEF Grows
<1>. QED
  BY <1>1, <1>2

LEMMA GrowthExists ==
  ASSUME NEW X, NEW N \in Nat
  PROVE  \E F : Grows(X, N, F)
<1> DEFINE P == {n \in 0..N : \E F : Grows(X, n, F)}
<1>1. 0 \in P
  <2> DEFINE F == [m \in 0..0 |-> X]
  <2>1. F = [m \in 0..0 |-> IF m = 0 THEN X ELSE F[m - 1] \cup Refer(F[m - 1], "CASCADE")]
    OBVIOUS
  <2>2. Grows(X, 0, F)
    BY <2>1 DEF Grows
  <2> HIDE DEF F
  <2>. QED
    BY <2>2
<1>2. ASSUME NEW n \in 0..N, n \in P, n < N PROVE n + 1 \in P
  <2>1. PICK F : Grows(X, n, F)
    BY <1>2
  <2>2. \A m \in 0..n : F[m] = IF m = 0 THEN X ELSE F[m - 1] \cup Refer(F[m - 1], "CASCADE")
    BY <2>1 DEF Grows
  <2> DEFINE G == [m \in 0..(n + 1) |-> IF m = 0 THEN X ELSE F[m - 1] \cup Refer(F[m - 1], "CASCADE")]
  <2>3. \A m \in 0..n : G[m] = F[m]
    <3>1. \A m \in 0..n : m \in 0..(n + 1)
      OBVIOUS
    <3>. QED
      BY <2>2, <3>1
  <2>4. \A m \in 0..(n + 1) : m # 0 => m - 1 \in 0..n
    OBVIOUS
  <2>5. G = [m \in 0..(n + 1) |-> IF m = 0 THEN X ELSE G[m - 1] \cup Refer(G[m - 1], "CASCADE")]
    BY <2>3, <2>4
  <2>6. Grows(X, n + 1, G)
    BY <2>5 DEF Grows
  <2>. QED
    BY <1>2, <2>6
<1>3. \A n \in 0..N : n \in P
  <2> HIDE DEF P
  <2>. QED
    BY <1>1, <1>2, Upward
<1>. QED
  BY <1>3

(* What a DELETE of some rows takes with it: those rows, what cascades     *)
(* from its own rows, and no more.                                         *)
LEMMA CascadeIs ==
  ASSUME NEW X \in SUBSET RowNames
  PROVE  /\ X \subseteq Cascade(X) /\ Cascade(X) \subseteq RowNames /\ Closed(Cascade(X))
         /\ \A Y : X \subseteq Y /\ Closed(Y) => Cascade(X) \subseteq Y
<1>1. PICK N : N = Cardinality(RowNames)
  OBVIOUS
<1>2. IsFiniteSet(RowNames) /\ N \in Nat
  BY <1>1, RetentionAssumption, FS_CardinalityType DEF RowNames
<1>3. PICK F : Grows(X, N, F) /\ Cascade(X) = F[N]
  BY <1>1, <1>2, GrowthExists, CascadeUnfolds
<1>4. /\ F[0] = X
      /\ \A m \in 0..N : m < N => F[m + 1] = F[m] \cup Refer(F[m], "CASCADE")
  <2>1. \A m \in 0..N : F[m] = IF m = 0 THEN X ELSE F[m - 1] \cup Refer(F[m - 1], "CASCADE")
    BY <1>3 DEF Grows
  <2>2. ASSUME NEW m \in 0..N, m < N PROVE F[m + 1] = F[m] \cup Refer(F[m], "CASCADE")
    <3>1. m + 1 \in 0..N /\ m + 1 # 0 /\ (m + 1) - 1 = m
      BY <1>2, <2>2
    <3>. QED
      BY <2>1, <3>1
  <2>3. 0 \in 0..N
    BY <1>2
  <2>. QED
    BY <2>1, <2>2, <2>3
<1>5. \A m \in 0..N : F[m] \subseteq RowNames /\ X \subseteq F[m]
  <2> DEFINE P == {m \in 0..N : F[m] \subseteq RowNames /\ X \subseteq F[m]}
  <2>1. 0 \in P
    BY <1>2, <1>4
  <2>2. ASSUME NEW m \in 0..N, m \in P, m < N PROVE m + 1 \in P
    <3>1. Refer(F[m], "CASCADE") \subseteq RowNames
      BY ReferIs
    <3>. QED
      BY <1>2, <1>4, <2>2, <3>1
  <2>3. \A m \in 0..N : m \in P
    <3> HIDE DEF P
    <3>. QED
      BY <1>2, <2>1, <2>2, Upward
  <2>. QED
    BY <2>3
<1>6. ASSUME NEW Y, X \subseteq Y, Closed(Y) PROVE F[N] \subseteq Y
  <2> DEFINE P == {m \in 0..N : F[m] \subseteq Y}
  <2>1. 0 \in P
    BY <1>2, <1>4, <1>6
  <2>2. ASSUME NEW m \in 0..N, m \in P, m < N PROVE m + 1 \in P
    <3>1. Refer(F[m], "CASCADE") \subseteq Refer(Y, "CASCADE")
      BY <2>2, ReferIs
    <3>2. Refer(Y, "CASCADE") \subseteq Y
      BY <1>6 DEF Closed
    <3>. QED
      BY <1>2, <1>4, <2>2, <3>1, <3>2
  <2>3. \A m \in 0..N : m \in P
    <3> HIDE DEF P
    <3>. QED
      BY <1>2, <2>1, <2>2, Upward
  <2>4. N \in 0..N
    BY <1>2
  <2>. QED
    BY <2>3, <2>4
<1>7. Closed(F[N])
  <2> DEFINE P == {m \in 0..N : Closed(F[m]) \/ Cardinality(F[m]) >= m}
  <2>1. \A m \in 0..N : IsFiniteSet(F[m]) /\ Cardinality(F[m]) \in Nat
    BY <1>2, <1>5, FS_Subset, FS_CardinalityType
  <2>2. 0 \in P
    BY <1>2, <2>1
  <2>3. ASSUME NEW m \in 0..N, m \in P, m < N PROVE m + 1 \in P
    <3>1. m + 1 \in 0..N /\ F[m + 1] = F[m] \cup Refer(F[m], "CASCADE")
      BY <1>2, <1>4, <2>3
    <3>2. CASE Closed(F[m])
      <4>1. F[m + 1] = F[m]
        BY <3>1, <3>2 DEF Closed
      <4>. QED
        BY <3>1, <3>2, <4>1
    <3>3. CASE ~Closed(F[m])
      <4>1. F[m + 1] # F[m] /\ F[m] \in SUBSET F[m + 1]
        BY <3>1, <3>3 DEF Closed
      <4>2. Cardinality(F[m]) <= Cardinality(F[m + 1]) /\ Cardinality(F[m]) # Cardinality(F[m + 1])
        BY <2>1, <3>1, <4>1, FS_Subset
      <4>3. Cardinality(F[m]) \in Nat /\ Cardinality(F[m + 1]) \in Nat
        BY <2>1, <3>1
      <4>4. Cardinality(F[m]) >= m
        BY <2>3, <3>3
      <4>5. Cardinality(F[m + 1]) >= m + 1
        BY <4>2, <4>3, <4>4
      <4>. QED
        BY <3>1, <4>5
    <3>. QED
      BY <3>2, <3>3
  <2>4. \A m \in 0..N : m \in P
    <3> HIDE DEF P
    <3>. QED
      BY <1>2, <2>2, <2>3, Upward
  <2>5. CASE Cardinality(F[N]) >= N
    <3>1. N \in 0..N
      BY <1>2
    <3>2. F[N] \in SUBSET RowNames
      BY <1>5, <3>1
    <3>3. Cardinality(F[N]) <= N /\ (N = Cardinality(F[N]) => RowNames = F[N])
      BY <1>1, <1>2, <3>2, FS_Subset
    <3>4. F[N] = RowNames
      BY <1>2, <2>1, <2>5, <3>1, <3>3
    <3>. QED
      BY <3>4, ReferIs DEF Closed
  <2>6. N \in 0..N
    BY <1>2
  <2>. QED
    BY <2>4, <2>5, <2>6
<1>8. N \in 0..N
  BY <1>2
<1>. QED
  BY <1>3, <1>5, <1>6, <1>7, <1>8

LEMMA ClosedStays ==
  ASSUME NEW rows, UNCHANGED <<created, refers>>
  PROVE  Closed(rows)' <=> Closed(rows)
  BY DEF Closed, Refer, Present

LEMMA ClosedTogether ==
  ASSUME NEW X, NEW Y, Closed(X), Closed(Y)
  PROVE  Closed(X \cup Y)
<1>1. Refer(X \cup Y, "CASCADE") = Refer(X, "CASCADE") \cup Refer(Y, "CASCADE")
  BY ReferIs
<1>. QED
  BY <1>1 DEF Closed

(* A row that is inserted adds to what there is to cascade to, and refers  *)
(* to no row that is gone.                                                 *)
LEMMA ClosedWithInsert ==
  ASSUME NEW gone, NEW r \in RowNames, InsertRow(r), gone = sweep.gone,
         DOMAIN created = RowNames, DOMAIN refers = RowNames
  PROVE  /\ \A Y : Closed(Y)' => Closed(Y)
         /\ Closed(gone) => Closed(gone)'
<1>1. /\ ~Present(r) /\ \A c \in DOMAIN Rows[r].refs : Rows[r].refs[c] \notin gone
      /\ \A q \in RowNames : q # r => created'[q] = created[q] /\ refers'[q] = refers[q]
      /\ refers'[r] = Rows[r].refs
  BY DEF InsertRow
<1>2. \A Y : Closed(Y)' => Closed(Y)
  <2> SUFFICES ASSUME NEW Y, Closed(Y)', NEW q \in Refer(Y, "CASCADE") PROVE q \in Y
    BY DEF Closed
  <2>1. q \in RowNames /\ Present(q) /\ q # r
    BY <1>1 DEF Refer
  <2>2. q \in Refer(Y, "CASCADE")'
    BY <1>1, <2>1 DEF Refer, Present
  <2>. QED
    BY <2>2 DEF Closed
<1>3. Closed(gone) => Closed(gone)'
  <2> SUFFICES ASSUME Closed(gone), NEW q \in RowNames, (q \in Refer(gone, "CASCADE"))' PROVE q \in gone
    BY DEF Closed, Refer
  <2>1. PICK c \in DOMAIN refers'[q] : refers'[q][c] \in gone
    BY DEF Refer
  <2>2. q # r
    BY <1>1, <2>1
  <2>3. q \in Refer(gone, "CASCADE")
    BY <1>1, <2>2 DEF Refer, Present
  <2>. QED
    BY <2>3 DEF Closed
<1>. QED
  BY <1>2, <1>3

-----------------------------------------------------------------------------
LEMMA ClassesAre ==
  /\ Len(Classes) = 9 /\ ToSet(Classes) = {Classes[i] : i \in 1..9}
  /\ \A i \in 1..9 : Classes[i].days \in Nat
  /\ \A i, j \in 1..9 : Classes[i].name = Classes[j].name => i = j
<1>1. Len(Classes) = 9 /\ DOMAIN Classes = 1..9
  BY DEF Classes
<1>2. ToSet(Classes) = {Classes[i] : i \in 1..9}
  BY <1>1 DEF ToSet
<1>3. Quarter \in Nat /\ Year \in Nat /\ 7 * Year \in Nat
  BY RetentionAssumption
<1>4. \A i \in 1..9 : Classes[i].days \in Nat
  <2>1. PICK seven : seven = 7 * Year
    OBVIOUS
  <2>2. Classes[1].days = seven /\ \A i \in 2..9 : Classes[i].days \in {Year, Quarter}
    <3>1. Classes[1].days = seven
      BY <2>1 DEF Classes, Class
    <3>2. \A i \in 2..9 : Classes[i].days = <<Quarter, Quarter, Quarter, Quarter, Quarter, Quarter, Year, Year, Year>>[i]
      BY DEF Classes, Class
    <3>. QED
      BY <3>1, <3>2
  <2>. QED
    BY <1>3, <2>1, <2>2
<1>5. \A i \in 1..9 : Classes[i].name =
        <<"audit_events", "test_runs", "agent_tasks", "evidence_artifacts", "failure_classifications",
          "flakiness_observations", "agent_feedback", "usage_records", "external_issues">>[i]
  BY DEF Classes, Class
<1>6. \A i, j \in 1..9 : Classes[i].name = Classes[j].name => i = j
  BY <1>5
<1>. QED
  BY <1>1, <1>2, <1>3, <1>4, <1>6

(* A workspace has windows for classes that policies may override only.    *)
WindowsFit(policy) ==
  /\ DOMAIN policy = Workspaces
  /\ \A w \in Workspaces : /\ DOMAIN policy[w] \subseteq OVERRIDABLE_RETENTION_CLASSES
                           /\ \A c \in DOMAIN policy[w] : policy[w][c] \in Nat

(* The bucket that a row of the i-th class is in; whether a sweep has been *)
(* through it; and the rows past their window.                             *)
OfClass(r, i) == Table(r) = Classes[i].name
Scope(r, i, policy) ==
  IF Rows[r].workspace \in Overriding(Classes[i], policy) THEN Rows[r].workspace ELSE NULL
Passed(r, i, s) == i < s.at \/ (i = s.at /\ Scope(r, i, s.windows) \notin s.buckets)
Past(s) == {r \in RowNames : Expired(r, s.windows, s.now)}

SweepShape(s) ==
  /\ s = [at |-> s.at, now |-> s.now, dry |-> s.dry, windows |-> s.windows, buckets |-> s.buckets,
          counted |-> s.counted, due |-> s.due, gone |-> s.gone, would |-> s.would,
          deleted |-> s.deleted]
  /\ s.at \in 1..10 /\ s.now \in 0..LastDay /\ s.dry \in BOOLEAN /\ WindowsFit(s.windows)
  /\ s.buckets \subseteq Buckets(s.at, s.windows) /\ s.counted \subseteq s.buckets
  /\ s.would \in Nat /\ s.deleted \in Nat
  /\ s.due \subseteq RowNames /\ s.gone \subseteq RowNames
  /\ s.dry => s.gone = {} /\ s.deleted = 0
  /\ s.counted # {} => ~s.dry /\ ~Classes[s.at].locked

(* What is gone has nothing left that cascades from it, and is in whatever *)
(* holds the rows past their window and what cascades from them; the rows  *)
(* that were due are gone as far as the sweep has come.                    *)
SweepHolds(s) ==
  /\ \A r \in s.gone : Present(r)
  /\ Closed(s.gone)
  /\ \A Y : Past(s) \subseteq Y /\ Closed(Y) => s.gone \subseteq Y
  /\ s.due \subseteq Past(s)
  /\ ~s.dry => \A r \in s.due, i \in 1..9 : OfClass(r, i) /\ Passed(r, i, s) => r \in s.gone

RowsInv ==
  /\ day \in 0..LastDay
  /\ created = [r \in RowNames |-> created[r]] /\ refers = [r \in RowNames |-> refers[r]]
  /\ \A r \in RowNames : created[r] \in 0..LastDay \cup {Absent}
  /\ \A r \in RowNames : /\ DOMAIN refers[r] = DOMAIN Rows[r].refs
                         /\ \A c \in DOMAIN Rows[r].refs : refers[r][c] \in {Rows[r].refs[c], NULL}
  /\ WindowsFit(windows)

RetentionInv == RowsInv /\ (Sweeping => SweepShape(sweep) /\ SweepHolds(sweep))

LEMMA WorkspaceIs ==
  ASSUME NEW r \in RowNames
  PROVE  Rows[r].workspace \in Workspaces <=> Rows[r].workspace # NULL
  BY DEF Workspaces

(* The window that governs a row of the i-th class.                        *)
LEMMA WindowStands ==
  ASSUME NEW r \in RowNames, NEW i \in 1..9, OfClass(r, i), NEW policy, WindowsFit(policy)
  PROVE  /\ Window(r, policy) = IF /\ Rows[r].workspace # NULL
                                   /\ Classes[i].name \in DOMAIN policy[Rows[r].workspace]
                                THEN policy[Rows[r].workspace][Classes[i].name] ELSE Classes[i].days
         /\ Window(r, policy) \in Nat
<1>1. (CHOOSE k \in ToSet(Classes) : k.name = Table(r)) = Classes[i]
  <2>1. Classes[i] \in ToSet(Classes) /\ Classes[i].name = Table(r)
    BY ClassesAre DEF OfClass
  <2>2. \A k \in ToSet(Classes) : k.name = Table(r) => k = Classes[i]
    <3> SUFFICES ASSUME NEW j \in 1..9, Classes[j].name = Table(r) PROVE Classes[j] = Classes[i]
      BY ClassesAre
    <3>1. j = i
      BY ClassesAre DEF OfClass
    <3>. QED
      BY <3>1
  <2>. QED
    BY <2>1, <2>2
<1>2. Window(r, policy) = IF /\ Rows[r].workspace # NULL
                             /\ Classes[i].name \in DOMAIN policy[Rows[r].workspace]
                          THEN policy[Rows[r].workspace][Classes[i].name] ELSE Classes[i].days
  <2>1. PICK cls : cls = CHOOSE k \in ToSet(Classes) : k.name = Table(r)
    OBVIOUS
  <2>2. Window(r, policy) = IF /\ Rows[r].workspace # NULL
                               /\ cls.name \in DOMAIN policy[Rows[r].workspace]
                            THEN policy[Rows[r].workspace][cls.name] ELSE cls.days
    BY <2>1 DEF Window
  <2>. QED
    BY <1>1, <2>1, <2>2
<1>3. Rows[r].workspace # NULL => Rows[r].workspace \in Workspaces
  BY WorkspaceIs
<1>. QED
  BY <1>2, <1>3, ClassesAre DEF WindowsFit

(* What is past its window does not depend on what other transactions do.  *)
LEMMA ExpiredStays ==
  ASSUME NEW r, NEW policy, NEW now, created'[r] = created[r]
  PROVE  Expired(r, policy, now)' <=> Expired(r, policy, now)
  BY DEF Expired, Window, Table, Present

LEMMA BucketsAre ==
  ASSUME NEW i \in 1..10, NEW policy, WindowsFit(policy)
  PROVE  /\ Buckets(i, policy) \subseteq Workspaces \cup {NULL}
         /\ i = 10 => Buckets(i, policy) = {}
         /\ i # 10 => /\ Buckets(i, policy) = {NULL} \cup Overriding(Classes[i], policy)
                      /\ \A r \in RowNames : Scope(r, i, policy) \in Buckets(i, policy)
<1>1. Len(Classes) = 9 /\ DOMAIN Classes = 1..9
  BY DEF Classes
<1>2. Overriding(Classes[i], policy) \subseteq Workspaces
  BY DEF Overriding, WindowsFit
<1>. QED
  BY <1>1, <1>2 DEF Buckets, Scope

(* A bucket holds the rows past their window that are in its scope.        *)
LEMMA BucketHolds ==
  ASSUME NEW r \in RowNames, NEW i \in 1..9, OfClass(r, i), ~Classes[i].locked,
         SweepShape(sweep), created[r] \in Nat, NEW w \in Buckets(i, sweep.windows)
  PROVE  InBucket(r, SweepBucket(Classes[i], w))
           <=> /\ w = Scope(r, i, sweep.windows)
               /\ sweep.now - created[r] > Window(r, sweep.windows)
<1>1. PICK policy, now, mine, old : /\ policy = sweep.windows /\ now = sweep.now
                                    /\ mine = Rows[r].workspace /\ old = created[r]
  OBVIOUS
<1>2. PICK own : own = Overriding(Classes[i], policy)
  OBVIOUS
<1>3. PICK days, limit : days = Window(r, policy) /\ limit = Classes[i].days
  OBVIOUS
<1>4. WindowsFit(policy) /\ now \in Nat /\ old \in Nat
  BY <1>1 DEF SweepShape
<1>5. own = IF Classes[i].name \notin OVERRIDABLE_RETENTION_CLASSES THEN {}
            ELSE {v \in Workspaces : Classes[i].name \in DOMAIN policy[v]}
  BY <1>2, <1>4 DEF Overriding, WindowsFit
<1>6. /\ NULL \notin own /\ \A v \in own : policy[v][Classes[i].name] \in Nat
      /\ mine \in own <=> mine # NULL /\ Classes[i].name \in DOMAIN policy[mine]
  BY <1>1, <1>4, <1>5, WorkspaceIs DEF WindowsFit, Workspaces
<1>7. /\ days = IF mine \in own THEN policy[mine][Classes[i].name] ELSE limit
      /\ days \in Nat /\ limit \in Nat
  BY <1>1, <1>3, <1>4, <1>6, WindowStands, ClassesAre
<1>8. Scope(r, i, policy) = IF mine \in own THEN mine ELSE NULL
  BY <1>1, <1>2 DEF Scope
<1>9. w \in {NULL} \cup own
  BY <1>1, <1>2, <1>4, BucketsAre
<1>10. CASE w = NULL
  <2>1. SweepBucket(Classes[i], w) = [cutoff |-> now - limit, workspace |-> NULL, exclude |-> own]
    BY <1>1, <1>2, <1>3, <1>10 DEF SweepBucket
  <2>2. InBucket(r, SweepBucket(Classes[i], w)) <=> old < now - limit /\ mine \notin own
    BY <1>1, <2>1 DEF InBucket
  <2>3. old < now - limit <=> now - old > limit
    BY <1>4, <1>7
  <2>4. w = Scope(r, i, policy) <=> mine \notin own
    BY <1>6, <1>8, <1>10
  <2>. QED
    BY <1>1, <1>3, <1>7, <2>2, <2>3, <2>4
<1>11. CASE w # NULL
  <2>1. PICK span : span = policy[w][Classes[i].name]
    OBVIOUS
  <2>2. w \in own /\ span \in Nat
    BY <1>6, <1>9, <1>11, <2>1
  <2>3. SweepBucket(Classes[i], w) = [cutoff |-> now - span, workspace |-> w, exclude |-> {}]
    BY <1>1, <1>11, <2>1 DEF SweepBucket
  <2>4. InBucket(r, SweepBucket(Classes[i], w)) <=> old < now - span /\ mine = w
    BY <1>1, <1>11, <2>3 DEF InBucket
  <2>5. old < now - span <=> now - old > span
    BY <1>4, <2>2
  <2>6. w = Scope(r, i, policy) <=> mine = w
    BY <1>8, <1>11, <2>2
  <2>. QED
    BY <1>1, <1>3, <1>7, <2>1, <2>2, <2>4, <2>5, <2>6
<1>. QED
  BY <1>10, <1>11

LEMMA RetentionInitInv == RetentionInit => RetentionInv
<1> SUFFICES ASSUME RetentionInit PROVE RetentionInv
  OBVIOUS
<1>1. 0 \in 0..LastDay
  BY RetentionAssumption
<1>2. WindowsFit(windows)
  <2>1. DOMAIN Nil = {}
    BY DEF Nil
  <2>2. DOMAIN windows = Workspaces /\ \A w \in Workspaces : windows[w] = Nil
    BY DEF RetentionInit
  <2>. QED
    BY <2>1, <2>2 DEF WindowsFit
<1>. QED
  BY <1>1, <1>2 DEF RetentionInit, RetentionInv, RowsInv, Sweeping

(* What a bucket still has to do: rows that are past their window, and all *)
(* in its scope of those that were due.                                    *)
LEMMA AgedIs ==
  ASSUME RowsInv, SweepShape(sweep), SweepHolds(sweep), NEW i \in 1..9, ~Classes[i].locked,
         NEW w \in Buckets(i, sweep.windows)
  PROVE  /\ Aged(Classes[i], w) \subseteq Past(sweep) \ sweep.gone
         /\ Cardinality(Aged(Classes[i], w)) \in Nat
         /\ Cardinality(Aged(Classes[i], w)) = 0 => Aged(Classes[i], w) = {}
         /\ \A r \in sweep.due : /\ OfClass(r, i) /\ Scope(r, i, sweep.windows) = w
                                 => r \in sweep.gone \cup Aged(Classes[i], w)
<1>1. \A r \in RowNames : Present(r) <=> created[r] \in Nat
  BY RetentionAssumption DEF RowsInv, Present
<1>2. \A r \in RowNames : Table(r) = Classes[i].name <=> OfClass(r, i)
  BY DEF OfClass
<1>3. ASSUME NEW r \in RowNames, OfClass(r, i), Present(r)
      PROVE  InBucket(r, SweepBucket(Classes[i], w))
               <=> w = Scope(r, i, sweep.windows) /\ Expired(r, sweep.windows, sweep.now)
  <2>1. \E k \in ToSet(Classes) : k.name = Table(r) /\ ~k.locked
    BY <1>3, ClassesAre DEF OfClass
  <2>2. Expired(r, sweep.windows, sweep.now) <=> sweep.now - created[r] > Window(r, sweep.windows)
    BY <1>3, <2>1 DEF Expired
  <2>. QED
    BY <1>1, <1>3, <2>2, BucketHolds
<1>4. PICK aged : aged = Aged(Classes[i], w)
  OBVIOUS
<1>5. aged = {r \in RowNames \ sweep.gone : /\ Present(r) /\ OfClass(r, i)
                                            /\ InBucket(r, SweepBucket(Classes[i], w))}
  BY <1>2, <1>4 DEF Aged
<1>6. aged \subseteq Past(sweep) \ sweep.gone
  BY <1>3, <1>5 DEF Past
<1>7. IsFiniteSet(aged) /\ Cardinality(aged) \in Nat /\ (Cardinality(aged) = 0 => aged = {})
  <2>1. aged \in SUBSET RowNames /\ IsFiniteSet(RowNames)
    BY <1>5, RetentionAssumption DEF RowNames
  <2>2. IsFiniteSet(aged)
    BY <2>1, FS_Subset
  <2>. QED
    BY <2>2, FS_CardinalityType, FS_EmptySet
<1>8. ASSUME NEW r \in sweep.due, OfClass(r, i), Scope(r, i, sweep.windows) = w, r \notin sweep.gone
      PROVE  r \in aged
  <2>1. r \in RowNames /\ Expired(r, sweep.windows, sweep.now) /\ Present(r)
    BY DEF SweepHolds, Past, Expired
  <2>. QED
    BY <1>3, <1>5, <1>8, <2>1
<1>. QED
  BY <1>4, <1>6, <1>7, <1>8

LEMMA HoldsStays ==
  ASSUME NEW s, UNCHANGED <<created, refers>>
  PROVE  SweepHolds(s)' <=> SweepHolds(s)
<1>1. \A Y : Closed(Y)' <=> Closed(Y)
  BY ClosedStays
<1>2. \A r : Present(r)' <=> Present(r)
  BY DEF Present
<1>3. Past(s)' = Past(s)
  BY ExpiredStays DEF Past
<1>4. \A r, i : OfClass(r, i)' <=> OfClass(r, i)
  BY DEF OfClass, Table
<1>5. \A r, i : Passed(r, i, s)' <=> Passed(r, i, s)
  BY DEF Passed, Scope, Overriding
<1>. QED
  BY <1>1, <1>2, <1>3, <1>4, <1>5 DEF SweepHolds

LEMMA ShapeStays ==
  ASSUME NEW s
  PROVE  SweepShape(s)' <=> SweepShape(s)
  BY DEF SweepShape, WindowsFit, Buckets, Overriding

LEMMA SweepStays ==
  ASSUME RetentionInv, UNCHANGED <<created, refers, sweep>>
  PROVE  (Sweeping => SweepShape(sweep) /\ SweepHolds(sweep))'
<1>1. PICK s : s = sweep
  OBVIOUS
<1>2. SweepHolds(s)' <=> SweepHolds(s)
  BY HoldsStays
<1>3. SweepShape(s)' <=> SweepShape(s)
  BY ShapeStays
<1>4. sweep' = s
  BY <1>1
<1>. QED
  BY <1>1, <1>2, <1>3, <1>4 DEF RetentionInv, Sweeping

LEMMA SweptRowsStay ==
  ASSUME RowsInv, UNCHANGED <<day, created, refers, windows>>
  PROVE  RowsInv'
  BY DEF RowsInv, WindowsFit

(* Another row, also one that is past its window as it comes.              *)
LEMMA InsertKeeps ==
  ASSUME RetentionInv, NEW r \in RowNames, InsertRow(r)
  PROVE  RetentionInv'
<1>1. PICK d : d \in Observable(r) /\ created' = [created EXCEPT ![r] = d]
  BY DEF InsertRow
<1>2. /\ day' = day /\ windows' = windows /\ sweep' = sweep /\ ~Present(r)
      /\ refers' = [refers EXCEPT ![r] = Rows[r].refs]
  BY DEF InsertRow
<1>3. /\ day \in 0..LastDay
      /\ created = [q \in RowNames |-> created[q]] /\ refers = [q \in RowNames |-> refers[q]]
      /\ \A q \in RowNames : created[q] \in 0..LastDay \cup {Absent}
      /\ \A q \in RowNames : /\ DOMAIN refers[q] = DOMAIN Rows[q].refs
                             /\ \A c \in DOMAIN Rows[q].refs : refers[q][c] \in {Rows[q].refs[c], NULL}
  BY DEF RetentionInv, RowsInv
<1>4. d \in 0..LastDay /\ d # Absent
  BY <1>1, <1>3, RetentionAssumption DEF Observable
<1>5. /\ created' = [q \in RowNames |-> created'[q]] /\ refers' = [q \in RowNames |-> refers'[q]]
      /\ created'[r] = d /\ refers'[r] = Rows[r].refs
      /\ \A q \in RowNames : q # r => created'[q] = created[q] /\ refers'[q] = refers[q]
  BY <1>1, <1>2, <1>3
<1>6. RowsInv'
  <2>1. WindowsFit(windows)'
    BY <1>2 DEF RetentionInv, RowsInv, WindowsFit
  <2>2. \A q \in RowNames : created'[q] \in 0..LastDay \cup {Absent}
    BY <1>3, <1>4, <1>5
  <2>3. \A q \in RowNames : /\ DOMAIN refers'[q] = DOMAIN Rows[q].refs
                            /\ \A c \in DOMAIN Rows[q].refs : refers'[q][c] \in {Rows[q].refs[c], NULL}
    BY <1>3, <1>5
  <2>. QED
    BY <1>2, <1>3, <1>5, <2>1, <2>2, <2>3 DEF RowsInv
<1>7. PICK s : s = sweep
  OBVIOUS
<1>8. Sweeping => SweepHolds(s)'
  <2> SUFFICES ASSUME Sweeping PROVE SweepHolds(s)'
    OBVIOUS
  <2>1. SweepShape(s) /\ SweepHolds(s)
    BY <1>7 DEF RetentionInv
  <2>2. (\A Y : Closed(Y)' => Closed(Y)) /\ Closed(s.gone)'
    <3>1. PICK gone : gone = s.gone
      OBVIOUS
    <3>2. (\A Y : Closed(Y)' => Closed(Y)) /\ (Closed(gone) => Closed(gone)')
      BY <1>3, <1>7, <3>1, ClosedWithInsert
    <3>. QED
      BY <2>1, <3>1, <3>2 DEF SweepHolds
  <2>3. \A q \in RowNames : Present(q) => Present(q)' /\ q # r
    BY <1>2, <1>5 DEF Present
  <2>4. Past(s) \subseteq Past(s)'
    <3> SUFFICES ASSUME NEW q \in RowNames, Expired(q, s.windows, s.now)
                 PROVE  Expired(q, s.windows, s.now)'
      BY DEF Past
    <3>1. created'[q] = created[q]
      BY <1>5, <2>3 DEF Expired
    <3>. QED
      BY <3>1, ExpiredStays
  <2>5. \A Y : (Past(s) \subseteq Y /\ Closed(Y))' => s.gone \subseteq Y
    BY <2>1, <2>2, <2>4 DEF SweepHolds
  <2>6. \A q, i : (OfClass(q, i)' <=> OfClass(q, i)) /\ (Passed(q, i, s)' <=> Passed(q, i, s))
    BY DEF OfClass, Table, Passed, Scope, Overriding
  <2>7. s.gone \subseteq RowNames
    BY <2>1 DEF SweepShape
  <2>8. \A q \in s.gone : Present(q)'
    BY <2>1, <2>3, <2>7 DEF SweepHolds
  <2>9. s.due \subseteq Past(s)'
    BY <2>1, <2>4 DEF SweepHolds
  <2>10. ~s.dry => \A q \in s.due, i \in 1..9 : OfClass(q, i)' /\ Passed(q, i, s)' => q \in s.gone
    BY <2>1, <2>6 DEF SweepHolds
  <2>. QED
    BY <2>2, <2>5, <2>8, <2>9, <2>10 DEF SweepHolds
<1>9. (Sweeping => SweepShape(sweep) /\ SweepHolds(sweep))'
  <2>1. sweep' = s /\ (Sweeping' <=> Sweeping)
    BY <1>2, <1>7 DEF Sweeping, NoSweep
  <2>2. Sweeping => SweepShape(s)
    BY <1>7 DEF RetentionInv
  <2>3. SweepShape(s)' <=> SweepShape(s)
    BY ShapeStays
  <2>. QED
    BY <1>8, <2>1, <2>2, <2>3
<1>. QED
  BY <1>6, <1>9 DEF RetentionInv

LEMMA StartKeeps ==
  ASSUME RetentionInv, NEW dry \in BOOLEAN, Start(dry)
  PROVE  RetentionInv'
<1>1. PICK s, policy, now : s = sweep' /\ policy = windows /\ now = day
  OBVIOUS
<1>2. PICK first, due : /\ first = Buckets(1, policy)
                        /\ due = {r \in RowNames : Expired(r, policy, now)}
  OBVIOUS
<1>3. /\ UNCHANGED <<day, created, refers, windows>>
      /\ s = [at |-> 1, now |-> now, dry |-> dry, windows |-> policy, buckets |-> first,
              counted |-> {}, due |-> due, gone |-> {}, would |-> 0, deleted |-> 0]
  BY <1>1, <1>2 DEF Start, NoSweep
<1>4. RowsInv'
  BY <1>3, SweptRowsStay DEF RetentionInv
<1>5. SweepShape(s)
  <2>1. WindowsFit(policy) /\ now \in 0..LastDay
    BY <1>1 DEF RetentionInv, RowsInv
  <2>. QED
    BY <1>2, <1>3, <2>1 DEF SweepShape
<1>6. SweepHolds(s)
  <2>1. s.due = Past(s) /\ s.gone = {} /\ s.at = 1 /\ s.buckets = first /\ s.windows = policy
    BY <1>2, <1>3 DEF Past
  <2>2. Closed({})
    BY ReferIs DEF Closed
  <2>3. ASSUME NEW r \in s.due, NEW i \in 1..9, Passed(r, i, s) PROVE FALSE
    <3>1. WindowsFit(policy) /\ r \in RowNames
      BY <1>1, <2>1 DEF RetentionInv, RowsInv, Past
    <3>2. i = 1 /\ Scope(r, 1, policy) \notin first
      BY <2>1, <2>3 DEF Passed
    <3>3. Scope(r, 1, policy) \in Buckets(1, policy)
      BY <3>1, BucketsAre
    <3>. QED
      BY <1>2, <3>2, <3>3
  <2>. QED
    BY <2>1, <2>2, <2>3 DEF SweepHolds
<1>7. SweepShape(s)' /\ SweepHolds(s)'
  BY <1>3, <1>5, <1>6, ShapeStays, HoldsStays
<1>. QED
  BY <1>1, <1>4, <1>7 DEF RetentionInv

(* The sweep comes to the next class.                                      *)
LEMMA ClassDone ==
  ASSUME NEW s, SweepShape(s), SweepHolds(s), s.at \in 1..9,
         ~s.dry => \A r \in s.due : OfClass(r, s.at) => r \in s.gone
  PROVE  SweepShape(NextClass(s)) /\ SweepHolds(NextClass(s))
<1>1. PICK t, after : t = NextClass(s) /\ after = Buckets(s.at + 1, s.windows)
  OBVIOUS
<1>2. /\ t = [at |-> s.at + 1, now |-> s.now, dry |-> s.dry, windows |-> s.windows,
              buckets |-> after, counted |-> {}, due |-> s.due, gone |-> s.gone,
              would |-> s.would, deleted |-> s.deleted]
  BY <1>1 DEF NextClass, SweepShape
<1>3. SweepShape(t)
  <2>1. t.at \in 1..10 /\ t.buckets \subseteq Buckets(t.at, t.windows)
    BY <1>1, <1>2
  <2>. QED
    BY <1>2, <2>1 DEF SweepShape
<1>4. SweepHolds(t)
  <2>1. Past(t) = Past(s) /\ t.gone = s.gone /\ t.due = s.due /\ t.dry = s.dry
    BY <1>2 DEF Past
  <2>2. ASSUME ~s.dry, NEW r \in s.due, NEW i \in 1..9, OfClass(r, i), Passed(r, i, t)
        PROVE  r \in s.gone
    <3>1. CASE i < s.at
      BY <2>2, <3>1 DEF SweepHolds, Passed
    <3>2. CASE i = s.at
      BY <2>2, <3>2
    <3>3. CASE i > s.at
      <4>1. i = s.at + 1 /\ Scope(r, i, s.windows) \notin after
        BY <1>2, <2>2, <3>3 DEF Passed
      <4>2. r \in RowNames /\ WindowsFit(s.windows)
        BY DEF SweepShape
      <4>3. Scope(r, i, s.windows) \in Buckets(i, s.windows)
        BY <4>2, BucketsAre
      <4>. QED
        BY <1>1, <4>1, <4>3
    <3>. QED
      BY <3>1, <3>2, <3>3
  <2>. QED
    BY <2>1, <2>2 DEF SweepHolds
<1>. QED
  BY <1>1, <1>3, <1>4

(* The sweep comes to the next bucket, or to the next class.               *)
LEMMA BucketDone ==
  ASSUME NEW s, NEW w, SweepShape(s), SweepHolds(s), s.at \in 1..9, w \in s.buckets,
         ~s.dry => \A r \in s.due : OfClass(r, s.at) /\ Scope(r, s.at, s.windows) = w => r \in s.gone
  PROVE  SweepShape(NextBucket(s, w)) /\ SweepHolds(NextBucket(s, w))
<1>1. CASE s.buckets = {w}
  <2>1. ASSUME ~s.dry, NEW r \in s.due, OfClass(r, s.at) PROVE r \in s.gone
    <3>1. Passed(r, s.at, s) \/ Scope(r, s.at, s.windows) = w
      BY <1>1 DEF Passed
    <3>. QED
      BY <2>1, <3>1 DEF SweepHolds
  <2>2. SweepShape(NextClass(s)) /\ SweepHolds(NextClass(s))
    BY <2>1, ClassDone
  <2>. QED
    BY <1>1, <2>2 DEF NextBucket
<1>2. CASE s.buckets # {w}
  <2>1. PICK t : t = NextBucket(s, w)
    OBVIOUS
  <2>2. /\ t = [at |-> s.at, now |-> s.now, dry |-> s.dry, windows |-> s.windows,
                buckets |-> s.buckets \ {w}, counted |-> {}, due |-> s.due, gone |-> s.gone,
                would |-> s.would, deleted |-> s.deleted]
    BY <1>2, <2>1 DEF NextBucket, SweepShape
  <2>3. SweepShape(t)
    BY <2>2 DEF SweepShape
  <2>4. SweepHolds(t)
    <3>1. Past(t) = Past(s) /\ t.gone = s.gone /\ t.due = s.due /\ t.dry = s.dry
      BY <2>2 DEF Past
    <3>2. ASSUME ~s.dry, NEW r \in s.due, NEW i \in 1..9, OfClass(r, i), Passed(r, i, t)
          PROVE  r \in s.gone
      <4>1. Passed(r, i, s) \/ (i = s.at /\ Scope(r, i, s.windows) = w)
        BY <2>2, <3>2 DEF Passed
      <4>. QED
        BY <3>2, <4>1 DEF SweepHolds
    <3>. QED
      BY <3>1, <3>2 DEF SweepHolds
  <2>. QED
    BY <2>1, <2>3, <2>4
<1>. QED
  BY <1>1, <1>2

LEMMA SkipKeeps ==
  ASSUME RetentionInv, SkipLocked
  PROVE  RetentionInv'
<1>1. PICK s : s = sweep
  OBVIOUS
<1>2. PICK cls \in ToSet(Classes) : AtClass(cls) /\ cls.locked
  BY DEF SkipLocked
<1>3. /\ UNCHANGED <<day, created, refers, windows>> /\ sweep' = NextClass(s)
      /\ Sweeping /\ s.at \in 1..9 /\ Classes[s.at].locked
  <2>1. DOMAIN Classes = 1..9
    BY DEF Classes
  <2>. QED
    BY <1>1, <1>2, <2>1 DEF SkipLocked, AtClass
<1>4. SweepShape(s) /\ SweepHolds(s)
  BY <1>1, <1>3 DEF RetentionInv
<1>5. ASSUME NEW r \in s.due, OfClass(r, s.at) PROVE FALSE
  <2>1. PICK k \in ToSet(Classes) : k.name = Table(r) /\ ~k.locked
    BY <1>4 DEF SweepHolds, Past, Expired
  <2>2. PICK j \in 1..9 : k = Classes[j]
    BY ClassesAre
  <2>3. j = s.at
    BY <1>3, <1>5, <2>1, <2>2, ClassesAre DEF OfClass
  <2>. QED
    BY <1>3, <2>1, <2>2, <2>3
<1>6. SweepShape(NextClass(s)) /\ SweepHolds(NextClass(s))
  BY <1>3, <1>4, <1>5, ClassDone
<1>7. PICK t : t = NextClass(s)
  OBVIOUS
<1>8. SweepShape(t)' /\ SweepHolds(t)'
  BY <1>3, <1>6, <1>7, ShapeStays, HoldsStays
<1>9. RowsInv'
  BY <1>3, SweptRowsStay DEF RetentionInv
<1>. QED
  BY <1>3, <1>7, <1>8, <1>9 DEF RetentionInv

(* The first statement of a bucket.                                        *)
LEMMA CountKeeps ==
  ASSUME RetentionInv, NEW cls, NEW w, CountBucket(cls, w)
  PROVE  RetentionInv'
<1>1. PICK s, i, n : s = sweep /\ i = sweep.at /\ n = Cardinality(Aged(cls, w))
  OBVIOUS
<1>2. PICK u : u = [s EXCEPT !.would = @ + n]
  OBVIOUS
<1>3. /\ UNCHANGED <<day, created, refers, windows>> /\ Sweeping
      /\ i \in 1..9 /\ cls = Classes[i] /\ ~cls.locked /\ w \in s.buckets
      /\ sweep' = IF s.dry \/ n = 0 THEN NextBucket(u, w) ELSE [u EXCEPT !.counted = {w}]
  <2>1. DOMAIN Classes = 1..9
    BY DEF Classes
  <2>. QED
    BY <1>1, <1>2, <2>1 DEF CountBucket, AtClass
<1>4. SweepShape(s) /\ SweepHolds(s)
  BY <1>1, <1>3 DEF RetentionInv
<1>5. w \in Buckets(i, s.windows) /\ s.at = i
  BY <1>1, <1>3, <1>4 DEF SweepShape
<1>6. /\ n \in Nat
      /\ n = 0 => \A r \in s.due : OfClass(r, i) /\ Scope(r, i, s.windows) = w => r \in s.gone
  BY <1>1, <1>3, <1>4, <1>5, AgedIs DEF RetentionInv
<1>7. u = [at |-> s.at, now |-> s.now, dry |-> s.dry, windows |-> s.windows,
           buckets |-> s.buckets, counted |-> s.counted, due |-> s.due, gone |-> s.gone,
           would |-> s.would + n, deleted |-> s.deleted]
  BY <1>2, <1>4 DEF SweepShape
<1>8. SweepShape(u)
  BY <1>4, <1>6, <1>7 DEF SweepShape
<1>9. SweepHolds(u)
  <2>1. /\ Past(u) = Past(s) /\ u.gone = s.gone /\ u.due = s.due /\ u.dry = s.dry
        /\ \A r, j : Passed(r, j, u) <=> Passed(r, j, s)
    BY <1>7 DEF Past, Passed
  <2>. QED
    BY <1>4, <2>1 DEF SweepHolds
<1>10. PICK t : t = sweep'
  OBVIOUS
<1>11. SweepShape(t) /\ SweepHolds(t)
  <2>1. CASE s.dry \/ n = 0
    <3>1. ~u.dry => \A r \in u.due : OfClass(r, u.at) /\ Scope(r, u.at, u.windows) = w => r \in u.gone
      BY <1>5, <1>6, <1>7, <2>1
    <3>2. u.at \in 1..9 /\ w \in u.buckets
      BY <1>3, <1>5, <1>7
    <3>. QED
      BY <1>3, <1>8, <1>9, <1>10, <2>1, <3>1, <3>2, BucketDone
  <2>2. CASE ~s.dry /\ n # 0
    <3>1. t = [at |-> s.at, now |-> s.now, dry |-> s.dry, windows |-> s.windows,
               buckets |-> s.buckets, counted |-> {w}, due |-> s.due, gone |-> s.gone,
               would |-> s.would + n, deleted |-> s.deleted]
      BY <1>3, <1>7, <1>10, <2>2
    <3>2. SweepShape(t)
      <4>1. /\ t.at = s.at /\ t.now = s.now /\ t.windows = s.windows /\ t.buckets = s.buckets
            /\ t.due = s.due /\ t.gone = s.gone /\ t.counted = {w}
            /\ t.would = s.would + n /\ t.deleted = s.deleted
        BY <3>1
      <4>2. (t.dry <=> s.dry) /\ t.dry \in BOOLEAN
        BY <1>4, <3>1 DEF SweepShape
      <4>3. t.counted # {} => ~t.dry /\ ~Classes[t.at].locked
        BY <1>3, <1>5, <2>2, <4>1, <4>2
      <4>4. t.counted \subseteq t.buckets /\ t.would \in Nat
        BY <1>3, <1>4, <1>6, <4>1 DEF SweepShape
      <4>5. t.dry => t.gone = {} /\ t.deleted = 0
        BY <2>2, <4>2
      <4>6. t = [at |-> t.at, now |-> t.now, dry |-> t.dry, windows |-> t.windows,
                 buckets |-> t.buckets, counted |-> t.counted, due |-> t.due, gone |-> t.gone,
                 would |-> t.would, deleted |-> t.deleted]
        BY <3>1
      <4>. QED
        BY <1>4, <4>1, <4>2, <4>3, <4>4, <4>5, <4>6 DEF SweepShape
    <3>3. /\ Past(t) = Past(s) /\ t.gone = s.gone /\ t.due = s.due /\ t.dry = s.dry
          /\ \A r, j : Passed(r, j, t) <=> Passed(r, j, s)
      BY <3>1 DEF Past, Passed
    <3>. QED
      BY <1>4, <3>2, <3>3 DEF SweepHolds
  <2>. QED
    BY <2>1, <2>2
<1>12. SweepShape(t)' /\ SweepHolds(t)'
  BY <1>3, <1>11, ShapeStays, HoldsStays
<1>13. RowsInv'
  BY <1>3, SweptRowsStay DEF RetentionInv
<1>. QED
  BY <1>10, <1>12, <1>13 DEF RetentionInv

(* The second: what is past its window by then, and what cascades from it. *)
LEMMA DeleteKeeps ==
  ASSUME RetentionInv, NEW cls, NEW w, DeleteBucket(cls, w)
  PROVE  RetentionInv'
<1>1. PICK s, i, aged : s = sweep /\ i = sweep.at /\ aged = Aged(cls, w)
  OBVIOUS
<1>2. PICK n, lost : n = Cardinality(aged) /\ lost = Cascade(aged)
  OBVIOUS
<1>3. PICK u : u = [s EXCEPT !.deleted = @ + n, !.gone = @ \cup lost]
  OBVIOUS
<1>4. /\ UNCHANGED <<day, created, refers, windows>> /\ Sweeping
      /\ i \in 1..9 /\ cls = Classes[i] /\ w \in s.counted /\ sweep' = NextBucket(u, w)
  <2>1. DOMAIN Classes = 1..9
    BY DEF Classes
  <2>. QED
    BY <1>1, <1>2, <1>3, <2>1 DEF DeleteBucket, AtClass
<1>5. SweepShape(s) /\ SweepHolds(s)
  BY <1>1, <1>4 DEF RetentionInv
<1>6. w \in s.buckets /\ w \in Buckets(i, s.windows) /\ s.at = i /\ ~s.dry
  BY <1>1, <1>4, <1>5 DEF SweepShape
<1>7. ~Classes[i].locked
  BY <1>4, <1>5, <1>6 DEF SweepShape
<1>8. /\ aged \subseteq Past(s) \ s.gone /\ n \in Nat
      /\ \A r \in s.due : OfClass(r, i) /\ Scope(r, i, s.windows) = w => r \in s.gone \cup aged
  BY <1>1, <1>2, <1>4, <1>5, <1>6, <1>7, AgedIs DEF RetentionInv
<1>9. /\ aged \subseteq lost /\ lost \subseteq RowNames /\ Closed(lost)
      /\ \A Y : aged \subseteq Y /\ Closed(Y) => lost \subseteq Y
  <2>1. aged \in SUBSET RowNames
    BY <1>8 DEF Past
  <2>. QED
    BY <1>2, <2>1, CascadeIs
<1>10. u = [at |-> s.at, now |-> s.now, dry |-> s.dry, windows |-> s.windows,
            buckets |-> s.buckets, counted |-> s.counted, due |-> s.due,
            gone |-> s.gone \cup lost, would |-> s.would, deleted |-> s.deleted + n]
  BY <1>3, <1>5 DEF SweepShape
<1>11. SweepShape(u)
  BY <1>5, <1>6, <1>8, <1>9, <1>10 DEF SweepShape
<1>12. SweepHolds(u)
  <2>1. /\ Past(u) = Past(s) /\ u.gone = s.gone \cup lost /\ u.due = s.due /\ u.dry = s.dry
        /\ \A r, j : Passed(r, j, u) <=> Passed(r, j, s)
    BY <1>10 DEF Past, Passed
  <2>2. \A r \in u.gone : Present(r)
    <3>1. PICK there : there = {r \in RowNames : Present(r)}
      OBVIOUS
    <3>2. Closed(there)
      BY <3>1 DEF Closed, Refer
    <3>3. aged \subseteq there
      BY <1>8, <3>1 DEF Past, Expired
    <3>4. lost \subseteq there
      BY <1>9, <3>2, <3>3
    <3>. QED
      BY <1>5, <2>1, <3>1, <3>4 DEF SweepHolds
  <2>3. Closed(u.gone)
    <3>1. PICK gone : gone = s.gone
      OBVIOUS
    <3>2. Closed(gone \cup lost)
      BY <1>5, <1>9, <3>1, ClosedTogether DEF SweepHolds
    <3>. QED
      BY <2>1, <3>1, <3>2
  <2>4. ASSUME NEW Y, Past(s) \subseteq Y, Closed(Y) PROVE u.gone \subseteq Y
    <3>1. s.gone \subseteq Y
      BY <1>5, <2>4 DEF SweepHolds
    <3>2. lost \subseteq Y
      BY <1>8, <1>9, <2>4
    <3>. QED
      BY <2>1, <3>1, <3>2
  <2>5. s.due \subseteq Past(s)
    BY <1>5 DEF SweepHolds
  <2>6. \A r \in s.due, j \in 1..9 : OfClass(r, j) /\ Passed(r, j, s) => r \in s.gone
    BY <1>5, <1>6 DEF SweepHolds
  <2>. QED
    BY <2>1, <2>2, <2>3, <2>4, <2>5, <2>6 DEF SweepHolds
<1>13. PICK t : t = NextBucket(u, w)
  OBVIOUS
<1>14. SweepShape(t) /\ SweepHolds(t)
  <2>1. \A r \in u.due : OfClass(r, u.at) /\ Scope(r, u.at, u.windows) = w => r \in u.gone
    BY <1>6, <1>8, <1>9, <1>10
  <2>2. u.at \in 1..9 /\ w \in u.buckets
    BY <1>4, <1>6, <1>10
  <2>. QED
    BY <1>11, <1>12, <1>13, <2>1, <2>2, BucketDone
<1>15. SweepShape(t)' /\ SweepHolds(t)'
  BY <1>4, <1>14, ShapeStays, HoldsStays
<1>16. RowsInv'
  BY <1>4, SweptRowsStay DEF RetentionInv
<1>. QED
  BY <1>4, <1>13, <1>15, <1>16 DEF RetentionInv

LEMMA RetentionStep == RetentionInv /\ [RetentionNext]_retentionVars => RetentionInv'
<1> SUFFICES ASSUME RetentionInv, [RetentionNext]_retentionVars PROVE RetentionInv'
  OBVIOUS
<1>0. /\ day \in 0..LastDay /\ LastDay \in Nat
      /\ created = [q \in RowNames |-> created[q]] /\ refers = [q \in RowNames |-> refers[q]]
      /\ \A q \in RowNames : created[q] \in 0..LastDay \cup {Absent}
      /\ \A q \in RowNames : /\ DOMAIN refers[q] = DOMAIN Rows[q].refs
                             /\ \A c \in DOMAIN Rows[q].refs : refers[q][c] \in {Rows[q].refs[c], NULL}
  BY RetentionAssumption DEF RetentionInv, RowsInv
<1>1. ASSUME NEW r \in RowNames, InsertRow(r) PROVE RetentionInv'
  BY <1>1, InsertKeeps
<1>2. ASSUME NEW w \in Workspaces, NEW cls \in Sweepable, NEW d \in Windows, SetWindow(w, cls, d)
      PROVE  RetentionInv'
  <2>1. UNCHANGED <<day, created, refers, sweep>> /\ windows' = [windows EXCEPT ![w] = [c \in {cls} |-> d]]
    BY <1>2 DEF SetWindow
  <2>2. cls \in OVERRIDABLE_RETENTION_CLASSES /\ d \in Nat
    BY RetentionAssumption DEF Sweepable
  <2>3. WindowsFit(windows)'
    <3>1. WindowsFit(windows)
      BY DEF RetentionInv, RowsInv
    <3>2. /\ DOMAIN windows' = Workspaces
          /\ \A v \in Workspaces : windows'[v] = IF v = w THEN [c \in {cls} |-> d] ELSE windows[v]
      BY <2>1, <3>1 DEF WindowsFit
    <3>. QED
      BY <2>2, <3>1, <3>2 DEF WindowsFit
  <2>4. RowsInv'
    BY <1>0, <2>1, <2>3 DEF RowsInv
  <2>. QED
    BY <2>1, <2>4, SweepStays DEF RetentionInv
<1>3. CASE NightFalls
  <2>1. UNCHANGED <<created, refers, windows, sweep>> /\ day' = day + 1 /\ day < LastDay
    BY <1>3 DEF NightFalls
  <2>2. WindowsFit(windows)'
    BY <2>1 DEF RetentionInv, RowsInv, WindowsFit
  <2>3. RowsInv'
    BY <1>0, <2>1, <2>2 DEF RowsInv
  <2>. QED
    BY <2>1, <2>3, SweepStays DEF RetentionInv
<1>4. ASSUME NEW dry \in BOOLEAN, Start(dry) PROVE RetentionInv'
  BY <1>4, StartKeeps
<1>5. ASSUME NEW cls, NEW w, CountBucket(cls, w) \/ DeleteBucket(cls, w) PROVE RetentionInv'
  BY <1>5, CountKeeps, DeleteKeeps
<1>6. CASE SkipLocked
  BY <1>6, SkipKeeps
<1>7. CASE SweepCommits
  <2>1. /\ UNCHANGED <<day, windows>> /\ ~Sweeping'
        /\ created' = [r \in RowNames |-> IF r \in sweep.gone THEN Absent
                                   ELSE IF Table(r) = "audit_events" /\ ~Present(r) THEN day
                                   ELSE created[r]]
        /\ refers' = [r \in RowNames |-> [c \in DOMAIN refers[r] |->
                  IF refers[r][c] \in sweep.gone THEN NULL ELSE refers[r][c]]]
    BY <1>7 DEF SweepCommits, Sweeping, NoSweep
  <2>2. \A q \in RowNames : created'[q] \in 0..LastDay \cup {Absent}
    BY <1>0, <2>1
  <2>3. \A q \in RowNames : /\ DOMAIN refers'[q] = DOMAIN Rows[q].refs
                            /\ \A c \in DOMAIN Rows[q].refs : refers'[q][c] \in {Rows[q].refs[c], NULL}
    BY <1>0, <2>1
  <2>4. WindowsFit(windows)'
    BY <2>1 DEF RetentionInv, RowsInv, WindowsFit
  <2>5. created' = [q \in RowNames |-> created'[q]] /\ refers' = [q \in RowNames |-> refers'[q]]
    BY <2>1
  <2>. QED
    BY <1>0, <2>1, <2>2, <2>3, <2>4, <2>5 DEF RetentionInv, RowsInv
<1>8. CASE SweepFails
  <2>1. UNCHANGED <<day, created, refers, windows>> /\ ~Sweeping'
    BY <1>8 DEF SweepFails, Sweeping, NoSweep
  <2>. QED
    BY <2>1, SweptRowsStay DEF RetentionInv
<1>9. CASE UNCHANGED retentionVars
  <2>1. UNCHANGED <<day, created, refers, windows, sweep>>
    BY <1>9 DEF retentionVars
  <2>. QED
    BY <2>1, SweptRowsStay, SweepStays DEF RetentionInv
<1>. QED
  BY <1>1, <1>2, <1>3, <1>4, <1>5, <1>6, <1>7, <1>8, <1>9 DEF RetentionNext

LEMMA RetentionInvariance == RetentionSpec => []RetentionInv
<1>1. RetentionInv /\ [RetentionNext]_retentionVars => RetentionInv'
  BY RetentionStep
<1>. QED
  BY <1>1, RetentionInitInv, PTL DEF RetentionSpec

(* RetentionSweepService: rows keep their days and their references, or    *)
(* these are set to NULL; a sweep goes through its classes in order, and   *)
(* through the buckets of each; a dry run deletes nothing.                 *)
THEOREM RetentionTypeCorrect == RetentionSpec => []RetentionTypeOK
<1>1. RetentionInv => RetentionTypeOK
  <2> SUFFICES ASSUME RetentionInv PROVE RetentionTypeOK
    OBVIOUS
  <2>1. /\ sweep.at \in 0..(Len(Classes) + 1) /\ sweep.gone \subseteq RowNames
        /\ sweep.buckets \subseteq Workspaces \cup {NULL} /\ sweep.counted \subseteq sweep.buckets
        /\ sweep.would \in Nat /\ sweep.deleted \in Nat
        /\ sweep.dry => sweep.gone = {} /\ sweep.deleted = 0
    <3>1. CASE Sweeping
      <4>1. SweepShape(sweep)
        BY <3>1 DEF RetentionInv
      <4>2. Buckets(sweep.at, sweep.windows) \subseteq Workspaces \cup {NULL}
        BY <4>1, BucketsAre DEF SweepShape
      <4>. QED
        BY <4>1, <4>2, ClassesAre DEF SweepShape
    <3>2. CASE ~Sweeping
      BY <3>2, ClassesAre DEF Sweeping, NoSweep
    <3>. QED
      BY <3>1, <3>2
  <2>. QED
    BY <2>1 DEF RetentionInv, RowsInv, RetentionTypeOK
<1>. QED
  BY <1>1, RetentionInvariance, PTL

(* RetentionSweepService.sweep(), while others insert rows, also such as   *)
(* are past their window already, and activate policies: what goes, goes   *)
(* in a sweep that is not a dry run, and for the sake of a row past its    *)
(* own window, by the policies the sweep began with; all that was past it  *)
(* as the sweep began goes, with what cascades from it; no reference is    *)
(* left to a row that is gone.                                             *)
THEOREM SweptByRule == RetentionSpec => SweepsByRule
<1> DEFINE gone    == {r \in RowNames : Present(r) /\ created'[r] = Absent}
           expired == {r \in RowNames : Expired(r, sweep.windows, sweep.now)}
           Ruled   == /\ SweepCommits /\ ~sweep.dry => Cascade(sweep.due) \subseteq gone
                      /\ gone # {} =>
                           /\ Sweeping /\ ~sweep.dry /\ gone \subseteq Cascade(expired)
                           /\ \A r \in RowNames \ gone : \A c \in DOMAIN refers[r] :
                                created'[r] # Absent => refers'[r][c] \notin gone
<1>1. ASSUME RetentionInv, SweepCommits PROVE Ruled
  <2>1. /\ Sweeping /\ sweep.at > 9
        /\ \A r \in RowNames : created'[r] = IF r \in sweep.gone THEN Absent
                                   ELSE IF Table(r) = "audit_events" /\ ~Present(r) THEN day
                                   ELSE created[r]
        /\ \A r \in RowNames : \A c \in DOMAIN refers[r] :
             refers'[r][c] = IF refers[r][c] \in sweep.gone THEN NULL ELSE refers[r][c]
    BY <1>1, ClassesAre DEF SweepCommits, Sweeping, NoSweep
  <2>2. PICK s : s = sweep
    OBVIOUS
  <2>3. SweepShape(s) /\ SweepHolds(s)
    BY <1>1, <2>1, <2>2 DEF RetentionInv
  <2>4. gone = s.gone
    <3>1. s.gone \subseteq RowNames /\ \A r \in s.gone : Present(r)
      BY <2>3 DEF SweepShape, SweepHolds
    <3>2. \A r \in s.gone : created'[r] = Absent
      BY <2>1, <2>2, <3>1
    <3>3. day # Absent
      BY <1>1, RetentionAssumption DEF RetentionInv, RowsInv
    <3>4. \A r \in RowNames \ s.gone : Present(r) => created'[r] # Absent
      BY <2>1, <2>2 DEF Present
    <3>. QED
      BY <3>1, <3>2, <3>4
  <2>5. ASSUME ~s.dry PROVE Cascade(s.due) \subseteq s.gone
    <3>1. s.due \subseteq s.gone
      <4> SUFFICES ASSUME NEW r \in s.due PROVE r \in s.gone
        OBVIOUS
      <4>1. PICK k \in ToSet(Classes) : k.name = Table(r)
        BY <2>3 DEF SweepHolds, Past, Expired
      <4>2. PICK i \in 1..9 : k = Classes[i]
        BY ClassesAre
      <4>3. OfClass(r, i) /\ i < s.at
        BY <2>1, <2>2, <2>3, <4>1, <4>2 DEF OfClass, SweepShape
      <4>. QED
        BY <2>3, <2>5, <4>3 DEF SweepHolds, Passed
    <3>2. s.due \in SUBSET RowNames
      BY <2>3 DEF SweepShape
    <3>. QED
      BY <2>3, <3>1, <3>2, CascadeIs DEF SweepHolds
  <2>6. s.gone \subseteq Cascade(Past(s))
    <3>1. Past(s) \in SUBSET RowNames
      BY DEF Past
    <3>. QED
      BY <2>3, <3>1, CascadeIs DEF SweepHolds
  <2>7. Past(s) = expired
    BY <2>2 DEF Past
  <2>8. gone # {} => ~s.dry
    BY <2>3, <2>4 DEF SweepShape
  <2>9. \A r \in RowNames \ gone : \A c \in DOMAIN refers[r] : refers'[r][c] \notin gone
    <3>1. NULL \notin RowNames
      BY RetentionAssumption DEF RowNames
    <3>. QED
      BY <2>1, <2>2, <2>4, <3>1
  <2> HIDE DEF gone, expired
  <2>10. sweep.dry = s.dry /\ sweep.due = s.due
    BY <2>2
  <2>. QED
    BY <2>1, <2>2, <2>4, <2>5, <2>6, <2>7, <2>8, <2>9, <2>10
<1>2. ASSUME RetentionInv, [RetentionNext]_retentionVars, ~SweepCommits PROVE gone = {}
  <2>1. ASSUME NEW r \in RowNames, InsertRow(r) PROVE gone = {}
    <3>1. PICK d : d \in Observable(r) /\ created' = [created EXCEPT ![r] = d]
      BY <2>1 DEF InsertRow
    <3>2. d # Absent
      <4>1. day \in 0..LastDay
        BY <1>2 DEF RetentionInv, RowsInv
      <4>. QED
        BY <3>1, <4>1, RetentionAssumption DEF Observable
    <3>3. created = [q \in RowNames |-> created[q]]
      BY <1>2 DEF RetentionInv, RowsInv
    <3>. QED
      BY <3>1, <3>2, <3>3 DEF Present
  <2>2. UNCHANGED created => gone = {}
    BY DEF Present
  <2>3. UNCHANGED created \/ \E r \in RowNames : InsertRow(r)
    BY <1>2 DEF RetentionNext, SetWindow, NightFalls, Start, CountBucket, DeleteBucket, SkipLocked,
                SweepFails, retentionVars
  <2>. QED
    BY <2>1, <2>2, <2>3
<1>3. RetentionInv /\ [RetentionNext]_retentionVars => Ruled
  BY <1>1, <1>2
<1>4. RetentionInv /\ [RetentionNext]_retentionVars => [Ruled]_retentionVars
  <2> HIDE DEF Ruled
  <2>. QED
    BY <1>3
<1>. QED
  BY <1>4, RetentionInvariance, PTL DEF RetentionSpec, SweepsByRule
=============================================================================
