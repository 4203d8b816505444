------------------------- MODULE PromptExperiments --------------------------
(***************************************************************************)
(* PromptRegistry and ExperimentSelector of one agent.  The registry comes *)
(* with the code, so that a deploy replaces it, and a selector is made for *)
(* it; an experiment is edited, ramped up and switched off between two     *)
(* selections.  A selection keeps nothing: what a caller gets depends on   *)
(* the hash of the experiment's id and its key alone, and on what is       *)
(* configured by then.                                                     *)
(***************************************************************************)
EXTENDS Integers, Sequences, FiniteSets, FiniteSetsExt, Functions

CONSTANTS
  Builds,              \* registries: sets of versions, each <<core, tag>>
  Designs,             \* what an experiment may be made with: sequences of
                       \* [name, version, weight], weights in hundredths
  Subjects,            \* assignment keys
  Bucket,              \* key :> the hundredth of [0, 1) its hash falls into
  MaxAssigned,         \* bound: selections
  Newest               \* no fallback version: the latest one then

ASSUME ExperimentAssumption ==
  /\ Bucket \in [Subjects -> 0..99] /\ MaxAssigned \in Nat
  /\ \A b \in Builds : IsFiniteSet(b) /\ b \subseteq Nat \X Nat /\ Newest \notin b
  /\ \A vs \in Designs : vs \in Seq(Range(vs))

VARIABLES
  build,               \* the versions the agent comes with
  fallback_version,
  variants, switched_on,    \* the experiment
  assigned             \* history: assignments, each with the variants it chose from

experimentVars == <<build, fallback_version, variants, switched_on, assigned>>

(* __post_init__(): what an experiment is not refused for. *)
weight(vs, is) == SumFunctionOnSet([i \in is |-> vs[i].weight], is)

WellFormed(vs) ==
  /\ vs # <<>>
  /\ \A i, j \in DOMAIN vs : vs[i].name = vs[j].name => i = j
  /\ weight(vs, DOMAIN vs) \in 99..101
  /\ \A i \in DOMAIN vs : vs[i].weight \in 0..100

(* The order of parse_semver(): a release, whose tag is "~", comes after   *)
(* its pre-releases.  Tags are numbered in their order.                    *)
Before(v, w) == v[1] < w[1] \/ (v[1] = w[1] /\ v[2] < w[2])

latest == CHOOSE v \in build : \A w \in build : w = v \/ Before(w, v)

(* Construction of a selector: the version to fall back on must be there. *)
HasFallback(b, v) == v = Newest \/ v \in b

(* A registry may be empty; no experiment is there yet. *)
ExperimentInit ==
  /\ build = {} /\ fallback_version = Newest
  /\ variants = <<>> /\ switched_on = FALSE
  /\ assigned = <<>>

Deploy(b, v) ==
  /\ HasFallback(b, v)
  /\ build' = b /\ fallback_version' = v
  /\ UNCHANGED <<variants, switched_on, assigned>>

Configure(vs, on) ==
  /\ WellFormed(vs)
  /\ variants' = vs /\ switched_on' = on
  /\ UNCHANGED <<build, fallback_version, assigned>>

-----------------------------------------------------------------------------
(* The first variant whose cumulated weight is beyond the bucket; the last *)
(* one if the weights stop short of it.  (A definition whose name ends in  *)
(* _Mutant is the next one with a slip in it and no part of the model.)    *)
Chosen_Mutant(vs, bucket) ==
  LET beyond == {i \in DOMAIN vs : bucket <= weight(vs, 1..i)}
  IN  IF beyond = {} THEN Len(vs) ELSE Min(beyond)
Chosen(vs, bucket) ==
  LET beyond == {i \in DOMAIN vs : bucket < weight(vs, 1..i)}
  IN  IF beyond = {} THEN Len(vs) ELSE Min(beyond)

(* No variant (0), and the version to fall back on: without any version    *)
(* there is no assignment.                                                 *)
fallback(key) ==
  /\ fallback_version # Newest \/ build # {}
  /\ assigned' = Append(assigned,
       [key |-> key, of |-> variants, variant |-> 0,
        version |-> IF fallback_version = Newest THEN latest ELSE fallback_version])

select(key) ==
  LET i == Chosen(variants, Bucket[key])
  IN /\ variants # <<>> /\ Len(assigned) < MaxAssigned
     /\ IF switched_on /\ variants[i].version \in build
          THEN assigned' = Append(assigned,
                 [key |-> key, of |-> variants, variant |-> i, version |-> variants[i].version])
          ELSE fallback(key)
     /\ UNCHANGED <<build, fallback_version, variants, switched_on>>

ExperimentNext ==
  \/ \E b \in Builds, v \in UNION Builds \cup {Newest} : Deploy(b, v)
  \/ \E vs \in Designs, on \in BOOLEAN : Configure(vs, on)
  \/ \E key \in Subjects : select(key)

ExperimentSpec == ExperimentInit /\ [][ExperimentNext]_experimentVars

-----------------------------------------------------------------------------
ExperimentTypeOK ==
  /\ build \in Builds \cup {{}} /\ HasFallback(build, fallback_version)
  /\ variants \in Designs \cup {<<>>} /\ switched_on \in BOOLEAN
  /\ \A n \in DOMAIN assigned : /\ assigned[n].key \in Subjects /\ assigned[n].of \in Designs
                                /\ assigned[n].variant \in 0..Len(assigned[n].of)
                                /\ assigned[n].version \in UNION Builds

Arms(n) == [i \in DOMAIN assigned[n].of |-> assigned[n].of[i].name]
Reach(n, i) == weight(assigned[n].of, 1..i)

(* "The same caller always sees the same variant", whatever is deployed or *)
(* switched off in between; and when the same variants are weighed anew, a *)
(* caller only ever moves with the weight: a ramp that takes from the      *)
(* variants in front never moves anybody back to them.                     *)
NeverMovedBack ==
  \A n, l \in DOMAIN assigned :
    /\ assigned[n].key = assigned[l].key /\ Arms(n) = Arms(l)
    /\ assigned[n].variant > 0 /\ assigned[l].variant > 0
    /\ \A i \in DOMAIN Arms(n) : Reach(l, i) <= Reach(n, i)
    => assigned[l].variant >= assigned[n].variant

(* Of a hundred callers spread evenly each variant gets its weight, up to  *)
(* the one hundredth by which the weights may miss the whole.              *)
SharesKept ==
  \A i \in DOMAIN variants :
    Cardinality({b \in 0..99 : Chosen(variants, b) = i}) - variants[i].weight \in -1..1

AssignmentsKept == NeverMovedBack /\ SharesKept
=============================================================================
