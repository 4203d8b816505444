----------------------------- MODULE EvalTrend -----------------------------
(***************************************************************************)
(* The nightly evaluation: NightlyRunner scores every agent and compares   *)
(* the scorecard with its baseline, RegressionAlertEmitter puts it on      *)
(* record in the trend store and raises the alerts.  The process may stop  *)
(* between two agents and between two alerts; the report may then be       *)
(* consumed again, or the next night comes.                                *)
(***************************************************************************)
EXTENDS Integers, Sequences, FiniteSets, SequencesExt, FiniteSetsExt

CONSTANTS
  Targets,             \* the agents, as a sequence
  Cards,               \* agent :> the scorecards it may get: [dimension -> [mean,
                       \* pass_rate]], rates in parts of Whole
  Baseline,            \* agent :> the pinned scorecard; NoCard: none that can be read
  NoCard,
  tolerance, trend_window, decline_threshold,
  Whole,               \* the rate 1.0
  Nights               \* bound: nightly runs

(* A night has one target for each agent: of two datasets an agent would   *)
(* have but one trend.                                                     *)
ASSUME TrendAssumption ==
  /\ {tolerance, decline_threshold, Whole, Nights} \subseteq Nat
  /\ trend_window \in Nat \ {0}
  /\ Targets \in Seq(Range(Targets)) /\ IsInjective(Targets)
  /\ \A a \in Range(Targets) : \A card \in Cards[a] \cup ({Baseline[a]} \ {NoCard}) :
       \A d \in DOMAIN card : {card[d].mean, card[d].pass_rate} \subseteq 0..Whole

VARIABLES
  stage,               \* "rest", "evaluating", "consuming" or "emitting"
  turn,                \* results so far, or agents consumed
  results,             \* the report: the scorecards by target
  trends,              \* index.jsonl of each agent: [finished_at, overall_pass_rate]
  alerts,              \* raised and not yet emitted
  delivered,           \* emitted
  night,               \* runs that have finished
  scored,              \* history: agent :> its scorecard of each night
  unbroken, ended         \* history: nights consumed in one go, nights whose alerts were
                       \* all emitted in the end

reportVars == <<stage, turn, results, alerts>>
trendVars  == <<reportVars, trends, delivered, night, scored, unbroken, ended>>

Agents == Range(Targets)

TrendInit ==
  /\ stage = "rest" /\ turn = 0 /\ results = <<>> /\ alerts = <<>>
  /\ trends = [a \in Agents |-> <<>>]
  /\ delivered = {}
  /\ night = 0
  /\ scored = [a \in Agents |-> <<>>]
  /\ unbroken = {} /\ ended = {}

-----------------------------------------------------------------------------
(* BaselineGate.compare(): dimensions that only one of the two has are     *)
(* listed, and no regression.  (A definition whose name ends in _Mutant is *)
(* the next one with a slip in it and no part of the model.)               *)
Worse_Mutant(base, branch) == branch.mean - base.mean < -tolerance
Worse(base, branch) ==
  branch.mean - base.mean < -tolerance \/ branch.pass_rate - base.pass_rate < -tolerance

has_regressions(a, card) ==
  /\ Baseline[a] # NoCard
  /\ \E d \in DOMAIN Baseline[a] \cap DOMAIN card : Worse(Baseline[a][d], card[d])

(* The mean of the dimensions' pass rates. *)
overall_pass_rate(card) ==
  IF DOMAIN card = {} THEN 0
  ELSE MapThenSumSet(LAMBDA d : card[d].pass_rate, DOMAIN card) \div Cardinality(DOMAIN card)

(* _detect_decline() over the last entries of the agent's index. *)
history(entries) ==
  IF Len(entries) <= trend_window THEN entries
  ELSE SubSeq(entries, Len(entries) - trend_window + 1, Len(entries))

detect_decline(entries) ==
  LET rates == [i \in DOMAIN history(entries) |-> history(entries)[i].overall_pass_rate] IN
  /\ Len(rates) >= trend_window
  /\ \A i \in 1..(Len(rates) - 1) : rates[i + 1] < rates[i]
  /\ rates[1] - rates[Len(rates)] >= decline_threshold

-----------------------------------------------------------------------------
StartNightly ==
  /\ stage = "rest" /\ night < Nights
  /\ stage' = "evaluating" /\ turn' = 0 /\ results' = <<>>
  /\ UNCHANGED <<alerts, trends, delivered, night, scored, unbroken, ended>>

(* One agent's dataset run: EvalRunner over its cases, and the gate. *)
RunOne ==
  /\ stage = "evaluating" /\ turn < Len(Targets)
  /\ \E card \in Cards[Targets[turn + 1]] : results' = Append(results, card)
  /\ turn' = turn + 1
  /\ UNCHANGED <<stage, alerts, trends, delivered, night, scored, unbroken, ended>>

(* A missing dataset, a case that is no JSON or an agent that raises ends  *)
(* the run for all of them.                                                *)
NightlyFails ==
  /\ stage = "evaluating"
  /\ stage' = "rest" /\ turn' = 0 /\ results' = <<>>
  /\ UNCHANGED <<alerts, trends, delivered, night, scored, unbroken, ended>>

FinishNightly ==
  /\ stage = "evaluating" /\ turn = Len(Targets)
  /\ night' = night + 1
  /\ scored' = [a \in Agents |-> Append(scored[a], results[CHOOSE i \in DOMAIN Targets : Targets[i] = a])]
  /\ unbroken' = unbroken \cup {night + 1}
  /\ stage' = "consuming" /\ turn' = 0
  /\ UNCHANGED <<results, alerts, trends, delivered, ended>>

(* consume(), one result: on record, then whatever it raises. *)
ConsumeOne ==
  LET a == Targets[turn + 1]
      card == results[turn + 1]
      entries == Append(trends[a], [finished_at |-> night,
                                    overall_pass_rate |-> overall_pass_rate(card)])
      raise(kind, holds) == IF holds THEN <<[kind |-> kind, agent |-> a, night |-> night]>> ELSE <<>>
  IN /\ stage = "consuming" /\ turn < Len(Targets)
     /\ trends' = [trends EXCEPT ![a] = entries]
     /\ alerts' = alerts \o raise("gate_regression", has_regressions(a, card))
                         \o raise("trend_decline", detect_decline(entries))
     /\ turn' = turn + 1
     /\ UNCHANGED <<stage, results, delivered, night, scored, unbroken, ended>>

EmitAlerts ==
  /\ stage = "consuming" /\ turn = Len(Targets)
  /\ stage' = "emitting"
  /\ UNCHANGED <<turn, results, alerts, trends, delivered, night, scored, unbroken, ended>>

Emit ==
  /\ stage = "emitting" /\ alerts # <<>>
  /\ delivered' = delivered \cup {Head(alerts)}
  /\ alerts' = Tail(alerts)
  /\ UNCHANGED <<stage, turn, results, trends, night, scored, unbroken, ended>>

Consumed ==
  /\ stage = "emitting" /\ alerts = <<>>
  /\ stage' = "rest"
  /\ ended' = ended \cup {night}
  /\ UNCHANGED <<turn, results, alerts, trends, delivered, night, scored, unbroken>>

(* The process stops, or the sink raises: what was raised is gone, what    *)
(* was put on record stays.                                                *)
ConsumeStops ==
  /\ stage \in {"consuming", "emitting"}
  /\ stage' = "rest" /\ alerts' = <<>>
  /\ unbroken' = unbroken \ {night}
  /\ UNCHANGED <<turn, results, trends, delivered, night, scored, ended>>

ConsumeAgain ==
  /\ stage = "rest" /\ night > 0 /\ night \notin unbroken \cup ended
  /\ results # <<>>
  /\ \A a \in Agents : Len(trends[a]) <= Nights          \* bound: entries
  /\ stage' = "consuming" /\ turn' = 0
  /\ UNCHANGED <<results, alerts, trends, delivered, night, scored, unbroken, ended>>

TrendNext ==
  \/ StartNightly \/ RunOne \/ NightlyFails \/ FinishNightly
  \/ ConsumeOne \/ EmitAlerts \/ Emit \/ Consumed \/ ConsumeStops \/ ConsumeAgain

TrendSpec == TrendInit /\ [][TrendNext]_trendVars

-----------------------------------------------------------------------------
TrendTypeOK ==
  /\ stage \in {"rest", "evaluating", "consuming", "emitting"}
  /\ turn \in 0..Len(Targets) /\ night \in 0..Nights
  /\ Len(results) <= Len(Targets)
  /\ \A i \in DOMAIN results : results[i] \in Cards[Targets[i]]
  /\ \A a \in Agents : Len(scored[a]) = night

Told(kind, a, n) == [kind |-> kind, agent |-> a, night |-> n] \in delivered

(* The agent's rate has gone down from each of the last trend_window       *)
(* nights to the next, by decline_threshold or more in all: what the code  *)
(* asks, which is less than its docstring does (see DropExceeds).          *)
Declined(a, n) ==
  LET rate(m) == overall_pass_rate(scored[a][m]) IN
  /\ n >= trend_window
  /\ \A m \in (n - trend_window + 1)..(n - 1) : rate(m + 1) < rate(m)
  /\ rate(n - trend_window + 1) - rate(n) >= decline_threshold

(* Some dimension that both scorecards have is worse than the baseline.    *)
Regressed(a, n) ==
  LET below(x, y) == x + tolerance < y IN
  Baseline[a] # NoCard /\ \E d \in DOMAIN Baseline[a] \cap DOMAIN scored[a][n] :
    \/ below(scored[a][n][d].mean, Baseline[a][d].mean)
    \/ below(scored[a][n][d].pass_rate, Baseline[a][d].pass_rate)

(* When the alerts of a night have gone out, each agent that regressed,    *)
(* and no other, has been reported, however often that took; and so has    *)
(* each agent that declined, if all the nights in the window were consumed *)
(* in one go.  A night that was consumed again has two entries, between    *)
(* which the rate does not go down, and hides a decline ("creates two      *)
(* index entries").                                                        *)
AlertsTold ==
  \A a \in Agents, n \in ended :
    /\ Told("gate_regression", a, n) <=> Regressed(a, n)
    /\ (n - trend_window + 1)..n \subseteq unbroken =>
         (Told("trend_decline", a, n) <=> Declined(a, n))

(* The docstring of trend.py has an agent reported whose rate went down    *)
(* "by more than decline_threshold", and that of the tests "a strict       *)
(* decline > threshold".  The code leaves out only a drop below the        *)
(* threshold: one that is exactly as large is reported too, which refutes  *)
(* both.                                                                   *)
DropExceeds ==
  \A a \in Agents, n \in ended :
    (n - trend_window + 1)..n \subseteq unbroken /\ Told("trend_decline", a, n) =>
      overall_pass_rate(scored[a][n - trend_window + 1]) - overall_pass_rate(scored[a][n])
        > decline_threshold
=============================================================================
