------------------------------- MODULE MCTrend -------------------------------
(***************************************************************************)
(* Two evaluated agents, of which one has no baseline, and scorecards      *)
(* whose overall rates are 4, 3 and 1: a night may lie below the last one  *)
(* by less than a threshold of 2, by exactly as much, and by more.         *)
(***************************************************************************)
EXTENDS EvalTrend, TLC

CONSTANTS agent1, agent2

(* A scorecard that is as good as the baseline, one that passes less, and  *)
(* one that is worse and lacks a dimension.                                *)
Rated(mean, pass_rate) == [mean |-> mean, pass_rate |-> pass_rate]
Good == ("api" :> Rated(4, 4)) @@ ("ui" :> Rated(4, 4))
Fair == ("api" :> Rated(4, 2)) @@ ("ui" :> Rated(4, 4))
Poor == "api" :> Rated(2, 1)

MCTargets  == <<agent1, agent2>>
MCCards    == (agent1 :> {Good, Fair, Poor}) @@ (agent2 :> {Fair})
MCBaseline == (agent1 :> Good) @@ (agent2 :> NoCard)
=============================================================================
