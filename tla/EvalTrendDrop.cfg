CONSTANTS
  agent1 = agent1
  agent2 = agent2
  Targets <- MCTargets
  Cards <- MCCards
  Baseline <- MCBaseline
  NoCard = NoCard
  tolerance = 0
  trend_window = 2
  decline_threshold = 2
  Whole = 4
  Nights = 3
SPECIFICATION TrendSpec
INVARIANT DropExceeds
CHECK_DEADLOCK FALSE
