CONSTANTS
  Base <- MCBase
  Inputs <- MCInputs
  Unscored = Unscored
SPECIFICATION RiskSpec
INVARIANT CriticalBlocks
