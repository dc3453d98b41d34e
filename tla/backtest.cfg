SPECIFICATION Spec
CONSTANTS
  Bars = 6
  Lookback = 2
  Opens = {3, 5}
  Lows = {1, 3}
  Highs = {3, 5}
  Signals <- MCSignals
  Streak = 2
  CoolBars = 1
  Fee = 1
  Equity0 = 4000
INVARIANT KnowsOnlyThePast
CHECK_DEADLOCK FALSE
