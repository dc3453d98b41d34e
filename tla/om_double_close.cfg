SPECIFICATION Spec
CONSTANTS
  s1 = s1
  s2 = s2
  None = None
  Signals <- TwoSignals
  Shorts <- SecondIsShort
  Lots = 1
  MaxExit = 2
  Kills = {}
  Modes <- LiveMode
CHECK_DEADLOCK FALSE
INVARIANT
  NoDoubleClose
