SPECIFICATION Spec
CONSTANTS
  s1 = s1
  s2 = s2
  None = None
  Signals <- TwoSignals
  Shorts <- SecondIsShort
  Lots = 2
  MaxExit = 3
  Kills = {k1}
  Modes <- OtherModes
CHECK_DEADLOCK FALSE
PROPERTIES
  EveryRequestDisposed
  
