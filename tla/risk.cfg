SPECIFICATION Spec
CONSTANTS
  StartingEquity = 400
  FullRisk = 2
  Gain = 1
  Slippage = 1
  ReducedBp = 50
  MinimalBp = 75
  PassiveBp = 90
  HaltedBp = 100
  DailyLossBp = 125
  DrawdownBp = 150
  MaxLosses = 2
  CriticalLimit = 2
  MaxApprovals = 2
  MaxDays = 1
  MaxRestarts = 1
CHECK_DEADLOCK FALSE
INVARIANTS
  TypeOK
  LedgerAgrees
  BlownDayIsKilled
  ExecutorNeverLooser
  CooldownHonoured
  OneHardStop
PROPERTIES
  
  BreachClosesGate
