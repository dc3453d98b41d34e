SPECIFICATION Spec
CONSTANTS
  MaxTs = 3
  Rows <- MCRows
  Late = 1
  PageSize = 1
  Train = 1
  Test = 1
  StepLen = 1
  Folds = 2
  MinTrades = 1
  Mids = {4}
  Levels = {3, 5}
  Prices = {1, 3, 5, 7}
  Fresh = 1
  Stale = 1
  DayLen = 2
  Fee = 1
  RewardRisk = 1
  Equity0 = 10
INVARIANTS
  RowsReplayed
  BooksBalance
CHECK_DEADLOCK FALSE
