SPECIFICATION Spec
CONSTANTS
  Changes <- FourChanges
  MaxTrades = 1
  Qtys = {0, 1, 2}
  FlushRecords = 2
  MaxBuffer = 2
  Attempts = 2
INVARIANTS
  BookIsTheExchanges
PROPERTY RowsAreKept
