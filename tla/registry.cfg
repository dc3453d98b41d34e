SPECIFICATION Spec
CONSTANTS
  Operator = operator
  Trader = trader
  Tabs = {tab}
  Names = {n1, n2}
  SafeName <- OwnFiles
  Metrics <- ThreeBacktests
  PaperMetrics <- PaperTrading
  NaN = NaN
  MinTrades = 50
  MinSharpe = 10
  MaxDrawdown = 15
  MinProfit = 13
  MinBuild = 10
  MinWeeks = 2
  MinPaperTrades = 20
  MaxSpecs = 2
SYMMETRY NameSymmetry
INVARIANTS
  RowLeads
PROPERTIES
  StatusClimbs
