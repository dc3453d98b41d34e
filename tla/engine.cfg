SPECIFICATION EngineSpec
CONSTANTS
  Clients = {c1, c2}
  Pages = {"lob"}
  Reports = {r1}

  
PROPERTY StreamReturns
CHECK_DEADLOCK FALSE
