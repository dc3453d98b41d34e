SPECIFICATION TelemetrySpec
CONSTANTS
  Sigs = {t1, t2, r1}
  Tradable = {t1, t2}
  QueueSize = 1
  Batch = 2
  MaxBuf = 2
  MaxStops = 2
  t1 = t1
  t2 = t2
  r1 = r1
INVARIANT RecordsAccountedFor
PROPERTIES CommittedStays RecordsArrive
CHECK_DEADLOCK FALSE
