SPECIFICATION Spec
CONSTANTS
  Prices = {2, 6}
  Mids = {3, 5, 7}
  Floor = 1
  Thresholds = {2, 4}
  MinDistance = 2
  MaxDistance = 4
  Persist = 1
  Fresh = 1
  ArmTtl = 1
  Stale = 0
  Interval = 1
  MaxDelta = 1
  MicroSize = 1
  OmSize = 1
INVARIANTS TypeOK ArmedWallsOnly 
PROPERTY DetectorResumes
