SPECIFICATION Spec
CONSTANTS
  s1 = s1
  s2 = s2
  None = None
  Signals <- TwoSignals
  Shorts <- SecondIsShort
  Lots = 1
  MaxExit = 2
  Kills = {k1}
  Modes <- LiveMode
CHECK_DEADLOCK FALSE
INVARIANTS
  TypeOK
  ClosersMatchPosition
  NoSilentForget
  ClosedMeansExited
  ClosedIsBooked
  ClosersExclude
  BookedOncePerExit
PROPERTIES
  DeferredAlertActedOn
  ImplementsSlot
