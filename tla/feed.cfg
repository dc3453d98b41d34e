SPECIFICATION Spec
CONSTANTS
  MaxId = 6
  Tolerance = 2
  GapLimit = 2
  ConsecLimit = 2
  PendingCap = 2
  RawSize = 1
  LobSize = 1
INVARIANTS
  TypeOK
  GateSeesTrustedBook
  UnseededIsNotSynced
  BooksAgree
PROPERTIES
  DeadFeedNoticed
