SPECIFICATION Spec
CONSTANTS
  e1 = e1
  e2 = e2
  e3 = e3
  r1 = r1
  r2 = r2
  s1 = s1
  Entry <- TwoEntries
  Oversize <- None
  LongTogether <- None
  DiskFaults = FALSE
  Sub <- None
  Match <- NoMatch
  SubCap = 1
  Hijackable <- None
  Reading <- None
  Timestamp <- Times
  Service <- Services
  MaxAttempts = 2
  S3Faults = TRUE
  Level <- AllInfo
  Size <- UnitSize
  MaxBytes = 1
  MinLevel = ""
  FlushCap = 1
  UseWAL = TRUE
  Request <- TwoRequests
  Body <- Singles
  MaxEntriesPerReq = 2
  RateLimit = FALSE
  Crashes = TRUE
  MaxLives = 2
CHECK_DEADLOCK FALSE
INVARIANTS
  TypeOK
  LogCountsRecoverable
  LossAccounted
  BatchesDescribed
  IndexedChunksExist
PROPERTIES
  KeepsDurablePromises
  NothingVanishes
