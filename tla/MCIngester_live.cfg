SPECIFICATION FairSpec
CONSTANTS
  e1 = e1
  e2 = e2
  e3 = e3
  r1 = r1
  r2 = r2
  s1 = s1
  Entry <- ThreeEntries
  Oversize <- None
  LongTogether <- None
  DiskFaults = FALSE
  Sub <- None
  Match <- NoMatch
  SubCap = 1
  Hijackable <- None
  Reading <- None
  Timestamp <- Times
  Service <- Services
  MaxAttempts = 2
  S3Faults = TRUE
  Level <- SomeDebug
  Size <- UnitSize
  MaxBytes = 1
  MinLevel = "info"
  FlushCap = 1
  UseWAL = FALSE
  Request <- TwoRequests
  Body <- SkipOne
  MaxEntriesPerReq = 2
  RateLimit = TRUE
  Crashes = FALSE
  MaxLives = 2
CHECK_DEADLOCK FALSE
PROPERTIES
  EventuallyShipped
  StopTerminates
