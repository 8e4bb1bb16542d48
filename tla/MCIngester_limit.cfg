SPECIFICATION Spec
CONSTANTS
  e1 = e1
  e2 = e2
  e3 = e3
  r1 = r1
  r2 = r2
  s1 = s1
  Entry <- ThreeEntries
  Oversize <- None
  LongTogether <- None
  DiskFaults = FALSE
  Sub <- OneSub
  Match <- MatchFirst
  SubCap = 1
  Hijackable <- OneSub
  Reading <- None
  Timestamp <- Times
  Service <- Services
  MaxAttempts = 1
  S3Faults = FALSE
  Level <- AllInfo
  Size <- OneOneThree
  MaxBytes = 2
  MinLevel = ""
  FlushCap = 1
  UseWAL = FALSE
  Request <- TwoRequests
  Body <- PairAndOne
  MaxEntriesPerReq = 2
  RateLimit = FALSE
  Crashes = FALSE
  MaxLives = 1
CHECK_DEADLOCK FALSE
INVARIANTS
  TailShowsAccepted
  BatchesDisjoint
  BatchesWithinLimit
