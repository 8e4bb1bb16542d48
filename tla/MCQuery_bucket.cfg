SPECIFICATION QuerySpec
CONSTANTS
  e1 = e1
  e2 = e2
  e3 = e3
  e4 = e4
  e5 = e5
  Entry <- FiveEntries
  Timestamp <- Times
  Service <- Services
  MaxAttempts = 1
  S3Faults = FALSE
  Labels <- LabelsOf
  Lower <- LowerCase
  DayLength = 10
  Oversize <- LongLine
  Batches <- FourBatches
  ReadFaults = TRUE
  Nested <- Slashed
  DedupKeys <- Strings
  Level <- Levels
  APIKeys <- OneKey
  Requests <- ManyRequests
  DefaultLimit = 5
  MaxLimit = 6
CHECK_DEADLOCK FALSE
INVARIANTS
  QueryTypeOK
  QuerySound
  QueryComplete
  StatsAdmitGaps
PROPERTIES
  AbandonedQueryEnds
