SPECIFICATION ExporterSpec
CONSTANTS
  e1 = e1
  e2 = e2
  e3 = e3
  e4 = e4
  j1 = j1
  j2 = j2
  k1 = k1
  k2 = k2
  k3 = k3
  k4 = k4
  Entry <- FourEntries
  Job <- OneJob
  Criteria <- TwoSelections
  Bucket <- FourChunks
  Timestamp <- Times
  Service <- Services
  Labels <- Env
  Lower <- LowerCase
  DayLength = 10
  Oversize <- LongLine
  BatchSize = 2
  MaxConcurrent = 1
  MaxAttempts = 2
  S3Faults = FALSE
  OSFaults = FALSE
  Cancels = TRUE
CHECK_DEADLOCK FALSE
INVARIANTS
  CancelIsFinal
