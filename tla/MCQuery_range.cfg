SPECIFICATION QuerySpec
CONSTANTS
  e1 = e1
  e2 = e2
  e3 = e3
  e4 = e4
  e5 = e5
  Entry <- ThreeEntries
  Timestamp <- Times
  Service <- Services
  MaxAttempts = 1
  S3Faults = FALSE
  Labels <- LabelsOf
  Lower <- LowerCase
  DayLength = 10
  Oversize <- None
  Batches <- TwoBatches
  ReadFaults = FALSE
  Nested <- None
  DedupKeys <- Strings
  Level <- Levels
  APIKeys <- OneKey
  Requests <- OneRequest
  DefaultLimit = 5
  MaxLimit = 6
CHECK_DEADLOCK FALSE
INVARIANTS
  QueryCoversRange
