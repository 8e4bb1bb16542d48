SPECIFICATION BrokerSpec
CONSTANTS
  e1 = e1
  e2 = e2
  e3 = e3
  s1 = s1
  s2 = s2
  s3 = s3
  Entry <- ThreeEntries
  Sub <- OneSub
  Match <- Filters
  SubCap = 2
  Hijackable <- OneSub
  Reading <- OneSub
CHECK_DEADLOCK FALSE
PROPERTIES
  TailCleansUp
