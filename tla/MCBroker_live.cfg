SPECIFICATION BrokerSpec
CONSTANTS
  e1 = e1
  e2 = e2
  e3 = e3
  s1 = s1
  s2 = s2
  s3 = s3
  Entry <- ThreeEntries
  Sub <- ThreeSubs
  Match <- Filters
  SubCap = 1
  Hijackable <- TwoSubs
  Reading <- OneSub
CHECK_DEADLOCK FALSE
INVARIANTS
  TailFaithful
PROPERTIES
  TailDelivers
