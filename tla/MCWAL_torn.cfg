SPECIFICATION WALSpec
CONSTANTS
  e1 = e1
  e2 = e2
  e3 = e3
  e4 = e4
  Entry <- AllEntries
  Oversize <- NoEntries
  LongTogether <- NoEntries
  DiskFaults = TRUE
SYMMETRY SmallEntries
INVARIANTS
  LoggedSurvives
