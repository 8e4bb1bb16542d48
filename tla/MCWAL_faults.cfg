SPECIFICATION WALSpec
CONSTANTS
  e1 = e1
  e2 = e2
  e3 = e3
  e4 = e4
  Entry <- AllEntries
  Oversize <- BigEntry
  LongTogether <- TornPairs
  DiskFaults = TRUE
SYMMETRY SmallEntries
INVARIANTS
  TornWriteContained
