SPECIFICATION Spec
CONSTANTS
  p1 = p1
  p2 = p2
  Pods <- TwoPods
  MaxFaults = 0
  TwoDatabases = TRUE
  None = None
INVARIANTS
  ReadyMeansMigrated
