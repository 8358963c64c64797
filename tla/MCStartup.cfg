SPECIFICATION FairSpec
CONSTANTS
  p1 = p1
  p2 = p2
  Pods <- TwoPods
  MaxFaults = 2
  TwoDatabases = FALSE
  None = None
INVARIANTS
  ReadyMeansMigrated
  CleanStart
  ServesComplete
  StartupInv
PROPERTIES
  EventuallyReady
