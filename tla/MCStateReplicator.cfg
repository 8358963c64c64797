SPECIFICATION FairSpec
CONSTANTS
  p1 = p1
  p2 = p2
  Pods <- TwoPods
  MaxLen = 2
  MaxFaults = 1
  Threshold = 1
  BootstrapBlock = FALSE
  Never = Never
  None = None
INVARIANTS
  ReplicatorInv
PROPERTIES
  EveryEventSeen
