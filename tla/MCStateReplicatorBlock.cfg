SPECIFICATION FairSpec
CONSTANTS
  p1 = p1
  p2 = p2
  Pods <- OnePod
  MaxLen = 1
  MaxFaults = 0
  Threshold = 1
  BootstrapBlock = TRUE
  Never = Never
  None = None
PROPERTIES
  StaleBlocks
