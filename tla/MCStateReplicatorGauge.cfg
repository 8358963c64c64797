SPECIFICATION FairSpec
CONSTANTS
  p1 = p1
  p2 = p2
  Pods <- OnePod
  MaxLen = 1
  MaxFaults = 0
  Threshold = 1
  BootstrapBlock = FALSE
  Never = Never
  None = None
PROPERTIES
  GaugeMeansStale
