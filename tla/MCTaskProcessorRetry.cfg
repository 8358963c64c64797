SPECIFICATION FairSpec
CONSTANTS
  p1 = p1
  p2 = p2
  Pods <- TwoPods
  MaxLen = 2
  MaxFaults = 2
  None = None
PROPERTIES
  FailedIsRetried
