SPECIFICATION FairSpec
CONSTANTS
  r1 = r1
  r2 = r2
  r3 = r3
  r4 = r4
  Requests <- FourRequests
  Max = 2
  MaxFaults = 1
CHECK_DEADLOCK FALSE
PROPERTIES
  WaitingHelps
