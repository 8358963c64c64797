SPECIFICATION FairSpec
CONSTANTS
  w1 = w1
  w2 = w2
  r1 = r1
  r2 = r2
  Workers <- TwoWorkers
  Requests <- TwoRequests
  MaxSignals = 2
CHECK_DEADLOCK FALSE
INVARIANTS
  InTimeIsServed
  OnlyLateListenersFail
  WorkersOutliveRequests
  WorkersGoFirst
  ShutdownInv
PROPERTIES
  ShutdownCompletes
