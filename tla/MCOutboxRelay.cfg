SPECIFICATION FairSpec
CONSTANTS
  p1 = p1
  p2 = p2
  Pods <- TwoPods
  Events <- ThreeEvents
  BatchSize = 2
  MaxAttempts = 2
  Oversized <- LastTooBig
  MaxFaults = 3
  None = None
  Orphan = Orphan
INVARIANTS
  NoEventLost
  NoStranded
  OneOwner
  DuplicatesOnlyFromFaults
  CountedOnce
  RelayInv
PROPERTIES
  DeleteOnlyOwnBatch
  ImplementsDelivery
  EventuallyRelayed
