SPECIFICATION FairSpec
CONSTANTS
  p1 = p1
  p2 = p2
  m = m
  r1 = r1
  r2 = r2
  Entries = {e1}
  Master = m
  Replicas <- TwoReplicas
  ReplicaAddr = r1
  Pods <- TwoPods
  Issuers <- OneIssuer
  MaxKeys = 2
  TTL = 2
  MaxHandling = 2
  MaxTokens = 1
  MaxFaults = 1
INVARIANTS
  SessionsEndInTime
  AccessInv
PROPERTIES
  RefusedStaysRefused
  RetiredKeysStayRetired
  RevocationTakesEffect
