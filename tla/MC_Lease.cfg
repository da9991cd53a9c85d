CONSTANTS
  Node = {n1, n2}
  Transfer = {t1, t2}
  NoOwner = NoOwner
  TTL = 3
SPECIFICATION FairClientSpec
INVARIANTS ClientTypeOK KeysLiveTogether CreditMeansOwner TokenIsAlwaysOne
PROPERTIES ImplementsOwnership CrashedNodeLosesLeases
