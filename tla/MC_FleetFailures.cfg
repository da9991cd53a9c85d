CONSTANTS
  Node = {n1, n2}
  Transfer = {t1}
  NoOwner = NoOwner
  TTL = 1
  Front = {n1}
  Sweeper = {n1}
  Stoppable = {n1}
  System = System
  NoKey = NoKey
  Used = {System, t1}
  MaxCalls = 1
  MaxFaults = 1
  MaxStalls = 1
  MaxOutages = 1
SPECIFICATION FairFleetSpec
PROPERTIES SplitBrainEnds OrphanLeaseEnds ZombieNoticed
