CONSTANTS
  Node = {n1, n2}
  Transfer = {t1}
  NoOwner = NoOwner
  TTL = 1
  Front = {n1}
  Sweeper = {n1}
  Stoppable = {}
  System = System
  NoKey = NoKey
  Used = {System}
  MaxCalls = 1
  MaxFaults = 0
  MaxStalls = 0
  MaxOutages = 0
SPECIFICATION FairFleetSpec
INVARIANTS AtMostOneExecutor
