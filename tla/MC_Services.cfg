CONSTANTS
  Peer = {"a", "b"}
  IpOf <- MCIp
  PieceOf <- MCPiece
  MaxPerIp = 1
  MaxTotal = 3
  MaxStrikes = 1
  MaxFailures = 1
  MaxDials = 3
  Proc = {"home", "other"}
  Home = "home"
  Chunk = {1, 2}
  MaxTransfers = 2
  MaxMishaps = 2
  MaxBuffer = 2
  MaxEvents = 3
  MaxFaults = 2
  MaxInstances = 2
  MaxFlights = 2
  Request = {"r1", "r2", "r3"}
  MaxWrongs = 2
  NumCold = 3
  MaxAttempts = 3
  MaxMalfunctions = 3
  EPiece = {e1, e2}
  BatchSize = 2
  MaxAdds = 2
  MaxRemovals = 2
  MaxRestarts = 1
  PieceLength = 2
  NumFiles = 2
  MaxLength = 4
  MaxDrifted = 0
  DNode = {"n1", "n2"}
  BootNode = {"n1"}
  Distance <- MCDistance
  Knows <- MCKnows
  TableSize = 1
  Alpha = 2
  K = 2
  MaxIterations = 3
  Tid = {0, 1}
  MaxQueries = 3
SPECIFICATION Spec
SYMMETRY Alike
CONSTRAINT Uncrossed
INVARIANTS ServicesTypeOK PoolCountsHold VerificationSticks NothingVanishes RunsOnce ColdStartHonest SelectedAreWhole  OneTorrent NobodyWaitsForEver
CHECK_DEADLOCK FALSE
