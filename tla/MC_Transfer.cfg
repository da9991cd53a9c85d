CONSTANTS
  DPeer = {"seed", "leech"}
  NumPieces = 2
  BlocksPerPiece = 2
  BlocksInLast = 1
  BitfieldOf <- MCBits
  LaterOf <- MCLater
  MaxActive = 2
  MaxTrouble = 1
  MaxStarts = 2
  MaxStops = 2
  UPeer = {"a", "b"}
  UPiece = {1}
  MaxUploads = 1
  UnchokeSlots = 1
  MaxRuns = 2
  MaxWaiting = 1
  Client = {"t", "u"}
  Ticks = 2
  Limit = {0, 2, 4}
  BlockSize = 2
  MaxChanges = 2
  Tracker = {"x", "y"}
  Udp = {"y"}
  InnerRetries = 1
  OuterRetries = 1
  WarnAt = 1
  ErrorAt = 1
  MaxCalls = 2
  MaxStopped = 1
SPECIFICATION Spec
INVARIANTS TransferTypeOK PendingIsMissing  ChokeReachesAll NoOvertaking
PROPERTIES OfferedPieceArrives CompletionReported PassingStatesEnd QueueMoves BlockSent AnnouncesEnd
CHECK_DEADLOCK FALSE
