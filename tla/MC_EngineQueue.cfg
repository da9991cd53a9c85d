CONSTANTS
  Torrent = {t1, t2}
  MaxLimit = 1
  MaxTime = 0
SPECIFICATION EngineSpec
INVARIANT CompletionFreesSlot
