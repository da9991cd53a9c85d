CONSTANTS
  Torrent = {t1, t2, t3, t4}
  MaxLimit = 2
  MaxTime = 2
SYMMETRY Interchangeable
SPECIFICATION QueueSpec
INVARIANTS QueueTypeOK InOnePlace BestFirst
PROPERTIES NeverOverfills FreedSlotIsUsed
