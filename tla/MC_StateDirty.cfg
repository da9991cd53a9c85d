CONSTANTS
  Saver = {s1, s2}
  MaxBackups = 2
  Absent = Absent
  Empty = Empty
  Garbled = Garbled
  MaxVersion = 2
  MaxCrashes = 0
  MaxDamage = 0
  MaxDisk = 0
SPECIFICATION StateSpec
INVARIANTS CleanIsSaved
