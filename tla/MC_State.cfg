CONSTANTS
  Saver = {s1, s2}
  MaxBackups = 3
  Absent = Absent
  Empty = Empty
  Garbled = Garbled
  MaxVersion = 3
  MaxCrashes = 2
  MaxDamage = 2
  MaxDisk = 2
SYMMETRY Alike
SPECIFICATION StateSpec
INVARIANTS StateTypeOK SavedSurvives
PROPERTIES NeverGoesBack
