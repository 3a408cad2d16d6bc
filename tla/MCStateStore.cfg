SPECIFICATION Spec
CONSTANTS
  Calls = {c1, c2}
  Absent = Absent
  Torn = Torn
  MaxSnapshots = 1
  MaxVersion = 3
  MaxCrashes = 2
  MaxFaults = 2
  MaxDamage = 2
SYMMETRY Symmetry
INVARIANTS AckedIsLoaded HistorySurvives OneDamageCostsOneSave
PROPERTY SavesAreAtomic
CHECK_DEADLOCK FALSE
