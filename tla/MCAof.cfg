SPECIFICATION Spec
CONSTANTS
  Clients = {c1, c2}
  Policy = "always"
  Faults = {"power", "torn", "write", "sync", "dirsync", "swap"}
  MaxLacks = 2
  MaxRecords = 3
  MaxRewrites = 1
  MaxCrashes = 2
SYMMETRY ClientSymmetry
CHECK_DEADLOCK FALSE
INVARIANTS AckedSurvives RefusesOnlyEmpty CanonicalComplete HeaderGates
PROPERTY CanonicalNeverShrinks
