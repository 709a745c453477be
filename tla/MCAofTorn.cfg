SPECIFICATION Spec
CONSTANTS
  Clients = {c1, c2}
  Policy = "always"
  Faults = {"torn"}
  MaxLacks = 2
  MaxRecords = 2
  MaxRewrites = 0
  MaxCrashes = 2
SYMMETRY ClientSymmetry
CHECK_DEADLOCK FALSE
INVARIANT AckedNeverLost
