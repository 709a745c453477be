SPECIFICATION FairSpec
CONSTANTS
  c1 = c1
  c2 = c2
  Conns = {c1, c2}
  Flags <- MCFlags
  Calls <- MCCalls
  MaxCalls = 2
  MaxApplied = 1
CHECK_DEADLOCK FALSE
INVARIANTS AckedLogged GaugesExact SafeStart CleanExit
PROPERTIES HelloAtomic ShutdownEnds
