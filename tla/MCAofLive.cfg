SPECIFICATION FairSpec
CONSTANTS
  Clients = {c1, c2}
  Policy = "everysec"
  Faults = {"write", "sync", "dirsync", "swap"}
  MaxLacks = 1
  MaxRecords = 2
  MaxRewrites = 1
  MaxCrashes = 0
CHECK_DEADLOCK FALSE
INVARIANT CleanIsDurable
PROPERTIES HandlersReply RewriteEnds EventuallyDurable
