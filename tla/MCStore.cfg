SPECIFICATION FairSpec
CONSTANTS
  k1 = k1
  k2 = k2
  k3 = k3
  r1 = r1
  Keys = {k1, k2, k3}
  f1 = f1
  f2 = f2
  Fields = {f1, f2}
  Text = Text
  MaxInt = 1
  PerMs = 2
  MaxArrayLen = 6
  Loads <- Passing
  Batch = 2
INVARIANTS ScanComplete FieldOrderExact SnapshotRoundTrip
PROPERTIES EvictionInvisible WritesStayPut ExpiredReaped
