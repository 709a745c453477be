SPECIFICATION Spec
CONSTANTS
  n1 = n1
  n2 = n2
  n3 = n3
  Nodes = {n1, n2, n3}
  c1 = c1
  c2 = c2
  Clients = {c1, c2}
  None = None
  k1 = k1
  k2 = k2
  Keys = {k1, k2}
  Fields = {}
  Text = Text
  MaxInt = 3
  PerMs = 1
  MaxArrayLen = 100
  Workload <- Mixed
  Advertised = {n1, n2, n3}
  MaxTerm = 2
  MaxCalls = 2
  MaxRedirects = 1
  Clock = {1, 2}
  ProposeClock = {1}
SYMMETRY Symmetry
INVARIANTS
  TypeOK
  ReplyCaptured
  IncrAcksExact
  CallsOnce
  AckedInLeader
  ReplicasAgree
  WaitTruthful
CHECK_DEADLOCK FALSE
