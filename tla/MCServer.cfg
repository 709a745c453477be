SPECIFICATION Spec
CONSTANTS
  c1 = c1
  c2 = c2
  k1 = k1
  k2 = k2
  Clients = {c1, c2}
  Loads <- Passing
  Keys = {k1, k2}
  Fields = {"f1", "f2"}
  Text = Text
  MaxInt = 2
  PerMs = 2
  MaxArrayLen = 100
INVARIANTS RecoveredMatchesLive RestartsClean
