SPECIFICATION Spec
CONSTANTS
  c1 = c1
  c2 = c2
  k1 = k1
  k2 = k2
  Clients = {c1, c2}
  Loads <- Renaming
  Keys = {k1, k2}
  Fields = {}
  Text = Text
  MaxInt = 2
  PerMs = 2
  MaxArrayLen = 100
INVARIANT RestartsClean
CHECK_DEADLOCK FALSE
