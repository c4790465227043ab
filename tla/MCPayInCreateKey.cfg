CONSTANTS
  c1 = c1
  c2 = c2
  x1 = x1
  x2 = x2
  k1 = k1
  s1 = s1
  s2 = s2
  i1 = i1
  i2 = i2
  i3 = i3
  None = None
  Client <- TwoClients
  ExternalId <- TwoExternalIds
  Key <- OneKey
  Slot <- TwoSlots
  Id <- ThreeIds
  MaxRequests = 3
  MaxErrors = 1
SPECIFICATION Spec
SYMMETRY Symmetry
INVARIANTS KeyNamesOnePayIn
CHECK_DEADLOCK FALSE
