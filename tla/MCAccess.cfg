CONSTANTS
  i1 = i1
  i2 = i2
  c1 = c1
  k1 = k1
  k2 = k2
  s1 = s1
  None = None
  Instance <- TwoInstances
  Client <- OneClient
  Key <- TwoKeys
  Slot <- OneSlot
  Bucket <- OneBucket
  TTL = 2
  Window = 2
  Limit = 2
  MaxLag = 1
SPECIFICATION Spec
INVARIANTS StaleBounded GoneStaysOut BurstBounded
