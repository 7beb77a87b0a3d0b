CONSTANTS
  Ids = {i1, i2, i3, i4}
  Uploaders = {u1, u2, u3}
  NoUploader = none
SPECIFICATION PoolSpec
INVARIANTS
  IdsAreUnique
  GetFindsOwner
  IdsInUse
