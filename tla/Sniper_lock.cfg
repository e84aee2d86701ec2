CONSTANTS
  Mints = {m1, m2}
  MaxOrders = 2
  NoId = NoId
  MaxInflight = 1
  ReleaseCapacity = 1
  Modes = {"scan"}
  MaxFrames = 1
  NoMint = NoMint
SPECIFICATION ScopedSpec
INVARIANT LockHasReason
