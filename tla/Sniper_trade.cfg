CONSTANTS
  Mints = {m1, m2}
  MaxOrders = 3
  NoId = NoId
  MaxInflight = 2
  ReleaseCapacity = 1
  Modes = {"follow", "scan"}
  MaxFrames = 1
  NoMint = NoMint
SPECIFICATION ScopedSpec
SYMMETRY Symmetry
INVARIANTS
  PositionIsWatched
