CONSTANTS
  Mints = {m1}
  MaxOrders = 3
  NoId = NoId
  MaxInflight = 1
  ReleaseCapacity = 0
SPECIFICATION FairSpecIntegrityHolds
PROPERTIES
  Progress
  StopFinishes
