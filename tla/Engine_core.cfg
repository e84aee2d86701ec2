CONSTANTS
  Mints = {m1}
  MaxOrders = 3
  NoId = NoId
  MaxInflight = 1
  ReleaseCapacity = 1
SPECIFICATION Spec
INVARIANTS
  SellOwnership
  BuyingHasTask
  HeldIsConfirmed
  NoLostConfirmation
  FailClosed
  PermitBound
  SaleIsOfTheLot
PROPERTIES
  ImplementsCustody
