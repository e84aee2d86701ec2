CONSTANTS
  m1 = m1
  m2 = m2
  own = own
  dev = dev
  deployer = deployer
  other = other
  Mints = {m1, m2}
  Foreign = {m2}
  Wallets = {own, dev, deployer, other}
  Own = own
  Unpaired = 99
  Keys <- MCKeys
  Capacity = 2
  Scenarios <- MCScenarios
  InitReserves <- MCInit
  NoEntry = NoEntry
SPECIFICATION SignalsSpec
INVARIANTS
  OnlyExecutedIsBooked
  NoTradeTwice
  TradesAreBooked
  PairedWithItsInstruction
  CostIsAverage
  CompleteGetsThrough
  OrderFitsCurve
  ConfirmationIsReal
PROPERTIES
  OncePerKey
  ChosenOnce
  CreatorSaleHeeded
