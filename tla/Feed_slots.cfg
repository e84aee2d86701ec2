SPECIFICATION Spec
CONSTANTS
  MaxSlot = 4
  Overlap = 2
  MaxGap = 2
  Slack = 1
  Modes = {"standard", "scan"}
  Environments <- AllEnvironments
INVARIANTS
  OrderlyOpensWhole
  OrderlyLosesNothing
  GapsAreWorkedOn
PROPERTIES
  OnlyNewIsLive
