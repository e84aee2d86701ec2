SPECIFICATION Spec
CONSTANTS
  MaxSlot = 4
  Overlap = 1
  MaxGap = 2
  Slack = 1
  Modes = {"standard"}
  Environments <- TxFirst
INVARIANTS
  MissingIsOnDisk
