CONSTANTS
  b1 = b1
  v1 = v1
  v2 = v2
  v3 = v3
  Buys = {b1, b2}
  Sells = {s1}
  Variants <- MCVariants
  Attempts = 2
  None = None
SYMMETRY Symmetry
SPECIFICATION Spec
INVARIANTS
  VerdictIsReal
  ExecutedIsShown
PROPERTIES
  VerdictHolds
