SPECIFICATION Spec
CONSTANTS
  Orders = {o1, o2}
  Variants = {v1, v2}
  QueueSize = 3
  None = None
SYMMETRY Symmetry
INVARIANTS
  ShownIsLogged
  ConfirmedOnce
  CompleteUnlessDropped
