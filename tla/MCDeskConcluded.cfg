SPECIFICATION Spec
CONSTANTS
  Proposals = {p1, p2}
  Auths = {x1, x2}
  None = None
  MaxOpens = 1
  Faults = {}
SYMMETRY Symmetry
INVARIANT EveryRequestConcluded
CHECK_DEADLOCK FALSE
