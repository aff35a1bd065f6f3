SPECIFICATION Spec
CONSTANTS
  Proposals = {p1, p2}
  Auths = {x1, x2}
  None = None
  MaxOpens = 1
  Faults = {"pi exits", "store fails", "authorization ages"}
SYMMETRY Symmetry
INVARIANTS OneConsequence FinishCoversWhatWasSent
CHECK_DEADLOCK FALSE
