SPECIFICATION Spec
CONSTANTS
  Events = {e1, e2, e3}
  None = None
  MaxOpens = 4
  Faults = {"crash", "write fails", "damage"}
SYMMETRY Interchangeable
INVARIANTS
  LogIsSound
  NothingDestroyed
PROPERTY ImplementsAppendLog
CHECK_DEADLOCK FALSE
