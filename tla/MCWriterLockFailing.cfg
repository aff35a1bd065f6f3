SPECIFICATION LockSpec
CONSTANTS
  Processes = {i1, i2, i3}
  Absent = Absent
  MaxOpens = 2
  Faults = {"exit", "disk"}
SYMMETRY Symmetry
INVARIANT NoOrphanOfTheLiving
CHECK_DEADLOCK FALSE
