SPECIFICATION LockSpec
CONSTANTS
  Processes = {i1, i2, i3}
  Absent = Absent
  MaxOpens = 2
  Faults = {"exit"}
SYMMETRY Symmetry
INVARIANT OneWriter
CHECK_DEADLOCK FALSE
