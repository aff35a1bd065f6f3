SPECIFICATION LockFairSpec
CONSTANTS
  Processes = {i1, i2, i3}
  Absent = Absent
  MaxOpens = 2
  Faults = {"exit", "disk"}
INVARIANT LockIsSound
PROPERTY StaleLockReplaced
CHECK_DEADLOCK FALSE
