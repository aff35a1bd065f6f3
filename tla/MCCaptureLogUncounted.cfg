SPECIFICATION Spec
CONSTANTS
  Exchanges = {1, 2}
  MaxOpens = 2
  MaxFailures = 1
  Faults = {"short write"}
INVARIANT IdleMeansOnDisk
CHECK_DEADLOCK FALSE
