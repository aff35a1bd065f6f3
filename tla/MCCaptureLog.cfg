SPECIFICATION FairSpec
CONSTANTS
  Exchanges = {1}
  MaxOpens = 3
  MaxFailures = 2
  Faults = {"process ends", "machine stops", "write fails", "short write"}
INVARIANTS
  BodiesBeforeEvents
  RecordedOrCounted
  MarkedOnce
PROPERTY QueueDrains
CHECK_DEADLOCK FALSE
