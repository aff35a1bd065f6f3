CONSTANT Bounds <- MCBounds
SPECIFICATION RecorderSpec
INVARIANTS LifecycleIsFold EntriesRecordedOnce RunsConcluded
PROPERTY CloseEnds
CHECK_DEADLOCK FALSE
