CONSTANT Bounds <- MCAnnounced
SPECIFICATION RecorderSpec
INVARIANT CaughtUpAnnounced
CHECK_DEADLOCK FALSE
