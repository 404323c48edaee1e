SPECIFICATION Spec
CONSTANTS
    Frame <- Frames
    K = 3
    MaxClock = 7
INVARIANT SetsAreTheStore
PROPERTY VictimIsFurthest IsReplacer
CHECK_DEADLOCK FALSE
