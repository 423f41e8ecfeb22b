SPECIFICATION Spec
CHECK_DEADLOCK FALSE
CONSTANTS
    Pre = 1
    Post = 2
    MaxDuration = 3
    QueueCap = 3
    MaxTime = 10
    MaxRestarts = 1
INVARIANTS MotionCovered NotCutShort SlicerTold
