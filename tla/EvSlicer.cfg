SPECIFICATION FairSpec
CHECK_DEADLOCK FALSE
CONSTANTS
    NumSlices = 2
    Hours = 4
    QueueCap = 1
    MaxSlices = 4
    MaxHollow = 1
    MaxEvents = 2
    MaxDebug = 1
    Starts = {2, 4, 5}
    Spans = {0, 2}
    MaxNotices = 1
    MaxRestarts = 1
INVARIANTS TypeOK EventInOnePlace NoSliceForgotten RingOnDisk
PROPERTIES ChosenOverlap EventsEnd
