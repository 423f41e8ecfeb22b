SPECIFICATION Spec
CHECK_DEADLOCK FALSE
CONSTANTS
    a = a
    b = b
    Empty = Empty
    Devices = {a, b}
    Classes = {"puller", "slicer"}
    Settings = {"s", "t"}
    Requests <- Bodies
    MaxRequests = 2
    MaxDeletes = 1
    MaxFaults = 1
INVARIANTS DevicesFollow RestartKeeps
