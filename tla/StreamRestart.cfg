SPECIFICATION FairSpec
CHECK_DEADLOCK FALSE
CONSTANTS
    c1 = c1
    Consumers = {c1}
    Puller = evpuller
    Watched = c1
    CacheCap = 2
    MaxPullers = 2
    MaxFaults = 2
    MaxMgrCrashes = 1
    Often = 1
    Quick = 1
    Stable = 1
    Now = 10
    MaxCount = 4
INVARIANTS FormatAgrees ReportEarned LoopNoticed
PROPERTIES AllStream
