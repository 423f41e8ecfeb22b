SPECIFICATION Spec
CHECK_DEADLOCK FALSE
CONSTANTS
    evmgr = evmgr
    evpuller = evpuller
    evslicer = evslicer
    Modules = {evmgr, evpuller}
    Mgr = evmgr
    Settings = {"s", "t"}
    OffSettings = {"off"}
    Configs <- OnOffGone
    InitConfig <- InitOn
    Readable <- AllRead
    Spaced = FALSE
    CrashAtBoot = FALSE
    MaxPids = 5
    MaxCrashes = 0
    MaxReconfigs = 2
    MaxMsgs = 1
    MaxReboots = 0

PROPERTIES RemovedNotForked
