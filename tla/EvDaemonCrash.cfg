SPECIFICATION FairSpec
CHECK_DEADLOCK FALSE
CONSTANTS
    evmgr = evmgr
    evpuller = evpuller
    evslicer = evslicer
    Modules = {evmgr, evpuller, evslicer}
    Mgr = evmgr
    Settings = {"s", "t"}
    OffSettings = {"off"}
    Configs <- None
    InitConfig <- AllOn
    Readable <- AllRead
    Spaced = FALSE
    CrashAtBoot = FALSE
    MaxPids = 4
    MaxCrashes = 3
    MaxReconfigs = 0
    MaxMsgs = 2
    MaxReboots = 1
INVARIANTS StatusAgrees OneProcess ReportAgrees
PROPERTIES EveryModuleRuns
