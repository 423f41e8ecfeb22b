SPECIFICATION FairSpec
CHECK_DEADLOCK FALSE
CONSTANTS
    evmgr = evmgr
    evpuller = evpuller
    evslicer = evslicer
    Modules = {evmgr, evpuller}
    Mgr = evmgr
    Settings = {"s", "t", "u"}
    OffSettings = {"off"}
    Configs <- OneBroken
    InitConfig <- Nothing
    Readable <- SomeRead
    Spaced = TRUE
    CrashAtBoot = FALSE
    MaxPids = 4
    MaxCrashes = 2
    MaxReconfigs = 4
    MaxMsgs = 2
    MaxReboots = 1
INVARIANTS RestIsAsConfigured
PROPERTIES RestIsReached ForkOnlyWanted
