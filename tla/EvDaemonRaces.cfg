SPECIFICATION Spec
CHECK_DEADLOCK FALSE
CONSTANTS
    evmgr = evmgr
    evpuller = evpuller
    evslicer = evslicer
    Modules = {evmgr, evpuller}
    Mgr = evmgr
    Settings = {"s", "t", "u"}
    OffSettings = {"off"}
    Configs <- OneBroken
    InitConfig <- InitOn
    Readable <- SomeRead
    Spaced = FALSE
    CrashAtBoot = TRUE
    MaxPids = 5
    MaxCrashes = 1
    MaxReconfigs = 2
    MaxMsgs = 1
    MaxReboots = 1
INVARIANTS OneRunning
PROPERTIES RestartOnlyEnabled
