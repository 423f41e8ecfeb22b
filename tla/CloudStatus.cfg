SPECIFICATION FairSpec
CHECK_DEADLOCK FALSE
CONSTANTS
    d1 = d1
    d2 = d2
    m1 = m1
    m2 = m2
    Devices = {d1, d2}
    Modules = {m1, m2}
    Host <- OnePerDevice
    Mgr = d1
    Configs <- Changes
    InitConfig <- InitOn
    MaxQueue = 1
    MaxEvents = 3
INVARIANTS OnlineAgrees CurrentIsExplained OfflineShowsNone OnlyKnown MgrIssueAgrees
PROPERTIES StatusFollows
