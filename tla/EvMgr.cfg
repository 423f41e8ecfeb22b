SPECIFICATION FairSpec
CONSTANTS
    p1 = p1
    u = u
    Peers = {p1, u}
    Configured = {p1}
    CacheCap = 2
    EventCap = 1
    MaxMsgs = 3
    MaxConnects = 3
    MaxRestarts = 1
INVARIANTS TypeOK ToggleAgrees UpMeansFlushed InOrder ExactlyOnePlace
PROPERTIES LostOnlyBeforeNotice HeldIsHandedOver IsMailbox
CHECK_DEADLOCK FALSE
