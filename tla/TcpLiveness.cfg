SPECIFICATION Spec
CONSTANTS
    MaxSends = 1
    MsgLen = 2
    RoomCap = 1
    HighWaterMark = 3
    MaxReceived = 0
    MaxStops = 0
    MaxForces = 1
INVARIANTS
    DestroyedClean
PROPERTIES
    ClosedIsDestroyed
    ForceCloseCloses
    ShutdownSendsFin
