SPECIFICATION Spec
CONSTANTS
    MaxSends = 2
    MsgLen = 2
    RoomCap = 1
    HighWaterMark = 3
    MaxReceived = 1
    MaxStops = 1
    MaxForces = 0
INVARIANTS
    OutputAccounted
    DestroyedClean
PROPERTIES
    FinAfterOutput
