SPECIFICATION Spec
CONSTANTS
    MaxSends = 1
    MsgLen = 3
    RoomCap = 1
    HighWaterMark = 3
    MaxReceived = 0
    MaxStops = 0
    MaxForces = 0
PROPERTY
    OutputDrains
