SPECIFICATION Spec
CONSTANTS
    MaxConnects = 2
    MaxStops = 2
    MaxForces = 1
    MaxDoubles = 1
    MaxConns = 2
INVARIANTS
    ChannelInStep
    AttemptsAccounted
PROPERTIES
    StopEndsAttempts
