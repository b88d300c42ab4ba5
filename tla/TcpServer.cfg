SPECIFICATION Spec
CONSTANTS
    MaxConns = 2
    MaxThreads = 2
    MaxAgain = 1
    MaxCloses = 2
INVARIANTS
    RemovalFindsConnection
    DestroyedClean
    ConnectionsServed
PROPERTIES
    LifeCompletes
