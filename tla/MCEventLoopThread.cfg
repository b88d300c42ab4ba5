SPECIFICATION ThreadSpec
CONSTANTS
    Owner = owner
    Callers = {owner}
    Quota <- MCQuota
    MaxQuits = 1
    PipeCap = 1
INVARIANTS
    OwnershipHolds
PROPERTIES
    StartLoopReturns
    JoinReturnsUnlessQuitLost
