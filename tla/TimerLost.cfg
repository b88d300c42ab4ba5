SPECIFICATION Spec
CONSTANTS
    every = every
    once1 = once1
    once2 = once2
    NoTimer = NoTimer
    Timer = {every, once1, once2}
    Repeating = {every}
    MaxTime = 2
    Careless = {"cancel"}
CHECK_DEADLOCK FALSE
INVARIANTS
    NoTimerLost
