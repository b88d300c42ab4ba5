SPECIFICATION Spec
CONSTANTS
    c1 = c1
    c2 = c2
    Callers = {c1, c2}
    Quota <- MCQuota
    MaxQuits = 1
    PipeCap = 4
INVARIANTS
    TypeOK
    NoLostWakeup
    NoLostQuit
PROPERTIES
    TaskQueueSafety
    LoopAnswers
