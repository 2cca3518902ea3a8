CONSTANTS
    c1 = c1
    c2 = c2
    Calls = {c1, c2}
    Methods <- Mixed
    MaxLimits = 1
    MaxErrors = 1
    MaxDrops = 1
SPECIFICATION Spec
CHECK_DEADLOCK FALSE
INVARIANTS
    TypeOK
    SleepingIsWaiting
    AnswersConserved
    ForgottenForAReason
PROPERTIES
    WaitModeEnds
    AnsweredUnlessCrossed
