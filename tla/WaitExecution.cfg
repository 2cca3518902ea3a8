CONSTANTS
    Qty = 2
    TimerLimit = 1
    MaxFaults = 2
    MaxAttempts = 2
SPECIFICATION Spec
INVARIANTS
    TypeOK
    SuccessIsFinal
    ErrorForgetsNothing
    OnePollerPerOrder
    CacheEndsWithTheCall
PROPERTIES
    CallEnds
    PollersEnd
    KeepsThePromise
