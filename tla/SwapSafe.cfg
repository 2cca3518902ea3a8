CONSTANTS
    Qty = 2
    Spare = 1
    MaxAttempts = 2
    MaxCancels = 1
    MaxFaults = 5
    MaxCrashes = 1
SPECIFICATION Spec
INVARIANTS
    TypeOK
    LegsInOrder
    OneLiveOrder
    LegTradedOnce
    SwapModeCoversAction
    SuccessIsComplete
PROPERTIES
    EndedActionRests
    SettledSwapEnds
