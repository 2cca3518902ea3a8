CONSTANTS
    Qty = 2
    OrderIds = {o1, o2}
    PositionIds = {p1, p2}
    None = None
    MinQuantity = 1
    SwapEnabled = TRUE
    Pollers = {w1}
    Clerks = {c}
    Readers = {}
    MaxCrashes = 0
    MaxFaults = 0
SPECIFICATION Spec
INVARIANTS
    NeverOvercounted
PROPERTIES
    ExecutedIsSaved
