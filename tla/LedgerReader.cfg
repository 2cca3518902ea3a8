CONSTANTS
    Qty = 2
    OrderIds = {o1, o2, o3}
    PositionIds = {p1}
    None = None
    MinQuantity = 1
    SwapEnabled = FALSE
    Pollers = {}
    Clerks = {}
    Readers = {r}
    MaxCrashes = 0
    MaxFaults = 0
SPECIFICATION Spec
INVARIANTS
    SoldWithinBought
