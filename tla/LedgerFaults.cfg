CONSTANTS
    Qty = 2
    OrderIds = {o1, o2}
    PositionIds = {p1, p2}
    None = None
    MinQuantity = 1
    SwapEnabled = TRUE
    Pollers = {w1, w2}
    Clerks = {}
    Readers = {r}
    MaxCrashes = 1
    MaxFaults = 1
SPECIFICATION Spec
SYMMETRY Symmetry
INVARIANTS
    TypeOK
    RowsAreFinal
    LossesBounded
    OneLiveOrderPerSide
    
