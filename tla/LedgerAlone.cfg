CONSTANTS
    Qty = 2
    OrderIds = {o1, o2, o3, o4}
    PositionIds = {p1, p2}
    None = None
    MinQuantity = 1
    SwapEnabled = FALSE
    Pollers = {}
    Clerks = {}
    Readers = {}
    MaxCrashes = 0
    MaxFaults = 0
SPECIFICATION Spec
SYMMETRY Symmetry
INVARIANTS
    OneOpenedPosition
    SoldWithinBought
    CacheIsCurrent
PROPERTIES
    ClosedStaysClosed
