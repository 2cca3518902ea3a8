CONSTANTS
    Prices = {1, 2, 3, 4}
    ManualMargin = 1
    SellMargin = 2
    None = None
    MaxPosts = 1
    MaxRequests = 1
SPECIFICATION Spec
INVARIANTS
    NoManualExtra
