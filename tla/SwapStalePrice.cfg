CONSTANTS
    Asset = "SOL"
    Traded <- MCTraded
    Limits <- MCLimits
    Known <- MCKnown
    Supported <- MCSupported
    QuotesOf <- MCQuotesOf
    Streams = {g}
    Fee = 1
    Cent = 2
    Threshold = 2
    MinPercent = 10
    Tolerance = 2
    PriceValidSeconds = 1
    ChainValid = 1
    CacheValid = 2
    CheckValid = 2
    None = None
    Lapses = {1, 2}
    MaxTicks = 1
    MaxUpdates = 1
SPECIFICATION Spec
INVARIANTS
    SwapPriceHolds
