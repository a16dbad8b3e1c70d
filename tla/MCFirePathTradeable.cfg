\* One real wake near the end of the price range.
CONSTANTS
    Ttl = 2
    MaxTime = 3
    One = 1000
    CentGrid = 10
    WirePrices <- MCWirePrices
    PriceGrids <- MCPriceGrids
    Tickers = {t1}
    NotSent = NotSent
    MaxFires = 1
SPECIFICATION Spec
INVARIANTS
    RealOrdersTradeable
