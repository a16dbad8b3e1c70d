\* Two wakes of every shape against a kill switch toggled at any time.
CONSTANTS
    Ttl = 2
    MaxTime = 3
    One = 1000
    CentGrid = 10
    WirePrices <- MCWirePrices
    PriceGrids <- MCPriceGrids
    Tickers = {t1}
    NotSent = NotSent
    MaxFires = 2
SPECIFICATION Spec
INVARIANTS
    HonouredWithinTtl
    RealOrdersHonourSwitch
    RealOrdersPricedByFrame
