CONSTANTS
    PriceCallers = {p1}
    ValueCallers = {v1}
    Prices <- MCPrices
    StartPrice <- MCStartPrice
    MaxDrops = 1
    MaxPackets = 4
    MaxReports = 2
    None = None
SPECIFICATION FairCommandSpec
INVARIANTS
    PendingIsOwn
    PriceIsWhole
PROPERTIES
    CommandEnds
CHECK_DEADLOCK FALSE
