SPECIFICATION DeliverySpec
CONSTANTS
    Matches = {m1, m2}
    Runs = {r1}
    RetrySchedule <- MCShortSchedule
    RatePerMin = 2
    MaxInFlight = 2
    SweepTimeout = 1
    MaxLate = 0
    MaxVersion = 2
    MaxKills = 1
    MaxReplays = 0
    Browsers = {b1, b2, b3}
    Every = 2
    Room = 2
    KalshiMarkets <- MCKalshi
    PolyMarkets <- MCPolymarket
    Titles <- MCTitles
    Alike <- MCAlike
    AlikeEnough = 2
    LeastEdge = 150
    Quotes <- MCQuotes
    Prices <- MCPrices
INVARIANT
    OpportunityPays
