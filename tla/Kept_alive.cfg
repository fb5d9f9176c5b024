SPECIFICATION Spec
CONSTANTS
    Assets = {a}
    PageLimit = 1
    Visitors = {u}
    Interval = 1
    MaxAge = 1
    ViewWindow = 2
    GateInterval = 2
    GateKeep = 1
    GateCap = 1
    Late = 0
    Work = 1
    MaxTime = 5
    MaxTrades = 0
    MaxFailures = 0
    MaxStarts = 1
INVARIANTS
    LoopRefreshesTheViewed
