SPECIFICATION RecordsSpec
CONSTANTS
    Assets = {a}
    PageLimit = 1
    Visitors = {u, v}
    Interval = 1
    MaxAge = 1
    ViewWindow = 3
    GateInterval = 2
    GateKeep = 1
    GateCap = 1
    Late = 0
    Work = 1
    MaxTime = 4
    MaxTrades = 1
    MaxFailures = 1
    MaxStarts = 2
    Articles = {a1, a2}
    Fetchers = {f1, f2}
    Extractors = {e1, e2}
    Models = {haiku}
    Caps = {1, 2}
    MinInterval = 1
    FreshWindow = 2
    Slow = 1
    MaxClock = 2
    MaxEdits = 2
    MaxCommands = 4
    MaxOutages = 1
    Matches = {m1, m2}
    Swapped = {m2}
    Ingests = {i1, i2}
    SettleBuffer = 1
    Timeout = 1
    MaxDate = 1
    MaxIngests = 2
    MaxCorrections = 1
    MaxFailedCalls = 1
INVARIANTS
    RefreshesAgree
    GateRemembers
    SignalsAreCurrent
    OutcomeIsAResult
    SettledIsResolved
PROPERTIES
    Polite
