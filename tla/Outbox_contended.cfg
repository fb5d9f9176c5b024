SPECIFICATION FairSpec
CONSTANTS
    Matches = {m1}
    Runs = {r1, r2}
    RetrySchedule <- MCRetrySchedule
    RatePerMin = 1
    MaxInFlight = 1
    SweepTimeout = 1
    MaxLate = 1
    MaxVersion = 2
    MaxKills = 1
    MaxReplays = 1
INVARIANTS
    LostOnlyByRace
    TwoSweepsPerMinute
PROPERTIES
    ImplementsPostbox
    EveryBodySettles
