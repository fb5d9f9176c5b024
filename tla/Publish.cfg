SPECIFICATION PublishSpec
CONSTANTS
    Matches = {m1, m2}
    Index = index
    Runs = {r1, r2}
    MaxClock = 2
    MaxFaults = 1
    MaxKills = 1
    MaxPayloads = 5
SYMMETRY Symmetry
INVARIANTS
    OutrightHeals
    EtagsAgree
    DiskIsPushed
    LiveIsIndexed
PROPERTY
    StreamIsMonotonic
