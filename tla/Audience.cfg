SPECIFICATION AudienceSpec
CONSTANTS
    Picks = {m1}
    Drafters = {d1, d2}
    Handlers = {h1, h2}
    MaxDay = 2
    MaxEdits = 2
    Fixtures = {n1, n2, n3}
    Seeded = n1
    Voters = {r1, r2}
    ViewTargets = {0, 2}
    VoteTargets = {2}
    ViewCap = 1
    VoteCap = 1
    DecayViews = 1
    DecayVotes = 1
    DailyMax = 1
    MaxReaders = 1
    MaxVotes = 3
    MaxSeeds = 2
    MaxOutages = 1
    x = x
    y = y
    Games <- MCGames
    KickoffOf <- MCKickoff
    Day = 2
    Second = 1
    FireDay = 6
    FireAt = 1
    MaxTime = 30
    Parts = {"drafts", "roundup", "activity"}
SYMMETRY Symmetry
INVARIANTS
    EveryEditRecorded
    PostedOnce
    DailyCeiling
    NoGhostReaders
PROPERTIES
    TerminalRowIsFrozen
    FrozenVoteStays
