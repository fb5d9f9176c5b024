SPECIFICATION CachesSpec
CONSTANTS
    Teams = {t1}
    p1 = p1
    p2 = p2
    Players = {p1, p2}
    Matches = {m1, m2}
    Sides <- TwoLegs
    Procs = {p, q}
    NoMatch = none
    InjuryAnswers <- Injuries
    CardAnswers <- Cards
    Weight <- Weights
    Cap = 60
    Threshold = 2
    MaxRuns = 4
    MaxKills = 1
    Events = {e1, e2}
    Venues = {v}
    Outcomes = {"a", "b"}
    Listings <- Quoted
    MaxAnswers = 2
    MaxMerges = 1
    MaxFaults = 1
    ta = ta
    tb = tb
    Rated = {ta, tb}
    Seeded = {ta}
    Fixture <- TwoTeams
    Field <- TwoTeams
    Feeds <- Tables
    MinRows = 2
    MaxFeeds = 3
    MaxReads = 2
SYMMETRY Symmetry
INVARIANTS
    PenaltyIsOfTheRows
    SuspensionWins
    OwnXI
    UnresolvedIsOwed
    FairBookIsOneAnswer
    RatedByTheNewest
    LabelledAsRated
