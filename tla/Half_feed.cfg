SPECIFICATION CachesSpec
CONSTANTS
    Teams = {t1}
    p1 = p1
    p2 = p2
    Players = {p1, p2}
    Matches = {m1, m2}
    Sides <- TwoLegs
    Procs = {p}
    NoMatch = none
    InjuryAnswers <- Injuries
    CardAnswers <- Cards
    Weight <- Weights
    Cap = 60
    Threshold = 2
    MaxRuns = 1
    MaxKills = 0
    Events = {e1}
    Venues = {v}
    Outcomes = {"a", "b"}
    Listings <- Quoted
    MaxAnswers = 1
    MaxMerges = 1
    MaxFaults = 0
    ta = ta
    tb = tb
    Rated = {ta, tb}
    Seeded = {ta}
    Fixture <- TwoTeams
    Field <- TwoTeams
    Feeds <- Tables
    MinRows = 2
    MaxFeeds = 2
    MaxReads = 1
INVARIANTS
    HalfParsedIsRefused
