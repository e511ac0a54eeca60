CONSTANTS
    c1 = c1
    c2 = c2
    tick = tick
    other = other
    Callers = {c1, c2}
    Flushers = {tick, other}
    Ticker = tick
    Cap = 1
    MaxCalls = 2
    MaxLives = 2
    MaxFaults = 1
SPECIFICATION FairSpec
INVARIANTS NeverOvercounts EventsAccounted
PROPERTIES CountsPersist RowRegressesOnlyWhenOvertaken
