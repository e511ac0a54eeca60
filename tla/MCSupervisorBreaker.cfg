CONSTANTS
    MaxSpawns = 4
    MaxLines = 1
    p1 = p1
    Probes = {}
    NoProbe = NoProbe
    PipeCap = 2
    MaxRestarts = 1
    RespawnAttempts = 2
    ExitOnGiveUp = FALSE
SPECIFICATION RecoveringSpec
INVARIANTS OneLiveInner HistoryBounded DegradedMeansDown
PROPERTY DegradedRecovers
