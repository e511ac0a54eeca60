CONSTANTS
    MaxSpawns = 2
    MaxLines = 2
    p1 = p1
    Probes = {p1}
    NoProbe = NoProbe
    PipeCap = 2
    MaxRestarts = 1
    RespawnAttempts = 1
    ExitOnGiveUp = FALSE
SPECIFICATION Spec
INVARIANTS ClientProtocol HandshakeFirst NoLossByLiveInner KillsOnlyUnanswered
