SPECIFICATION Spec
CONSTANTS
    a = a
    b = b
    None = None
    Files = {a, b}
    Versions <- Mutual
    ScopeMax = 2
    HealThreshold = 2
    MaxEdits = 2
    MaxUserPasses = 1
    MaxFaults = 1
INVARIANTS TypeOK NoPhantomEdges CompleteIsFaithful EdgeSurvives HealRestores
