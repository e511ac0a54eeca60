SPECIFICATION FairSpec
CONSTANTS
    a = a
    b = b
    None = None
    Files = {a, b}
    Versions <- CallerAndCallee
    ScopeMax = 2
    HealThreshold = 2
    MaxEdits = 2
    MaxUserPasses = 0
    MaxFaults = 0
PROPERTY FilesConverge
