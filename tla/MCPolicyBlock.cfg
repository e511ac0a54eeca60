CONSTANTS
    Commands = {c}
    Tools = {t}
    Docs <- MCDocs
    MaxEdits = 2
    MaxRuns = 2
    MaxFaults = 1
SPECIFICATION Spec
INVARIANT RerunSettles
PROPERTY KeepsUserText
