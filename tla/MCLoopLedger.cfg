CONSTANTS
    s1 = s1
    s2 = s2
    l1 = l1
    l2 = l2
    Sessions = {s1, s2}
    Loops = {l1, l2}
    Costs = {1, 2}
    MaxCalls = 3
    MaxTries = 2
    ResumeWindow = 2
    ExportWindow = 2
    Budgets = {1, 3}
    Headroom = 1
    MinBody = 1
SPECIFICATION Spec
INVARIANTS SeqsAreDense BriefIsTail ExportsPartition
PROPERTY LogSpec
