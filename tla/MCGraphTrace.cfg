CONSTANTS
    x = x
    y = y
    z = z
    Nodes = {x, y, z}
    Label <- MCLabel
    Labels = {"Function", "Method"}
    Kinds = {"CALLS", "READS"}
    TraceKinds = {"CALLS"}
    Depths = {1, 2}
    TraceLimit = 3
    HopLimit = 2
    MaxEdges = 3
    MaxPasses = 1
SPECIFICATION Spec
INVARIANTS TraceExact PatternExact
