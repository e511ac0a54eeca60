CONSTANTS
    Rows <- MCRows
    Wheres <- MCWheres
    Limits <- MCLimits
    Threshold = 1
    Rank <- MCRank
    Lower <- MCLower
    DefaultLimit = 3
    MaxRows = 1
    FilterFactor = 3
    FilterCap = 3
SPECIFICATION Spec
INVARIANTS EqNePartition   TopN AggregatesExact
