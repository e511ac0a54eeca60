CONSTANTS
    old = old
    new = new
    dev = dev
    Procs = {old, new, dev}
    Known <- MCKnown
    Consent = {old, new}
    Script <- MCScript
    Items <- MCItems
    OnSymbols <- MCOnSymbols
    Parity = "symbol_id"
    MaxAttempts = 2
    MaxOpens = 3
SPECIFICATION FairSpec
INVARIANTS VersionIsHonest OpenIsComplete 
PROPERTY OpenReturns
