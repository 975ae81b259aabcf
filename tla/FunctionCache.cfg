CONSTANTS
    f = f
    g = g
    h = h
    n = n
    m = m
    Funcs = {f, g, h}
    Validator = validator
    Names = {n, m}
    NameOf <- MCNameOf
    BadSource <- MCBadSource
    SetReturning = {h}
    CacheSize = 2
    ClientCacheSize = 2
    MaxReplaced = 1
    MaxDepth = 2
SPECIFICATION Spec
SYMMETRY SameName
INVARIANTS
    MostRecentlyUsed
    InUseIntact
    RunsCurrent
