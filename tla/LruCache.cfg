SPECIFICATION Spec

CONSTANTS
    Clients = {c1, c2}
    Keys = {k1, k2}
    Values = {v1, v2}
    Nothing = Nothing
    MaxSize = 1
    MaxCalls = 4

INVARIANT NothingExpired
INVARIANT StatsAddUp
PROPERTY KeepsPromise
PROPERTY CallsReturn

CHECK_DEADLOCK FALSE
