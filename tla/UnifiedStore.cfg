SPECIFICATION StoreSpec

CONSTANTS
    Clients = {c1, c2, c3}
    Keys = {k1, k2}
    Values = {v1, v2}
    Nothing = Nothing
    MaxCalls = 4

INVARIANT UntangledKeysAgree

CHECK_DEADLOCK FALSE
