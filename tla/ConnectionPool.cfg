SPECIFICATION Spec
CONSTANTS
    Tasks = {t1, t2, t3}
    MaxSize = 2
    Initial = 1
    MaxCalls = 6
INVARIANT PermitsAddUp
INVARIANT AcquiredAddsUp
PROPERTY Served
CHECK_DEADLOCK FALSE
