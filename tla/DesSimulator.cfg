SPECIFICATION Spec
CONSTANTS
    Ids = {e1, e2}
    Times = {1, 2}
    Clients = {c1, c2}
    MaxTime = 1
    MaxEvents = 1
    Modes = {FALSE, TRUE}
    Checkpointing = TRUE
    MaxCheckpoints = 2
    MaxSchedules = 2
INVARIANT PendingAddsUp
INVARIANT NeverTwice
INVARIANT EventsCapped
PROPERTY RunEnds
CHECK_DEADLOCK FALSE
