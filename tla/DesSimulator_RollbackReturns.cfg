SPECIFICATION Spec
CONSTANTS
    Ids = {e1, e2}
    Times = {1, 2}
    Clients = {c1}
    MaxTime = 2
    MaxEvents = 2
    Modes = {FALSE}
    Checkpointing = TRUE
    MaxCheckpoints = 2
    MaxSchedules = 2
PROPERTY RollbackReturns
CHECK_DEADLOCK FALSE
