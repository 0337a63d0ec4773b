SPECIFICATION Spec

CONSTANTS
    Workers = {w1, w2}
    Clients = {c1}
    Capacity = 1
    Chunks = 2
    MaxTasks = 5

INVARIANT ActiveAddsUp
INVARIANT IdleMeansDone
INVARIANT ChunksInScope
PROPERTY CallsReturn
PROPERTY WorkersEnd

CHECK_DEADLOCK FALSE
