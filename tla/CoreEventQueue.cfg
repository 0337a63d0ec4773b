SPECIFICATION QueueSpec
CONSTANTS
    MaxEvents = 3
    Times = {0, 1}
    Expiries = {0, 2}
    EventPriorities = {0, 1}
    Maxes = {0, 2}
    Capacity = 2
INVARIANT IndexMatchesHeap
INVARIANT NothingLost
INVARIANT LimitRespected
PROPERTY InOrder
PROPERTY DrainEnds
