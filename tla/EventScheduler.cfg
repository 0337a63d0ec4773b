SPECIFICATION SchedulerSpec
CONSTANTS
    Agents = {a1, a2}
    Start = 0
    EntryTimes = {1, 2}
    MaxEntries = 4
    MaxTick = 3
INVARIANT NothingLost
PROPERTY ServedInOrder
PROPERTY TickEnds
