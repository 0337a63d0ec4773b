SPECIFICATION Spec
CONSTANTS
    Agents = {a1, a2, a3, a4}
    BatchSize = 1
    Shuffles = TRUE
INVARIANT HandedOutOnce
PROPERTY TickSpec
