SPECIFICATION Spec
CONSTANTS
    Agents = {a1, a2, a3, a4}
    BatchSize = 2
    Shuffles = FALSE
    Start = 1
    End = 5
    Dt = 2
    MaxAgents = 3
    Durations = {1, 3}
    MaxFailures = 2
    NoRun = NoRun
INVARIANT SchedulerAgrees
INVARIANT NoExtraActivation
INVARIANT ClockCountsSteps
INVARIANT NoStepAfterEnd
PROPERTY TickIsComplete
PROPERTY RunTerminates
