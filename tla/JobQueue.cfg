CONSTANTS
    Threads = {1, 2, 3}
    Owner = owner
    Clients = {c}
    JobTypes = {1, 2}
    jobLimit <- MCLimits
    Coros = {co}
    CoroType = 1
    None = None
    ThreadCount = 2
    Sizes = {1, 2}
    MaxJobs = 1
    MaxResizes = 2
SPECIFICATION Spec
INVARIANTS EveryTaskHasItsJob CoroOnOneThread
PROPERTIES EveryJobRuns StopEnds PoolSettles
CHECK_DEADLOCK FALSE
