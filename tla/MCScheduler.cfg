SPECIFICATION MCFairSpec
CONSTANTS
    j1 = j1
    j2 = j2
    j3 = j3
    w1 = w1
    w2 = w2
    Jobs <- MCJobs
    Workers <- MCWorkers
    MaxRetries <- MCMaxRetries
    Delayed = {j2}
    Unruly = {j3}
    NoJob = NoJob
    limited = limited
    unlimited = unlimited
    RJobs <- MCRJobs
    MaxExecutions <- MCMaxExecutions
    Interval <- MCInterval
    Reliable = {limited}
    MaxLoops = 2
    MaxCount = 2
INVARIANTS JobPlacedOnce StatusMatchesPlace RetryBudget NoOverlap WithinLimit
PROPERTIES ImplementsLifecycle QueuedJobsSettle StopReturns CancelStopsLaunches ReachesLimit
