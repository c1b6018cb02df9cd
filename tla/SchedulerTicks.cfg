\* Two instances, two monitors on two lanes, one fault.
SPECIFICATION LoopFairSpec
CONSTANTS
    Schedulers = {s1, s2}
    Monitors = {m1, m2}
    Concurrency = 2
    Free = Free
    Stale = Stale
    MaxLoopFaults = 1
INVARIANT SchedulerInv
PROPERTY DueIsClaimed
