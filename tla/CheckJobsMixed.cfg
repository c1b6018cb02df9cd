\* Two processes of two regions, a job for each, two faults.
SPECIFICATION FairSpec
CONSTANTS
    p1 = p1
    p2 = p2
    j1 = j1
    j2 = j2
    Processes = {p1, p2}
    Jobs = {j1, j2}
    RegionOf <- TwoRegions
    JobRegion <- MixedJobs
    Clouds = {"aws", "azure"}
    Malformed <- MaybeMalformed
    MaxConcurrency = 1
    MaxReceives = 3
    MaxFaults = 2
    TimersFire = TRUE
INVARIANT JobsInv
INVARIANT EvaluatedOnce
PROPERTY JobsSettle
CHECK_DEADLOCK FALSE
