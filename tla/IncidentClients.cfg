\* One monitor, two overlapping evaluations and an API request, under fairness.
SPECIFICATION FairSpec
CONSTANTS
    Monitors = {m1}
    Workers = {w1, w2}
    DeadLetterWorkers = {}
    Clients = {c1}
    MaxIncidents = 3
    MaxGroups = 1
    None = None
    Results = {"up", "down"}
    InMaintenance = {FALSE}
    Required = 2
    GroupThreshold = 3
    MaxFaults = 0
    RecentCanExpire = FALSE
    GroupWindowCloses = FALSE
INVARIANT OneOpenIncident
INVARIANT NoSilentRecovery
PROPERTY IncidentsFollowChecks
