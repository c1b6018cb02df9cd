\* Two monitors whose incidents group, two evaluations, a dead letter, one fault.
SPECIFICATION Spec
CONSTANTS
    Monitors = {m1, m2}
    Workers = {w1, w2}
    DeadLetterWorkers = {d1}
    Clients = {}
    MaxIncidents = 2
    MaxGroups = 2
    None = None
    Results = {"up", "down"}
    InMaintenance = {TRUE, FALSE}
    Required = 1
    GroupThreshold = 2
    MaxFaults = 1
    RecentCanExpire = TRUE
    GroupWindowCloses = TRUE
SYMMETRY Interchangeable
INVARIANT TypeOK
INVARIANT NoSilentIncident
INVARIANT AlertsExplained
INVARIANT LockProtectsGroup
