\* Three incidents, pages of one, two connections of which one is admitted.
SPECIFICATION LiveFairSpec
CONSTANTS
    Connections = {k1, k2}
    None = None
    MaxConnections = 1
    Incidents <- MCIncidents
    Existing <- MCExisting
    MaxFailures = 1
    Timings <- MCTimings
    PageSize = 1
    MaxFetches = 2
INVARIANT LiveInv
INVARIANT ListFollows
PROPERTY PageGetsIn
