\* Three overlapping checks, one of a monitor whose URL changes its protocol, a
\* threshold of two, two outages, one redirect each.
SPECIFICATION HttpFairSpec
CONSTANTS
    c1 = c1
    c2 = c2
    c3 = c3
    Checks <- MCChecks
    Asserted <- MCAsserted
    Editable = {c3}
    FailureThreshold = 2
    MaxOutages = 2
    MaxRedirects = 1
    MaxBadLocations = 1
INVARIANT HttpInv
PROPERTY RecoveredHostCloses
PROPERTY ImplementsBreaker
