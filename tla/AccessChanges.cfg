\* Two requests of two users in one process, two changes and a failure.
SPECIFICATION FairSpec
CONSTANTS
    Users = {a, b}
    Founder = a
    Processes = {p1}
    Requests = {r1, r2}
    Seed <- MCSeed
    Settings <- MCSettings
    Bucket = 7
    MaxChanges = 2
    MaxFaults = 1
INVARIANT AccessInv
INVARIANT StaleIsExcused
PROPERTY ChangesTakeEffect
PROPERTY EveryRequestAnswered
CHECK_DEADLOCK FALSE
