\* Two registrations, two addresses, a pool of two, two links, one failure.
SPECIFICATION FairSpec
CONSTANTS
    Registrations = {r1, r2}
    Emails = {e1, e2}
    Links = {1, 2}
    PoolMax = 2
    MaxFaults = 1
INVARIANT AccountsInv
INVARIANT NobodyIsLockedOut
PROPERTY EveryRegistrationEnds
