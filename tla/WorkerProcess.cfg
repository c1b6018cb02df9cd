\* Four jobs for two permits and batches of two; two may hang, one has lost its monitor, one failure.
SPECIFICATION FairSpec
CONSTANTS
    Jobs = {a, b, c, d}
    MaxConcurrency = 2
    Hangs = {a, b}
    Severed = {d}
    MaxBatchSize = 2
    Orphans = {d}
    MaxFaults = 1
INVARIANT ProcessInv
INVARIANT ActiveAreAwaited
PROPERTY ImplementsComponents
PROPERTY EveryJobEnds
CHECK_DEADLOCK FALSE
