\* Two creators, an editor and another, three rows; the free plan allows one monitor, the paid ones two.
SPECIFICATION Spec
CONSTANTS
    MaxSubscriptions = 2
    Plans = {"pro", "team"}
    MaxOperations = 5
    MaxFailures = 1
    MaxMonitors = 3
    Creators = {r, s}
    Editors = {c, d}
    PlanLimit <- SmallLimits
INVARIANT AdminInv
INVARIANT PlanIsPaid
INVARIANT DeletionResolves
PROPERTY NoLostUpdate
CHECK_DEADLOCK FALSE
