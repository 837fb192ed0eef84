SPECIFICATION Spec
CONSTANTS
    c1 = c1
    c2 = c2
    c3 = c3
    Commands = {c1, c2, c3}
    Tasks = {t1, t2}
    Prio <- SamePrio
    Origin <- OneOfEach
    Expiring = {c1, c2, c3}
    Limit = 1
    MaxRows = 1
    MaxConn = 2
    MaxFaults = 1
INVARIANTS StartedIsNotPending ResultComesFromARun RunsBoundedByOverlap ResultIsOnItsWay
PROPERTIES CancellationHolds
SYMMETRY TaskSymmetry
CHECK_DEADLOCK FALSE
