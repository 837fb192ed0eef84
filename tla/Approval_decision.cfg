SPECIFICATION Spec
CONSTANTS
    Users = {u1, u2, u3}
    Requester = u1
    Effects = {e1, e2}
    Tasks = {t1, t2, t3}
    MaxEdits = 2
    MaxCrashes = 1
INVARIANTS ReviewedContentRuns
PROPERTIES ImplementsDecision
SYMMETRY TaskSymmetry
CHECK_DEADLOCK FALSE
