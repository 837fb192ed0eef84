SPECIFICATION Spec
CONSTANTS
    T = T
    A = A
    B = B
    W = W
    Y = Y
    E = E
    F = F
    L = L
    C = C
    D = D
    V = V
    Z = Z
    d1 = d1
    d2 = d2
    t1 = t1
    t2 = t2
    Null = Null
    Runs = {"r1"}
    Nodes = {T, A, B, W, Y, E, F, L, C, D, V, Z}
    Type <- AllTypes
    Edges <- BothEdges
    Targets <- LoopToBoth
    Starts = {T}
    Devices = {d1, d2}
    ExitCodes = {0, 1}
    Tasks = {t1, t2}
    MaxVisits = 1
    MaxReports = 1
    MaxFaults = 0
    MaxCrashes = 0
SYMMETRY AnyTask
INVARIANT AnyFailureTakesTheFailureBranch
CHECK_DEADLOCK FALSE
