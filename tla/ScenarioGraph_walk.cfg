SPECIFICATION BoundedSpec
CONSTANTS
    T = T
    A = A
    B = B
    W = W
    Y = Y
    E = E
    F = F
    L = L
    C = C
    D = D
    V = V
    Z = Z
    d1 = d1
    d2 = d2
    t1 = t1
    t2 = t2
    Null = Null
    Runs = {"r1"}
    Nodes = {T, A, B, W, Y, E, F, L, C, D, V, Z}
    Type <- AllTypes
    Edges <- BothEdges
    Targets <- LoopToBoth
    Starts = {T, L, V, D}
    Devices = {d1, d2}
    ExitCodes = {0, 1}
    Tasks = {t1, t2}
    MaxVisits = 1
    MaxReports = 2
    MaxFaults = 1
    MaxCrashes = 1
INVARIANT TypeOK
INVARIANT OneTokenPerRun
INVARIANT FanOutWaitsForAll
INVARIANT NotifiedOnce
PROPERTY RunsEnd
PROPERTY EndedRunsStayQuiet
PROPERTY WaitResumes
CHECK_DEADLOCK FALSE
