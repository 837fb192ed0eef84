SPECIFICATION FairSpec
CONSTANTS
    metric1 = metric1
    metric2 = metric2
    d1 = d1
    d2 = d2
    Incidents = {metric1, metric2}
    Devices = {d1, d2}
    DeviceOf <- TwoDevices
    OfflineKind = {}
    Hash <- Distinct
    Tenants = {n1}
    Levels = {warning}
    Tasks = {t1, t2}
    Keep = 1
    MaxId = 1
    MaxFaults = 1
PROPERTIES TransactionsEnd OrphansLeave
CHECK_DEADLOCK FALSE
