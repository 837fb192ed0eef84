SPECIFICATION BoundedSpec
CONSTANTS
    metric1 = metric1
    offline1 = offline1
    d1 = d1
    Incidents = {metric1, offline1}
    Devices = {d1}
    DeviceOf <- OneDevice
    OfflineKind = {offline1}
    Hash <- Distinct
    Tenants = {n1}
    Levels = {warning}
    Tasks = {t1, t2}
    Keep = 1
    MaxId = 3
    MaxFaults = 1
    FeedSize = 1
    MaxDeaths = 1
INVARIANTS OneActivePerIncident DeletedStaysResolved NoCircularWait TenantBounded RingsOnceUnlessCut
SYMMETRY TaskSymmetry
CHECK_DEADLOCK FALSE
