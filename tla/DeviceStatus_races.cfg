SPECIFICATION FairSpec
CONSTANTS
    Handlers = {h1}
    MaxUpdates = 1
    MaxFaults = 1
INVARIANTS UpdatingHasStart
PROPERTIES UninstallIsKept LeavesOffline LeavesUpdating OutageIsAnnounced
CHECK_DEADLOCK FALSE
