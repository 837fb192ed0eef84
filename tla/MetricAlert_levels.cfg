SPECIFICATION Spec
CONSTANTS
    cpu = cpu
    vol = vol
    disk = disk
    Metrics = {cpu, vol}
    Switches = {disk}
    Gates <- TwoMetrics
    Readings <- SomeReadings
    Pushes = {p1}
    MaxSaves = 2
    MaxFaults = 1
INVARIANTS TypeOK LevelWasAnnounced BellMatchesLevel
PROPERTIES NoFalseRecovery
CHECK_DEADLOCK FALSE
