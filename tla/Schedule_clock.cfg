SPECIFICATION Spec
CONSTANTS
    Scheds = {s1}
    Devices = {d1}
    Ticks = {k1, k2}
    MaxSlots = 2
    MaxOverlaps = 1
    MaxFaults = 2
INVARIANTS TypeOK RefiredOnlyAfterACut OneInFlight
PROPERTIES DeviceIsFreed DueIsServed
CHECK_DEADLOCK FALSE
