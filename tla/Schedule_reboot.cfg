SPECIFICATION RebootSpec
CONSTANTS
    Scheds = {s1}
    Devices = {d1}
    Ticks = {k1}
    MaxSlots = 2
    MaxOverlaps = 0
    MaxFaults = 1
INVARIANTS NeverDoubleFires
CHECK_DEADLOCK FALSE
