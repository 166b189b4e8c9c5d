CONSTANTS
    MaxPid = 3
    NumSlots = 0
    SCHED_LATENCY = 2
    SCHED_MIN_GRANULARITY = 1
    VMAX = 2100
    NiceValues = {5}
SPECIFICATION Spec
INVARIANTS TypeOK QueuedNotBelowMin QueuedOnce
PROPERTY VruntimeMonotone
