CONSTANTS
    MaxPid = 3
    NumSlots = 2
    SCHED_LATENCY = 2
    SCHED_MIN_GRANULARITY = 1
    VMAX = 2048
    SleepTicks = {1}
    Sent = {9, 15, 19}
    MaxRetries = 2
SPECIFICATION Spec
INVARIANTS TypeOK KernelStacksExclusive RunningIsCurrent FrameSavedToItsOwner
           TrapStackMatches SleepersNotQueued
PROPERTY ReturnsToIdleLoop
