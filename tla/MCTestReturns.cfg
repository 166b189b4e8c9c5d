CONSTANTS
    MaxPid = 2
    NumSlots = 2
    SCHED_LATENCY = 2
    SCHED_MIN_GRANULARITY = 1
    VMAX = 2048
    SleepTicks = {}
    Sent = {}
    MaxRetries = 2
SPECIFICATION FairTestSpec
PROPERTY TestReturns
