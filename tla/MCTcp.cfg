CONSTANTS
    SEQ_MOD = 32
    Iss = {30}
    ServerPort = 80
    FirstPort = 1
    LastPort = 9
    IPV4_HEADER_LEN = 1
    TCP_HEADER_MIN = 1
    U16_MOD = 4
    OverflowChecks = FALSE
    MaxEndpoints = 3
    MaxSends = 2
    SendSizes = {1, 2, 3, 5}
SPECIFICATION Spec
INVARIANTS TypeOK StreamPrefix UnackedKept ClosedByBoth AcceptQueueReady
PROPERTY DataDelivered
CHECK_DEADLOCK FALSE
