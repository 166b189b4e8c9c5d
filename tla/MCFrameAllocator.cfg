CONSTANTS
    BITMAP_SIZE = 2
    ByteBits = 6
    MaxRun = 3
    Usable <- MCUsable
SPECIFICATION Spec
INVARIANTS TypeOK ExclusiveOwnership StatsExact SearchComplete
