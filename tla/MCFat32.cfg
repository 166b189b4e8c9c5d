CONSTANTS
    total_clusters = 4
    num_fats = 2
    RootSlots = 2
    U32_MAX = 6
    ShortNames = {f, g}
    LongNames = {l}
    Blocks = {a, b}
    MaxBlocks = 2
    MaxCrashes = 1
VIEW View
CONSTRAINT Sound
SPECIFICATION Spec
INVARIANTS TypeOK MirrorsLagByCrashes
PROPERTIES DamageOnlyByHalfReplace OthersUntouched ResultsAreTrue
