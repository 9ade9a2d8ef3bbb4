CONSTANTS
    Altered = Altered
    NoHead = NoHead
    MaxEvents = 4
    MaxBatch = 2
    MayWipe = FALSE
    MayDamage = TRUE
SPECIFICATION Spec
INVARIANTS TruncationIsCaught
