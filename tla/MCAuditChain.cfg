CONSTANTS
    Altered = Altered
    NoHead = NoHead
    MaxEvents = 5
    MaxBatch = 2
    MayWipe = TRUE
    MayDamage = TRUE
SPECIFICATION Spec
INVARIANTS TypeOK AnchorFollowsLog OkMeansIntact FirstBadIsBad NoFalseAlarmUnlessRaced
