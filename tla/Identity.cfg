SPECIFICATION Spec
CONSTANTS
    N = 3
    Size = 2
    Singles = {3}
    Breaks = {2}
    Frozen = {1, 2, 3}
    Looks <- AllLooks
    MaxSamples = 2
    MaxPeriods = 2
INVARIANTS
    BurstCountsOnce
    TemplatesOnlyWhilePending
    ConfirmedIsActedOn
    AlarmFounded
CHECK_DEADLOCK FALSE
