SPECIFICATION OutboxSpec
CONSTANTS
    e1 = e1
    e2 = e2
    Events = {e1, e2}
    Fate <- Fates
    EventOf <- OwnEvent
    Shots = 2
    RefusedShots = {2}
    MaxShots = 1
    MaxVersion = 2
    MaxOutages = 1
    MaxReloads = 1
INVARIANTS
    NewestVersionKept
    WorkIsScheduled
PROPERTIES
    HealthyRunsEmpty
CHECK_DEADLOCK FALSE
