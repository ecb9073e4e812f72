SPECIFICATION Spec
CONSTANTS
    b1 = b1
    b2 = b2
    null = null
    Instances <- MCInstances
    NoInstance <- null
    Policies <- AllRules
    MaxAttempts = 1
    MaxReconnects = 1
    MaxPauses = 1
    MaxReferences = 2
SYMMETRY Browsers
INVARIANTS
    TypeOK
    PeriodMatchesStatus
    ClockRunsOnlyInExam
    AttemptLeftWhenRequired
PROPERTIES
    CandidateEndingsFinal
    ReferenceReplacedOnlyOnGrant
    LifecycleKept
CHECK_DEADLOCK FALSE
