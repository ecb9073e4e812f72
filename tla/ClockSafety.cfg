SPECIFICATION Spec
CONSTANTS
    Duration = 2
    Extension = 2
    MaxTotal = 4
    Timeout = 1
    MaxOffline = 2
    MaxLag = 1
    RuleSets <- MixedRules
INVARIANTS
    StoppedOnlyByOutage
    FastPathAgrees
    LateHeartbeatAgrees
PROPERTIES
    ExamTimeKept
