SPECIFICATION Spec
CONSTANTS
    Duration = 2
    Extension = 1
    MaxTotal = 2
    Timeout = 1
    MaxOffline = 2
    MaxLag = 1
    RuleSets <- LivenessRules
PROPERTIES
    ClockRunsOut
    SilenceNoticed
    OfflineLimitEnforced
