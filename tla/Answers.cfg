SPECIFICATION Spec
CONSTANTS
    Browsers = {b1, b2}
    Questions = {q1}
    MaxEdits = 2
    MaxLoads = 3
    MaxPauses = 1
SYMMETRY Devices
INVARIANTS
    SettledMeansSaved
PROPERTIES
    NewestKeptOnOneDevice
CHECK_DEADLOCK FALSE
