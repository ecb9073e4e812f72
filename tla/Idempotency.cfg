SPECIFICATION Spec
CONSTANTS
    Requests = {r1, r2, r3}
    NoRequest = NoRequest
    Bodies = {b1, b2}
    Timeout = 2
    Ttl = 4
    MaxLag = 1
    Faults <- AllFaults
SYMMETRY Interchangeable
INVARIANTS
    AppliedOnce
PROPERTIES
    ReplayIsGenuine
    NewerRowKept
