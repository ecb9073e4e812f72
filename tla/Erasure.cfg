CONSTANTS
  s1 = s1
  r1 = r1
  Screenshots = {s1}
  Recordings = {r1}
  Crews <- MCCrews
  MaxFaults = 0
SPECIFICATION Spec
INVARIANTS ErasureComplete
CHECK_DEADLOCK FALSE
