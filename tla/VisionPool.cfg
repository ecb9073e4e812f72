CONSTANTS
  Interactive = {i1, i2, i3}
  Background = {k1, k2}
  Slots = {w1, w2}
  MaxQueue = 2
  MaxCrashes = 2
SPECIFICATION Spec
INVARIANTS EachTaskOnce NoIdleWorker OverdueIsNext
PROPERTIES EverySubmissionSettles
CHECK_DEADLOCK FALSE
