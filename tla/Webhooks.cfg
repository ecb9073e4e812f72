CONSTANTS
  Notifications = {n1, n2}
  Pings = {p1}
  Staff = {s1}
  Job = job
  MaxAttempts = 2
  DisableAfter = 2
  Batch = 2
  MaxDisturbances = 2
SPECIFICATION Spec
INVARIANTS AcceptedOnce GivenUpForCause
PROPERTIES SettledStays QueueDrains
CHECK_DEADLOCK FALSE
