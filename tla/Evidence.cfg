CONSTANTS
  s1 = s1
  r1 = r1
  Screenshots = {s1}
  Recordings = {r1}
  Crews <- MCCrews
  MaxFaults = 1
SPECIFICATION Spec
INVARIANTS LiveRowHasImage KeyIdTrue TombstoneMeansGone NoRecordingAfterPurge
PROPERTIES HoldKeepsImages RetentionCompletes
CHECK_DEADLOCK FALSE
