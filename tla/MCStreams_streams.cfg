CONSTANTS
  Alert = {e1}
  Stream = {s1}
  Client = {c1, c2}
  BufferSize = 1
  Recent = 1
  MaxUsage = 2
SPECIFICATION FairSpec
INVARIANTS NeverSendsOnClosed ShownAtMostOnce
PROPERTIES BroadcastEnds TokensRecorded
CHECK_DEADLOCK FALSE
