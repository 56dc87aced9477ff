CONSTANTS
  Account = {a1}
  Refresher = {w1}
  Free = Free
  Answers <- ConsumerOnly
SPECIFICATION Spec
PROPERTIES CooldownRunsOut
CHECK_DEADLOCK FALSE
