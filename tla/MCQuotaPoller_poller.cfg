CONSTANTS
  Account = {a1}
  Refresher = {w1}
  Free = Free
  Answers <- FewAnswers
SPECIFICATION FairSpec
INVARIANTS TypeOK
PROPERTIES RevivesNoError RestoredRowsAgree StoppedWritesNothing PastResetRestored
CHECK_DEADLOCK FALSE
