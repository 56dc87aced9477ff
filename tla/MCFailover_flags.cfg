CONSTANTS
  Account = {a1}
  Request = {r1, r2}
  NoAccount = NoAccount
  NoView = NoView
  Free = Free
  RowViews <- TwoViews
  Asked = {"primary"}
  Leaving = {r1, r2}
  PollStatus = {"error"}
  Switchable = {FALSE}
  Outside = {}
  Lapsing = {"rows", "cache", "flag"}
SPECIFICATION Spec
INVARIANTS FlagsCohere
SYMMETRY Symmetry
CHECK_DEADLOCK FALSE
