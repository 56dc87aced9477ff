CONSTANTS
  Account = {a1, a2, a3}
  Request = {r1, r2}
  NoAccount = NoAccount
  NoView = NoView
  Free = Free
  RowViews <- OneView
  Asked = {"primary"}
  Leaving = {}
  PollStatus = {}
  Switchable = {}
  Outside = {}
  Lapsing = {}
SPECIFICATION Spec
INVARIANTS CheckStaysCurrent
PROPERTIES ImplementsAccountPool
SYMMETRY Symmetry
CHECK_DEADLOCK FALSE
