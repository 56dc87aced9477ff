CONSTANTS
  Account = {a1, a2}
  Request = {r1, r2}
  NoAccount = NoAccount
  NoView = NoView
  Free = Free
  RowViews <- OneView
  Asked = {"primary"}
  Leaving = {}
  PollStatus = {}
  Switchable = {}
  Outside = {a2}
  Lapsing = {}
SPECIFICATION FairSpec
INVARIANTS TypeOK InUseCanServe
PROPERTIES StartsOver HandsOver CallsReturn
CHECK_DEADLOCK FALSE
