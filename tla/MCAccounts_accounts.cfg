CONSTANTS
  f1 = f1
  c1 = c1
  c2 = c2
  Email = {e1, e2}
  Id = {1, 2, 3}
  Flow = {f1}
  Cli = {f1}
  Callback = {c1, c2}
  FlowOf <- MCFlowOf
  Clicker = {d1}
  Request = {p1}
  Leaving = {c1}
  Failing = {1}
  NoRow = NoRow
  NoId = NoId
  NoEmail = NoEmail
SPECIFICATION FairSpec
INVARIANTS TypeOK SingleActive CredentialsAreOwn StateRedeemedOnce
PROPERTIES ActiveLostByDeletionOnly LoginsEnd PoolServes
CHECK_DEADLOCK FALSE
