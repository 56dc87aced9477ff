CONSTANTS
  Account = {a1, a2}
  NoAccount = NoAccount
  Asked <- AllModels
  DefaultMaxRetries = 3
  RetryCap = 50
SPECIFICATION ConnectSpec
INVARIANTS RelaysWhole
CHECK_DEADLOCK FALSE
