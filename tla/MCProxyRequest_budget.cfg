CONSTANTS
  Account = {a1, a2, a3}
  NoAccount = NoAccount
  Asked <- AllModels
  DefaultMaxRetries = 3
  RetryCap = 50
SPECIFICATION ConnectFairSpec
INVARIANTS ConnectTypeOK BudgetSuffices ChargesWhatWasSent
PROPERTIES Ends TunnelEnds
CHECK_DEADLOCK FALSE
