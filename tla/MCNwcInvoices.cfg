SPECIFICATION FairSpec
CONSTANTS
  MaxApp = 2
  MaxTx = 4
  Hash = {h1}
  NoHash = NoHash
  Amount <- MCAmount
  Limit <- MCLimit
  MinFeeReserve = 1
  Worker = {w1, w2}
  Watcher = watcher
  Funding = 2
  MaxCrash = 1
INVARIANTS InvoicesTypeOK CreditsAreBacked NotifiedOnce RepliesAreFresh PreimageOnBothRows
PROPERTIES PaidIsCredited
CHECK_DEADLOCK FALSE
