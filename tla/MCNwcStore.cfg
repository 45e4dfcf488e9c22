SPECIFICATION StoreSpec
CONSTANTS
  MaxApp = 2
  MaxTx = 4
  Hash = {h1, h2}
  NoHash = NoHash
  Amount <- MCAmount
  Limit <- MCLimit
  MinFeeReserve = 1
INVARIANTS StoreTypeOK BalanceMatchesRows PaymentsWithinLimit
PROPERTIES ClosedRowsFinal OnlyOwnRowsDebit ImplementsAccounts
SYMMETRY MCSymmetry
CHECK_DEADLOCK FALSE
