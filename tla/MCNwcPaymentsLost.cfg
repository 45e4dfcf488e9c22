SPECIFICATION Spec
CONSTANTS
  MaxApp = 2
  MaxTx = 5
  Hash = {h1, h2}
  NoHash = NoHash
  Amount <- MCAmount
  Limit <- MCLimit
  MinFeeReserve = 1
  Worker = {w1, w2}
  Funding = 5
  MaxFault = 1
INVARIANT CannotSpendMoreThanItHolds
SYMMETRY MCSymmetry
CHECK_DEADLOCK FALSE
