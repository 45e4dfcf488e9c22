SPECIFICATION FairSpec
CONSTANTS
  MaxApp = 2
  MaxTx = 4
  Hash = {h1, h2}
  NoHash = NoHash
  Amount <- MCAmount
  Limit <- MCLimit
  MinFeeReserve = 1
  Worker = {w1, w2}
  Funding = 5
  MaxFault = 2
INVARIANTS PaymentsTypeOK PaidIsCharged ChargesAreReal NeverOverspends
CHECK_DEADLOCK FALSE
PROPERTY HoldsReleased
