SPECIFICATION Spec
CONSTANTS
  MaxApp = 1
  MaxTx = 4
  Hash = {h1}
  NoHash = NoHash
  Amount <- MCAmount
  Limit <- MCNoLimit
  MinFeeReserve = 1
  Http = {http1, http2}
  Local = 4
INVARIANT QuietFundingsAreBacked
CHECK_DEADLOCK FALSE
