SPECIFICATION Spec
CONSTANTS
  MaxApp = 3
  MaxTx = 2
  Hash = {h1}
  NoHash = NoHash
  Amount <- MCAmount
  Limit <- MCLimit
  MinFeeReserve = 1
  Manager = {m1, m2}
  Alias = {al1, al2}
  NoAlias = NoAlias
  PageSize = 1
  Sat = 2
INVARIANTS HubTypeOK QuietDrainIsComplete AliasUnique
SYMMETRY MCSymmetry
CHECK_DEADLOCK FALSE
