SPECIFICATION FairSpec
CONSTANTS
  Alias <- MCAlias
  NoAlias = "none"
  AliasOf <- MCAliasOf
  Client = {"client"}
  Window = 0
  MaxRequests = 2
  MaxPerAlias = 1
  PageSize = 1
  Amount <- MCAmount
  MinSendable = 2
  MaxSendable = 4
  Sat = 2
  MaxApp = 3
  MaxInvoice = 1
  MaxTime = 1
INVARIANTS InvoiceIsForHolder UnknownIsUnknown WindowsWithinLimit
PROPERTY RequestsAnswered
CHECK_DEADLOCK FALSE
