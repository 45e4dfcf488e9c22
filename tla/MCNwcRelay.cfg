SPECIFICATION FairSpec
CONSTANTS
  Relay = {r1, r2}
  Http = {http}
  Wallet = {w1}
  Event = {e1}
  None = None
  MaxFault = 2
INVARIANTS RelayTypeOK SubscriptionsCurrent ExecutedAtMostOnce
PROPERTIES RequestsArrive MarkedIsExecuted
CHECK_DEADLOCK FALSE
