SPECIFICATION Spec
CONSTANTS
  P = 43
  N = 31
  Gx = 2
  Gy = 12
  Key = {1, 7, 30}
  Challenge = {0, 1, 12, 30}
  Length <- MCLength
INVARIANTS AcceptedIffSigned SentIsRead
CHECK_DEADLOCK FALSE
