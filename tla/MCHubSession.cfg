SPECIFICATION FairSessionSpec
CONSTANTS
  Thread = {t1, t2}
  Request <- MCRequests
  NoThread = NoThread
  MaxFault = 3
INVARIANT ServedAtMostOnce
PROPERTIES RequestsEnd AuthSurvivesRestart
CHECK_DEADLOCK FALSE
