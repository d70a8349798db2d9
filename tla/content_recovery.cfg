SPECIFICATION FairSpec
CONSTANTS
  FailureThreshold = 2
  RecoveryTimeout = 1
  SuccessThreshold = 2
  RateWindow = 1
  RateNum = 1
  RateDen = 2
  MinCallsForRate = 3
  None = None
  Callers = {c1, c2}
  Keys = {k1}
  Disconnects = {}
  MaxWindow = 3
PROPERTIES
  Recovers
