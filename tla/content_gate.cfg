SPECIFICATION Spec
CONSTANTS
  FailureThreshold = 2
  RecoveryTimeout = 2
  SuccessThreshold = 2
  RateWindow = 1
  RateNum = 1
  RateDen = 2
  MinCallsForRate = 3
  None = None
  Callers = {c1, c2, c3}
  Keys = {k1}
  Disconnects = {c1, c2, c3}
  MaxWindow = 4
INVARIANTS
  TypeOK
  OpenHasFailureTime
  CountersMatchState
  StreakInWindow
  WindowOrdered
  ProbesBounded
  SuccessesWereHeard
PROPERTIES
  TripsJustified
