SPECIFICATION Spec
CONSTANTS
  Replicas = {r1, r2}
  Limit = 2
  WindowSecs = 2
  MsPerSec = 3
  Grace = 1
  Skew = 0
  Delay = 0
  MaxTime = 9
  MaxSeq = 4
CHECK_DEADLOCK FALSE
INVARIANTS
  LimitHolds
