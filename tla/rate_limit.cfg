SPECIFICATION Spec
CONSTANTS
  Replicas = {r1}
  Limit = 2
  WindowSecs = 2
  MsPerSec = 3
  Grace = 1
  Skew = 1
  Delay = 1
  MaxTime = 9
  MaxSeq = 4
CHECK_DEADLOCK FALSE
INVARIANTS
  TypeOK
  LimitHolds
  DenialsJustified
  RetryAfterSuffices
