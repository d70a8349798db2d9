CONSTANTS
  Subs = {s1, s2}
  Grpc = {s2}
  Slow = {s2}
  Chans = {c1, c2}
  MaxAttempts = 1
  NoChan = NoChan
  MaxLeaks = 1
SPECIFICATION Spec
INVARIANTS TypeOK DrainWaitsForLeaksOnly
PROPERTIES Terminates IdleBridgesEnd
CHECK_DEADLOCK FALSE
