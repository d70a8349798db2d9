\* Two clients of one channel, Redis going away more often than a bridge retries.
CONSTANTS
  Subs = {s1, s2}
  Grpc = {s2}
  Chans = {c1, c2}
  MaxAttempts = 1
  NoChan = NoChan
SPECIFICATION StreamSpec
PROPERTY NoDeadReuse
CHECK_DEADLOCK FALSE
