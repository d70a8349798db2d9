SPECIFICATION Spec
CONSTANTS
  Users = {u1, u2}
  Contents = {x1}
  Sessions = {s1, s2, s3}
  Pools = {{s1, s2}, {s3}}
  PoolSize = 1
  NoReply = NoReply
INVARIANTS
  TypeOK
  CountsMatchLikes
  PendingFits
PROPERTIES
  ImplementsLedger
  CallsEnd
