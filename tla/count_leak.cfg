SPECIFICATION Spec
CONSTANTS
  Keys = {k1}
  Tasks = {t1, t2}
  Cancels = {t1}
  Timeouts = TRUE
  MaxVersion = 0
  NoOne = NoOne
  NoValue = NoValue
INVARIANTS
  WaitersHaveSender
