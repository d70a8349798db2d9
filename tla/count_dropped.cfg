SPECIFICATION FairSpec
CONSTANTS
  Keys = {k1}
  Tasks = {t1, t2}
  Cancels = {t1, t2}
  Timeouts = TRUE
  MaxVersion = 2
  NoOne = NoOne
  NoValue = NoValue
INVARIANTS
  SoleLeader
  AnswersAreCounts
PROPERTIES
  AllAnswered
