SPECIFICATION FairSpec
CONSTANTS
  Keys = {k1, k2}
  Tasks = {t1, t2}
  Cancels = {}
  Timeouts = FALSE
  MaxVersion = 0
  NoOne = NoOne
  NoValue = NoValue
INVARIANTS
  TypeOK
  EntryHasLeader
  WaitersHaveSender
  AnswersAreCounts
PROPERTIES
  AllAnswered
