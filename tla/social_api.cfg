\* Three contents of two types, two of them liked to begin with; two likes can
\* share a timestamp; a cached page holds two rows.
CONSTANTS
  Contents = {1, 2, 3}
  Focus = 1
  Seeds = 2
  Times = {1, 2}
  Tasks = {t1, t2}
  Readers = {t1}
  MaxVersion = 3
  PageCap = 2
  MaxLimit = 2
  User = User
  None = None
  NoReply = NoReply
SPECIFICATION ApiSpec
INVARIANTS TypeOK CachedWasTrue StaleOnlyByRace WalkExact EventsMatchChanges
  WritesAuthorised TransportsAgree
PROPERTIES LedgerSteps Converges
