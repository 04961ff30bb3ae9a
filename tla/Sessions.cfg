SPECIFICATION SessionsSpec
CONSTANTS
  t1 = t1
  t2 = t2
  Tab = {t1, t2}
  MaxSessions = 2
  MaxTokens = 2
  MaxLost = 1
INVARIANTS
  ReuseOnlyIfLate
  SessionCanGoOn
PROPERTIES
  EndedSessionsAreDropped
