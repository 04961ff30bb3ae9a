SPECIFICATION FairSpec
CONSTANTS
  w1 = w1
  w2 = w2
  Worker = {w1, w2}
  LastDay = 2
  MonthLength = 1
  MaxSessions = 1
  MaxTaken = 1
  MaxCash = 1
  Required = TRUE
INVARIANTS
  DrawersAddUp
  ClosedDaysStand
  ClosedMonthsStand
PROPERTIES
  CloseGetsItsTurn
