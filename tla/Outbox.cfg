SPECIFICATION FairSpec
CONSTANTS
  s1 = s1
  s2 = s2
  p1 = p1
  p2 = p2
  Sale = {s1}
  Poller = {p1, p2}
  BatchSize = 2
  MaxCrashes = 2
  MaxErrors = 1
INVARIANTS
  RepeatedWithinBounds
  PublishedMeansAccrued
PROPERTIES
  HandledInTheEnd
CHECK_DEADLOCK FALSE
