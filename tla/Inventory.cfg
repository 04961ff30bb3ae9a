SPECIFICATION Spec
CONSTANTS
  s1 = s1
  s2 = s2
  book1 = book1
  main = main
  Cent = 2
  Shelves = {s1}
  Book <- OneBook
  Branch <- OneBranch
  Clients = {"clerk"}
  Quantities = {1, 2}
  Costs = {0, 3}
  ReorderPoints = {1}
  DefaultReorderPoint = 0
  MaxVersion = 4
INVARIANTS MatchesHistory DamagedConsistent AverageWithinPaid
PROPERTIES FormsSeeWhatTheyChange ChangesFollowTheRules
CHECK_DEADLOCK FALSE
