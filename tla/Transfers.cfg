SPECIFICATION Spec
CONSTANTS
  s1 = s1
  s2 = s2
  book1 = book1
  main = main
  Cent = 2
  Shelves = {s1, s2}
  Book <- OneBook
  Branch <- OneBranch
  Clients = {"clerk"}
  Quantities = {1}
  Costs = {3}
  ReorderPoints = {0}
  DefaultReorderPoint = 0
  MaxVersion = 3
PROPERTIES MovesConserveCopies
CHECK_DEADLOCK FALSE
