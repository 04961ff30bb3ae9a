SPECIFICATION Spec
CONSTANTS
  b1 = b1
  b2 = b2
  Book = {b1, b2}
  InitialStock <- TwoAndOne
  CountedAt = {"to"}
  MaxCopies <- TwoAndOne
  MaxSold <- OneAndNone
  MaxAstray <- OneAndNone
  NegativeAllowed = FALSE
INVARIANTS
  NotesAccountForTheirCopies
  PostedCountsAreTrue
CHECK_DEADLOCK FALSE
