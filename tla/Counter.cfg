SPECIFICATION Spec
CONSTANTS
  w1 = w1
  w2 = w2
  Worker = {w1, w2}
  Cent = 100
  PointScale = 5
  Offers <- AllOffers
  Payments <- SplitOrShort
  Amounts = {700}
  MaxPayments = 3
  Earned = 4
  InitialCredit = 800
SYMMETRY Symmetry
INVARIANTS
  AccountsAgree
  PaysForWhatIsKept
  VoidsAreWhole
  ReturnsWithinTheSale
  BoundCopiesFollowTheirJob
PROPERTIES
  NothingAfterVoid
CHECK_DEADLOCK FALSE
