\* Two handlers on a bill of two units with two parts.
CONSTANTS
  u1 = u1
  u2 = u2
  p1 = p1
  p2 = p2
  p3 = p3
  h1 = h1
  h2 = h2
  Units <- MCUnits
  Parts <- MCTwoParts
  Handlers <- MCHandlers
  Price = 2
  Table = Table
  MostOff = 2
  MaxUses = 2
  Tolerance = 1
  NotGiven = NotGiven
  Isolated = TRUE
  DiscountKept = TRUE
  CleanNames = TRUE
SPECIFICATION Spec
SYMMETRY SymmetricTwo
INVARIANTS TypeOK UnitsConserved CouponCovered NoPaidPartOfCancelled DiscountWithin
PROPERTIES ImplementsBill
CHECK_DEADLOCK FALSE
