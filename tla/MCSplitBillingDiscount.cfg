\* What DiscountKept rules out: a client that leaves the discount to the server.
CONSTANTS
  u1 = u1
  u2 = u2
  p1 = p1
  p2 = p2
  p3 = p3
  h1 = h1
  h2 = h2
  Units <- MCUnits
  Parts <- MCParts
  Handlers <- MCHandlers
  Price = 3
  Table = Table
  MostOff = 2
  MaxUses = 2
  Tolerance = 1
  NotGiven = NotGiven
  Isolated = TRUE
  DiscountKept = FALSE
  CleanNames = TRUE
SPECIFICATION Spec
SYMMETRY Symmetric
INVARIANT DiscountWithin
CHECK_DEADLOCK FALSE
