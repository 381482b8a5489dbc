\* A closing that waits for a collection.
CONSTANTS
  o1 = o1
  o2 = o2
  h1 = h1
  h2 = h2
  Unset = Unset
  NoOrder = NoOrder
  Nobody = Nobody
  Orders <- MCOrders
  Handlers <- TwoHandlers
  Amounts <- OneAmount
  Cap = 1
  MaxShift = 2
  MaxSpent = 2
SPECIFICATION Spec
PROPERTY CloseComplete
CHECK_DEADLOCK FALSE
