\* Two handlers on two orders and two shifts.
CONSTANTS
  o1 = o1
  o2 = o2
  h1 = h1
  h2 = h2
  Unset = Unset
  NoOrder = NoOrder
  Nobody = Nobody
  Orders <- MCOrders
  Handlers <- TwoHandlers
  Amounts <- OneAmount
  Cap = 1
  MaxShift = 2
  MaxSpent = 2
SPECIFICATION Spec
SYMMETRY Symmetric
INVARIANTS TypeOK OneOpenShift
PROPERTIES ClosedShiftFrozen CapRespected PromptCloseComplete
CHECK_DEADLOCK FALSE
