\* A cancelled order written back to an earlier status by a stale handler.
CONSTANTS
  o1 = o1
  o2 = o2
  r1 = r1
  r2 = r2
  c1 = c1
  k1 = k1
  NoCoupon = NoCoupon
  NoOrder = NoOrder
  Orders <- MCOrders
  Requests <- MCRequests
  Certs <- NoCerts
  Coupons <- MCCoupons
  MaxUses <- OneUse
  MaxNumber = 2
  MaxShift = 1
  Isolated = FALSE
  ReloadFails = TRUE
SPECIFICATION Spec
CHECK_DEADLOCK FALSE
PROPERTY CancelledIsFinal
