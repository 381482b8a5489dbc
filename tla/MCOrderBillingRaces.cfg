\* Every interleaving of two handlers on two orders.
CONSTANTS
  o1 = o1
  o2 = o2
  r1 = r1
  r2 = r2
  c1 = c1
  k1 = k1
  NoCoupon = NoCoupon
  NoOrder = NoOrder
  Orders <- MCOrders
  Requests <- MCRequests
  Certs <- NoCerts
  Coupons <- MCCoupons
  MaxUses <- OneUse
  MaxNumber = 2
  MaxShift = 1
  Isolated = FALSE
  ReloadFails = TRUE
SPECIFICATION Spec
SYMMETRY Symmetric
INVARIANTS TypeOK CouponWithinLimit InvoicesDistinct
PROPERTY InvoiceKept
CHECK_DEADLOCK FALSE
