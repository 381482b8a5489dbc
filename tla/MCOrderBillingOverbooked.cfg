\* A coupon brought by a collection next to the orders that reserve it.
CONSTANTS
  o1 = o1
  o2 = o2
  r1 = r1
  r2 = r2
  c1 = c1
  k1 = k1
  NoCoupon = NoCoupon
  NoOrder = NoOrder
  Orders <- MCOrders
  Requests <- MCRequests
  Certs <- MCCerts
  Coupons <- MCCoupons
  MaxUses <- OneUse
  MaxNumber = 2
  MaxShift = 1
  Isolated = TRUE
  ReloadFails = FALSE
SPECIFICATION Spec
CHECK_DEADLOCK FALSE
INVARIANT CouponNotOverbooked
