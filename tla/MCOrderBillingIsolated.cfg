\* Every interleaving of two handlers on two orders.
CONSTANTS
  o1 = o1
  o2 = o2
  r1 = r1
  r2 = r2
  c1 = c1
  k1 = k1
  NoCoupon = NoCoupon
  NoOrder = NoOrder
  Orders <- MCOrders
  Requests <- MCRequests
  Certs <- MCCerts
  Coupons <- MCCoupons
  MaxUses <- TwoUses
  MaxNumber = 2
  MaxShift = 2
  Isolated = TRUE
  ReloadFails = FALSE
SPECIFICATION Spec
SYMMETRY Symmetric
INVARIANTS ReservationExclusive CertificatesOfPaid CouponAccounting BilledAsOrdered
PROPERTIES PaidLeavesOnlyByVoid ImplementsSales
CHECK_DEADLOCK FALSE
