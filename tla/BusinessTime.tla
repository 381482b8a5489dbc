---------------------------- MODULE BusinessTime ----------------------------
(***************************************************************************)
(* The days and months of the business (business-time.util), and what they *)
(* decide about a coupon.  Instants are whole numbers; a zone is the one   *)
(* change of its clocks: what is added to an instant before and after it.  *)
(***************************************************************************)
EXTENDS Integers, Sequences

CONSTANT Day  \* the length of a day

Offset(zone, instant) == IF instant < zone.at THEN zone.before ELSE zone.after

\* getBusinessDateParts
Local(zone, instant) == instant + Offset(zone, instant)

\* toBusinessZonedDate: the offset is taken twice, at the local time as if it were an
\* instant, and at the instant that this gives.
ToInstant(zone, local) ==
  LET first == local - Offset(zone, local) IN local - Offset(zone, first)

\* getBusinessDayBounds
DayBounds(zone, day) == [start |-> ToInstant(zone, day * Day),
                         end |-> ToInstant(zone, day * Day + Day - 1)]

\* getBusinessMonthEnd; firsts are the days with which months begin.
MonthEnd(zone, firsts, instant) ==
  LET today == Local(zone, instant) \div Day
      month == CHOOSE k \in DOMAIN firsts : firsts[k] <= today /\ today < firsts[k + 1]
  IN DayBounds(zone, firsts[month + 1] - 1).end

\* isCouponExpired, computeCuponStatus: a coupon holds until its last day has ended.  A
\* coupon without a limit of uses has 0, without a last day {}.
CouponExpired(zone, coupon, now) == \E day \in coupon.expires : DayBounds(zone, day).end < now

CouponStatus(zone, coupon, now) ==
  IF ~coupon.active THEN "Inactivo"
  ELSE IF coupon.maxUses > 0 /\ coupon.uses >= coupon.maxUses THEN "Agotado"
  ELSE IF CouponExpired(zone, coupon, now) THEN "Vencido" ELSE "Activo"

\* CouponPromotionsService.redeem
Redeemable(zone, coupon, now) == CouponStatus(zone, coupon, now) = "Activo"
=============================================================================
