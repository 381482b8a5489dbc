--------------------------- MODULE CalculationProofs ---------------------------
(***************************************************************************)
(* Theorems about the calculations that hold for every input: the days of  *)
(* BusinessTime, the decisions of OrderRules, the amounts of Pricing, the  *)
(* service levels of Reports and the audience of Notices.                  *)
(***************************************************************************)
EXTENDS Integers, FiniteSets, Sequences, FiniteSetTheorems,
        WellFoundedInduction, TLAPS

CONSTANTS Day, Lower, Unset

T == INSTANCE BusinessTime
O == INSTANCE OrderRules
P == INSTANCE Pricing
R == INSTANCE Reports
N == INSTANCE Notices

-----------------------------------------------------------------------------
(* BusinessTime *)

Zone == [at: Int, before: Int, after: Int]

\* The clocks show a local time at one instant and no other.
ShownOnce(zone, local) ==
  \E t \in Int : T!Local(zone, t) = local /\ \A u \in Int : T!Local(zone, u) = local => u = t

First(day) == day * Day
Last(day) == day * Day + Day - 1

\* A day ends before a later one begins.
LEMMA Blocks ==
  ASSUME Day \in Nat \ {0}
  PROVE  \A m, n \in Int : m < n => Day * m + Day <= Day * n
<1> SUFFICES ASSUME NEW m \in Int, NEW n \in Int, m < n
             PROVE  Day * m + Day <= Day * n
  OBVIOUS
<1>1. Day * m + Day = Day * (m + 1) /\ n - (m + 1) \in Nat
  OBVIOUS
<1>2. \A k \in Nat : Day * k >= 0
  OBVIOUS
<1>3. Day * (n - (m + 1)) = Day * n - Day * (m + 1)
  OBVIOUS
<1>4. Day * (n - (m + 1)) >= 0
  BY <1>1, <1>2
<1> QED
  BY <1>1, <1>3, <1>4

LEMMA DayOf ==
  ASSUME Day \in Nat \ {0}, NEW x \in Int, NEW day \in Int
  PROVE  x \div Day = day <=> First(day) <= x /\ x <= Last(day)
<1> DEFINE q == x \div Day
           r == x % Day
<1>1. q \in Int /\ r \in 0..(Day - 1) /\ x = Day * q + r
  OBVIOUS
<1>2. \A m, n \in Int : m < n => Day * m + Day <= Day * n
  BY Blocks
<1>3. First(day) = Day * day /\ Last(day) = Day * day + Day - 1
  BY DEF First, Last
<1> HIDE DEF q, r
<1>4. CASE q = day
  BY <1>1, <1>3, <1>4 DEF q
<1>5. CASE q < day
  BY <1>1, <1>2, <1>3, <1>5 DEF q
<1>6. CASE day < q
  BY <1>1, <1>2, <1>3, <1>6 DEF q
<1> QED
  BY <1>1, <1>4, <1>5, <1>6

LEMMA NotAfter ==
  ASSUME Day \in Nat \ {0}, NEW x \in Int, NEW day \in Int
  PROVE  x \div Day <= day <=> x <= Last(day)
<1>1. PICK q \in Int : q = x \div Day
  OBVIOUS
<1>2. First(q) <= x /\ x <= Last(q)
  BY <1>1, DayOf
<1>3. /\ First(q) = Day * q /\ Last(q) = Day * q + Day - 1 /\ Last(day) = Day * day + Day - 1
      /\ Day * q \in Int /\ Day * day \in Int
  BY DEF First, Last
<1>4. CASE q = day
  BY <1>1, <1>2, <1>4
<1>5. CASE q < day
  <2>1. Day * q + Day <= Day * day
    BY <1>5, Blocks
  <2> QED
    BY <1>1, <1>2, <1>3, <1>5, <2>1
<1>6. CASE day < q
  <2>1. Day * day + Day <= Day * q
    BY <1>6, Blocks
  <2> QED
    BY <1>1, <1>2, <1>3, <1>6, <2>1
<1> QED
  BY <1>4, <1>5, <1>6

LEMMA LocalIsInt ==
  \A zone \in Zone, t \in Int : T!Local(zone, t) \in Int /\ T!ToInstant(zone, t) \in Int
  BY DEF Zone, T!Local, T!Offset, T!ToInstant

\* A local time that the clocks show is taken back to an instant at which they show it, for
\* any change of any clocks (toBusinessZonedDate).
LEMMA OneInstant ==
  ASSUME NEW zone \in Zone, NEW local \in Int
  PROVE  /\ \A t \in Int : T!Local(zone, t) = t + (IF t < zone.at THEN zone.before ELSE zone.after)
         /\ T!ToInstant(zone, local) \in Int
         /\ (\E t \in Int : T!Local(zone, t) = local)
              => T!Local(zone, T!ToInstant(zone, local)) = local
  BY DEF Zone, T!Local, T!Offset, T!ToInstant

\* Where a local time is shown once, what is later is shown later, whichever way the clocks
\* change in between.
LEMMA InOrder ==
  ASSUME NEW zone \in Zone, NEW local \in Int, ShownOnce(zone, local), NEW t \in Int
  PROVE  /\ t < T!ToInstant(zone, local) <=> T!Local(zone, t) < local
         /\ T!ToInstant(zone, local) < t <=> local < T!Local(zone, t)
<1>1. /\ zone.at \in Int /\ zone.before \in Int /\ zone.after \in Int
      /\ \A u \in Int : T!Local(zone, u) = u + (IF u < zone.at THEN zone.before ELSE zone.after)
  BY OneInstant DEF Zone
<1>2. PICK u \in Int : T!Local(zone, u) = local /\ \A v \in Int : T!Local(zone, v) = local => v = u
  BY DEF ShownOnce
<1>3. T!ToInstant(zone, local) = u
  BY <1>2, OneInstant
<1>4. \A v \in Int : v # u => T!Local(zone, v) # local
  BY <1>2
<1>5. local - zone.before \in Int /\ local - zone.after \in Int
  BY <1>1
<1>6. /\ local - zone.before # u => local - zone.before >= zone.at
      /\ local - zone.after # u => local - zone.after < zone.at
  BY <1>1, <1>4, <1>5
<1>7. T!Local(zone, t) = t + (IF t < zone.at THEN zone.before ELSE zone.after)
      /\ local = u + (IF u < zone.at THEN zone.before ELSE zone.after)
  BY <1>1, <1>2
<1> QED
  BY <1>1, <1>3, <1>5, <1>6, <1>7

\* The instants between the bounds of a day are those of the day, whether the clocks change
\* in it or not, as long as they show each bound once (getBusinessDayBounds).
THEOREM DaysAreBounded ==
  ASSUME Day \in Nat \ {0}
  PROVE  \A zone \in Zone, day \in Int, t \in Int :
           ShownOnce(zone, First(day)) /\ ShownOnce(zone, Last(day)) =>
             (t \in T!DayBounds(zone, day).start..T!DayBounds(zone, day).end
                <=> T!Local(zone, t) \div Day = day)
<1> SUFFICES ASSUME NEW zone \in Zone, NEW day \in Int, NEW t \in Int,
                    ShownOnce(zone, First(day)), ShownOnce(zone, Last(day))
             PROVE  t \in T!DayBounds(zone, day).start..T!DayBounds(zone, day).end
                      <=> T!Local(zone, t) \div Day = day
  OBVIOUS
<1>1. First(day) \in Int /\ Last(day) \in Int
  BY DEF First, Last
<1>2. /\ T!DayBounds(zone, day).start = T!ToInstant(zone, First(day))
      /\ T!DayBounds(zone, day).end = T!ToInstant(zone, Last(day))
  BY DEF T!DayBounds, First, Last
<1>3. /\ T!ToInstant(zone, First(day)) \in Int /\ T!ToInstant(zone, Last(day)) \in Int
      /\ T!Local(zone, t) \in Int
  BY <1>1, LocalIsInt
<1>4. t < T!ToInstant(zone, First(day)) <=> T!Local(zone, t) < First(day)
  BY <1>1, InOrder
<1>5. T!ToInstant(zone, Last(day)) < t <=> Last(day) < T!Local(zone, t)
  BY <1>1, InOrder
<1>6. T!Local(zone, t) \div Day = day
        <=> First(day) <= T!Local(zone, t) /\ T!Local(zone, t) <= Last(day)
  BY <1>3, DayOf
<1> QED
  BY <1>1, <1>2, <1>3, <1>4, <1>5, <1>6

\* A coupon that is active may be used until its last day has ended on the clocks, and one
\* that was used up never, however the clocks change, as long as they show the end of that
\* day once (isCouponExpired, computeCuponStatus, redeem).
THEOREM CouponsLastTheirDays ==
  ASSUME Day \in Nat \ {0}
  PROVE  \A zone \in Zone, day \in Int, now \in Int, maxUses \in Nat, uses \in Nat,
            active \in BOOLEAN :
           ShownOnce(zone, Last(day)) =>
             (T!Redeemable(zone, [active |-> active, maxUses |-> maxUses, uses |-> uses,
                                  expires |-> {day}], now)
                <=> /\ active /\ (maxUses = 0 \/ uses < maxUses)
                    /\ T!Local(zone, now) \div Day <= day)
<1> SUFFICES ASSUME NEW zone \in Zone, NEW day \in Int, NEW now \in Int, NEW maxUses \in Nat,
                    NEW uses \in Nat, NEW active \in BOOLEAN, ShownOnce(zone, Last(day)),
                    NEW coupon, coupon = [active |-> active, maxUses |-> maxUses, uses |-> uses,
                                          expires |-> {day}]
             PROVE  T!Redeemable(zone, coupon, now)
                      <=> /\ active /\ (maxUses = 0 \/ uses < maxUses)
                          /\ T!Local(zone, now) \div Day <= day
  OBVIOUS
<1>1. Last(day) \in Int /\ T!Local(zone, now) \in Int
  BY LocalIsInt DEF Last
<1>2. T!DayBounds(zone, day).end < now <=> Last(day) < T!Local(zone, now)
  <2>1. T!DayBounds(zone, day).end = T!ToInstant(zone, Last(day))
    BY DEF T!DayBounds, Last
  <2> QED
    BY <1>1, <2>1, InOrder
<1>3. T!CouponExpired(zone, coupon, now) <=> Last(day) < T!Local(zone, now)
  BY <1>2 DEF T!CouponExpired
<1>4. T!Local(zone, now) \div Day <= day <=> T!Local(zone, now) <= Last(day)
  BY <1>1, NotAfter
<1> QED
  BY <1>1, <1>3, <1>4 DEF T!Redeemable, T!CouponStatus

\* The end of a month is that of the last day before the next one begins: it is not before
\* the instant it is asked for, and what is valid until then is so on every day of the month
\* and on no later one (getBusinessMonthEnd).
THEOREM MonthsAreWhole ==
  ASSUME Day \in Nat \ {0}
  PROVE  \A zone \in Zone, firsts \in Seq(Int), k \in Nat, now \in Int, t \in Int :
           /\ k \in 1..(Len(firsts) - 1)
           /\ \A m, n \in 1..Len(firsts) : m < n => firsts[m] < firsts[n]
           /\ firsts[k] <= T!Local(zone, now) \div Day /\ T!Local(zone, now) \div Day < firsts[k + 1]
           /\ ShownOnce(zone, Last(firsts[k + 1] - 1))
           => /\ now <= T!MonthEnd(zone, firsts, now)
              /\ t <= T!MonthEnd(zone, firsts, now) <=> T!Local(zone, t) \div Day < firsts[k + 1]
<1> SUFFICES ASSUME NEW zone \in Zone, NEW firsts \in Seq(Int), NEW now \in Int, NEW t \in Int,
                    NEW k \in 1..(Len(firsts) - 1),
                    \A m, n \in 1..Len(firsts) : m < n => firsts[m] < firsts[n],
                    firsts[k] <= T!Local(zone, now) \div Day,
                    T!Local(zone, now) \div Day < firsts[k + 1],
                    ShownOnce(zone, Last(firsts[k + 1] - 1))
             PROVE  /\ now <= T!MonthEnd(zone, firsts, now)
                    /\ t <= T!MonthEnd(zone, firsts, now) <=> T!Local(zone, t) \div Day < firsts[k + 1]
  OBVIOUS
<1> DEFINE last == firsts[k + 1] - 1
<1>1. /\ Len(firsts) \in Nat /\ \A m \in 1..Len(firsts) : firsts[m] \in Int
      /\ DOMAIN firsts = 1..Len(firsts) /\ k \in Int /\ k + 1 \in 1..Len(firsts)
      /\ last \in Int
  OBVIOUS
<1>2. PICK today \in Int : today = T!Local(zone, now) \div Day
  <2>1. T!Local(zone, now) \in Int
    BY LocalIsInt
  <2> QED
    BY <2>1
<1>3. (CHOOSE m \in DOMAIN firsts : firsts[m] <= today /\ today < firsts[m + 1]) = k
  <2> SUFFICES ASSUME NEW m \in DOMAIN firsts, firsts[m] <= today, today < firsts[m + 1]
               PROVE  m = k
    BY <1>1, <1>2
  <2>1. ~(k < m)
    <3> SUFFICES ASSUME k < m PROVE FALSE
      OBVIOUS
    <3>1. k + 1 = m \/ k + 1 < m
      BY <1>1
    <3>2. firsts[k + 1] <= firsts[m] /\ firsts[k + 1] \in Int /\ firsts[m] \in Int
      BY <1>1, <3>1
    <3>3. today < firsts[k + 1]
      BY <1>2
    <3> QED
      BY <3>2, <3>3
  <2>2. ~(m < k)
    <3> SUFFICES ASSUME m < k PROVE FALSE
      OBVIOUS
    <3>1. m + 1 \in 1..Len(firsts) /\ (m + 1 = k \/ m + 1 < k)
      BY <1>1
    <3>2. firsts[m + 1] <= firsts[k] /\ firsts[m + 1] \in Int /\ firsts[k] \in Int
      BY <1>1, <3>1
    <3>3. firsts[k] <= today
      BY <1>2
    <3> QED
      BY <3>2, <3>3
  <2> QED
    BY <1>1, <2>1, <2>2
<1>4. T!MonthEnd(zone, firsts, now) = T!ToInstant(zone, Last(last))
  BY <1>2, <1>3 DEF T!MonthEnd, T!DayBounds, Last
<1>5. Last(last) \in Int /\ T!ToInstant(zone, Last(last)) \in Int
  <2>1. Last(last) \in Int
    BY <1>1 DEF Last
  <2> QED
    BY <2>1, LocalIsInt
<1>6. ASSUME NEW u \in Int
      PROVE  u <= T!ToInstant(zone, Last(last)) <=> T!Local(zone, u) \div Day < firsts[k + 1]
  <2>1. T!Local(zone, u) \in Int /\ T!Local(zone, u) \div Day \in Int
    <3>1. T!Local(zone, u) \in Int
      BY LocalIsInt
    <3> QED
      BY <3>1
  <2>2. T!ToInstant(zone, Last(last)) < u <=> Last(last) < T!Local(zone, u)
    BY <1>5, InOrder
  <2>3. T!Local(zone, u) \div Day <= last <=> T!Local(zone, u) <= Last(last)
    BY <1>1, <2>1, NotAfter
  <2> QED
    BY <1>1, <1>5, <2>1, <2>2, <2>3
<1> QED
  BY <1>2, <1>4, <1>6

-----------------------------------------------------------------------------
(* Reports *)

SlaValue == Int \cup {Unset}
RawSla == [warning: SlaValue, critical: SlaValue, delivery: SlaValue, alerts: BOOLEAN \cup {Unset}]

LEMMA BoundedIs ==
  ASSUME Unset \notin Int, NEW value \in SlaValue, NEW default \in Int, NEW least \in Int,
         NEW most \in Int, least <= default, default <= most
  PROVE  /\ R!Bounded(value, default, least, most) \in Int
         /\ least <= R!Bounded(value, default, least, most)
         /\ R!Bounded(value, default, least, most) <= most
         /\ value # Unset /\ least <= value /\ value <= most
              => R!Bounded(value, default, least, most) = value
  BY DEF R!Bounded, R!Least, R!Most, SlaValue

\* Whatever numbers are saved for the service levels, the warning comes before the alarm, all
\* are within their bounds, and saving what is in force changes nothing
\* (normalizeServiceSlaConfig).
THEOREM SlaWarnsFirst ==
  ASSUME Unset \notin Int
  PROVE  \A raw \in RawSla :
           LET config == R!SlaConfig(raw) IN
           /\ config.warning \in 1..240 /\ config.warning < config.critical
           /\ config.critical <= 360 /\ config.delivery \in 5..720
           /\ R!SlaConfig(config) = config
<1> SUFFICES ASSUME NEW raw \in RawSla, NEW config, config = R!SlaConfig(raw)
             PROVE  /\ config.warning \in 1..240 /\ config.warning < config.critical
                    /\ config.critical <= 360 /\ config.delivery \in 5..720
                    /\ R!SlaConfig(config) = config
  OBVIOUS
<1>1. /\ raw.warning \in SlaValue /\ raw.critical \in SlaValue /\ raw.delivery \in SlaValue
  BY DEF RawSla
<1>2. PICK w : w = R!Bounded(raw.warning, 12, 1, 240)
  OBVIOUS
<1>3. PICK c : c = R!Bounded(raw.critical, 18, 2, 360)
  OBVIOUS
<1>4. PICK d : d = R!Bounded(raw.delivery, 35, 5, 720)
  OBVIOUS
<1>5. w \in 1..240
  BY <1>1, <1>2, BoundedIs
<1>6. c \in 2..360
  BY <1>1, <1>3, BoundedIs
<1>7. d \in 5..720
  BY <1>1, <1>4, BoundedIs
<1>8. PICK top : top = R!Most(w + 1, c)
  OBVIOUS
<1>9. top \in 2..360 /\ w < top
  BY <1>5, <1>6, <1>8 DEF R!Most
<1>10. config = [warning |-> w, critical |-> top, delivery |-> d,
                 alerts |-> R!OrElse(raw.alerts, TRUE)]
  BY <1>2, <1>3, <1>4, <1>8 DEF R!SlaConfig
<1>11. config.warning = w /\ config.critical = top /\ config.delivery = d
       /\ config.alerts = R!OrElse(raw.alerts, TRUE)
  BY <1>10
<1>12. R!Bounded(w, 12, 1, 240) = w /\ R!Bounded(top, 18, 2, 360) = top
       /\ R!Bounded(d, 35, 5, 720) = d
  <2>1. /\ w \in SlaValue /\ w # Unset /\ 1 <= w /\ w <= 240
        /\ top \in SlaValue /\ top # Unset /\ 2 <= top /\ top <= 360
        /\ d \in SlaValue /\ d # Unset /\ 5 <= d /\ d <= 720
    BY <1>5, <1>7, <1>9 DEF SlaValue
  <2>2. R!Bounded(w, 12, 1, 240) = w
    BY <2>1, BoundedIs
  <2>3. R!Bounded(top, 18, 2, 360) = top
    BY <2>1, BoundedIs
  <2>4. R!Bounded(d, 35, 5, 720) = d
    BY <2>1, BoundedIs
  <2> QED
    BY <2>2, <2>3, <2>4
<1>13. R!Most(w + 1, top) = top
  BY <1>5, <1>9 DEF R!Most
<1>16. R!OrElse(config.alerts, TRUE) = config.alerts
  BY <1>11 DEF R!OrElse
<1>14. R!SlaConfig(config) = [warning |-> w, critical |-> top, delivery |-> d,
                              alerts |-> config.alerts]
  <2>1. R!SlaConfig(config) =
          [warning |-> R!Bounded(config.warning, 12, 1, 240),
           critical |-> R!Most(R!Bounded(config.warning, 12, 1, 240) + 1,
                               R!Bounded(config.critical, 18, 2, 360)),
           delivery |-> R!Bounded(config.delivery, 35, 5, 720),
           alerts |-> R!OrElse(config.alerts, TRUE)]
    BY DEF R!SlaConfig
  <2>2. /\ R!Bounded(config.warning, 12, 1, 240) = w
        /\ R!Bounded(config.critical, 18, 2, 360) = top
        /\ R!Bounded(config.delivery, 35, 5, 720) = d
    BY <1>11, <1>12
  <2>3. R!Most(R!Bounded(config.warning, 12, 1, 240) + 1,
               R!Bounded(config.critical, 18, 2, 360)) = top
    BY <1>13, <2>2, Zenon
  <2> QED
    BY <1>16, <2>1, <2>2, <2>3, Zenon
<1>15. config = [warning |-> w, critical |-> top, delivery |-> d, alerts |-> config.alerts]
  BY <1>10
<1>17. /\ config.warning \in 1..240 /\ config.warning < config.critical
       /\ config.critical <= 360 /\ config.delivery \in 5..720
  BY <1>5, <1>7, <1>9, <1>11
<1> QED
  BY <1>14, <1>15, <1>17

-----------------------------------------------------------------------------
(* Pricing *)

LEMMA SourcesAre == P!Sources = {"coupon", "discount", "happyHour"}
  BY DEF P!Sources

LEMMA SameCount == \A S : P!Cardinality(S) = Cardinality(S)
  BY DEF P!Cardinality, Cardinality

\* The promotion that a selection names on its own.
LEMMA ChosenOne ==
  ASSUME NEW source \in P!Sources
  PROVE  P!Chosen([source |-> "unset", named |-> {source}]) = source
<1>1. P!Cardinality({source}) = 1
  BY SameCount, FS_Singleton
<1>2. (CHOOSE s \in {source} : TRUE) = source
  OBVIOUS
<1> QED
  BY <1>1, <1>2 DEF P!Chosen

\* At most one promotion is applied to an order: one that the request names and no other,
\* or, when it says nothing, the one that the order has; and what was applied stays applied
\* by requests that say nothing, whatever a request declares and names (resolvePromotion).
THEOREM OnePromotionAtMost ==
  \A sel, stored \in P!Selection :
    LET source == P!Resolve(sel, stored) IN
    /\ source \in P!Sources =>
         sel.named = {source} \/ (sel = P!NoSelection /\ stored.named = {source})
    /\ source = "none" => sel.named = {}
    /\ source # "rejected" =>
         P!Resolve(P!NoSelection, [source |-> "unset",
                                   named |-> IF source = "none" THEN {} ELSE {source}]) = source
<1> SUFFICES ASSUME NEW sel \in P!Selection, NEW stored \in P!Selection,
                    NEW source, source = P!Resolve(sel, stored)
             PROVE  /\ source \in P!Sources =>
                         sel.named = {source} \/ (sel = P!NoSelection /\ stored.named = {source})
                    /\ source = "none" => sel.named = {}
                    /\ source # "rejected" =>
                         P!Resolve(P!NoSelection,
                           [source |-> "unset",
                            named |-> IF source = "none" THEN {} ELSE {source}]) = source
  OBVIOUS
<1>1. /\ sel.source \in P!Sources \cup {"none", "unset"} /\ sel.named \in SUBSET P!Sources
      /\ stored.source \in P!Sources \cup {"none", "unset"} /\ stored.named \in SUBSET P!Sources
      /\ sel = [source |-> sel.source, named |-> sel.named]
  BY DEF P!Selection
<1>2. PICK used \in {sel, stored} :
        /\ used = IF sel.source = "unset" /\ sel.named = {} /\ stored # P!NoSelection
                    THEN stored ELSE sel
  OBVIOUS
<1>3. source # "rejected" => source = P!Chosen(used) /\ P!Consistent(source, used.named)
  BY <1>2 DEF P!Resolve
<1>4. source \in P!Sources => used.named = {source}
  BY <1>3, SourcesAre DEF P!Consistent
<1>5. source = "none" => used.named = {}
  BY <1>3 DEF P!Consistent
<1>6. source = "rejected" \/ source = "none" \/ source \in P!Sources
  <2>1. CASE used.source # "unset"
    BY <1>1, <1>2, <1>3, <2>1 DEF P!Chosen
  <2>2. CASE used.source = "unset" /\ used.named = {}
    BY <1>3, <2>2 DEF P!Chosen
  <2>3. CASE used.source = "unset" /\ used.named # {}
    <3>1. (CHOOSE s \in used.named : TRUE) \in P!Sources
      BY <1>1, <1>2, <2>3
    <3>2. P!Chosen(used) = IF P!Cardinality(used.named) = 1 THEN CHOOSE s \in used.named : TRUE
                           ELSE "rejected"
      BY <2>3 DEF P!Chosen
    <3> QED
      BY <1>3, <3>1, <3>2
  <2> QED
    BY <2>1, <2>2, <2>3
<1>7. source \in P!Sources =>
        sel.named = {source} \/ (sel = P!NoSelection /\ stored.named = {source})
  BY <1>1, <1>2, <1>4 DEF P!NoSelection
<1>8. source = "none" => sel.named = {}
  BY <1>2, <1>5
<1>9. source # "rejected" =>
        P!Resolve(P!NoSelection, [source |-> "unset",
                                  named |-> IF source = "none" THEN {} ELSE {source}]) = source
  <2>1. CASE source = "none"
    BY <2>1 DEF P!Resolve, P!Chosen, P!Consistent, P!NoSelection
  <2>2. CASE source \in P!Sources
    <3>1. source # "none" /\ source # "rejected"
      BY <2>2, SourcesAre
    <3>2. PICK again : again = [source |-> "unset", named |-> {source}]
      OBVIOUS
    <3>3. again # P!NoSelection /\ again.named = {source} /\ P!Chosen(again) = source
      BY <2>2, <3>2, ChosenOne DEF P!NoSelection
    <3>4. P!Resolve(P!NoSelection, again) = source
      BY <3>1, <3>3 DEF P!Resolve, P!Consistent, P!NoSelection
    <3> QED
      BY <3>1, <3>2, <3>4
  <2> QED
    BY <1>6, <2>1, <2>2
<1> QED
  BY <1>7, <1>8, <1>9

\* A discount is taken from what the promotion covers and from no more; and neither a
\* promotion nor a discount set by hand makes what is due negative or more than the sum
\* (calculateDiscount, applyDiscountOverride, calculateWithPrices).
THEOREM DiscountsAreCovered ==
  ASSUME NEW source \in P!Sources \cup {"none"}, NEW rule, rule.value \in Int,
         NEW subTotal \in Nat, NEW eligible \in 0..subTotal, NEW manual \in Int
  PROVE  LET discount == P!Discount(source, rule, eligible)
             override == P!Override(manual, subTotal)
         IN /\ discount \in 0..eligible
            /\ P!Override(discount, subTotal) = discount
            /\ P!Due(subTotal, discount) = subTotal - discount
            /\ override \in 0..subTotal /\ P!Due(subTotal, override) \in 0..subTotal
            /\ manual \in 0..subTotal => override = manual
<1> PICK discount : discount = P!Discount(source, rule, eligible)
  OBVIOUS
<1>1. PICK n \in Int : n = IF rule.kind = "percent" THEN (eligible * rule.value) \div 100
                               ELSE rule.value
  OBVIOUS
<1>2. discount = 0 \/ discount = P!AtMost(P!NotNegative(n), eligible)
  BY <1>1 DEF P!Discount
<1>3. discount \in 0..eligible
  BY <1>2 DEF P!AtMost, P!NotNegative
<1>4. P!Override(discount, subTotal) = discount /\ P!Due(subTotal, discount) = subTotal - discount
  BY <1>3 DEF P!Override, P!Due, P!AtMost, P!NotNegative
<1>5. P!Override(manual, subTotal) \in 0..subTotal
      /\ (manual \in 0..subTotal => P!Override(manual, subTotal) = manual)
  BY DEF P!Override, P!AtMost, P!NotNegative
<1>6. P!Due(subTotal, P!Override(manual, subTotal)) \in 0..subTotal
  BY <1>5 DEF P!Due, P!NotNegative
<1> QED
  BY <1>3, <1>4, <1>5, <1>6

-----------------------------------------------------------------------------
(* OrderRules *)

\* Unless a saved policy says otherwise an order that is paid, or that the kitchen has begun,
\* is cancelled only with the PIN of an account that may authorise it; no order with a paid
\* part, and no invoice of a closed shift, is cancelled at all; and with such a PIN some
\* reason will do as long as one is active (resolveCancellationPolicy, updateStatus).
THEOREM SupervisorIsAsked ==
  ASSUME NEW raw, NEW order, NEW reasonId, NEW pin, NEW accounts, NEW shiftOpen \in BOOLEAN,
         NEW paidParts \in Nat
  PROVE  LET policy == O!VoidPolicy(raw)
             Can(id) == O!MayCancel(policy, order, id, pin, accounts, shiftOpen, paidParts)
             Open == paidParts = 0 /\ (order.status = "paid" /\ order.shift # Unset => shiftOpen)
         IN /\ Can(reasonId) =>
                 /\ Open
                 /\ (\/ order.status = "paid" /\ raw.paid \in {TRUE, Unset}
                     \/ O!WasPrepared(order) /\ raw.prepared \in {TRUE, Unset})
                      => pin # Unset /\ \E u \in accounts :
                           u.pin = pin /\ "orders.cancel.authorize" \in u.permissions
            /\ O!Authorizes(pin, accounts) /\ Open =>
                 ((\E id : Can(id)) <=> O!ActiveReasons(policy) # {})
<1> PICK policy : policy = O!VoidPolicy(raw)
  OBVIOUS
<1>1. /\ raw.paid \in {TRUE, Unset} => policy.paid
      /\ raw.prepared \in {TRUE, Unset} => policy.prepared
  BY DEF O!VoidPolicy, O!OrElse
<1>2. ASSUME O!MayCancel(policy, order, reasonId, pin, accounts, shiftOpen, paidParts)
      PROVE  /\ paidParts = 0 /\ (order.status = "paid" /\ order.shift # Unset => shiftOpen)
             /\ (\/ order.status = "paid" /\ raw.paid \in {TRUE, Unset}
                 \/ O!WasPrepared(order) /\ raw.prepared \in {TRUE, Unset})
                  => O!Authorizes(pin, accounts)
  BY <1>1, <1>2 DEF O!MayCancel, O!NeedsSupervisor
<1>3. ASSUME O!Authorizes(pin, accounts), paidParts = 0,
             order.status = "paid" /\ order.shift # Unset => shiftOpen
      PROVE  (\E id : O!MayCancel(policy, order, id, pin, accounts, shiftOpen, paidParts))
               <=> O!ActiveReasons(policy) # {}
  BY <1>3 DEF O!MayCancel
<1> QED
  BY <1>2, <1>3 DEF O!Authorizes

\* Of the items that are accepted, however many, every one that is given away is given for a
\* certificate of the order or as two-for-one, and the order uses no certificate besides
\* those and the ones that it names (extractCertificateSerials).
THEOREM GiftsAreCertified ==
  ASSUME NEW items, NEW named
  PROVE  LET serials == O!CertificateSerials(items, named) IN
         serials # Unset =>
           /\ \A k \in DOMAIN items :
                items[k].gift > 0 /\ ~items[k].twoForOne => items[k].note \in serials
           /\ \A serial \in serials :
                serial \in named \/ \E k \in DOMAIN items :
                                      items[k].note = serial /\ items[k].gift > 0
<1> PICK serials : serials = O!CertificateSerials(items, named)
  OBVIOUS
<1> SUFFICES ASSUME serials # Unset
             PROVE  /\ \A k \in DOMAIN items :
                         items[k].gift > 0 /\ ~items[k].twoForOne => items[k].note \in serials
                    /\ \A serial \in serials :
                         serial \in named \/ \E k \in DOMAIN items :
                                               items[k].note = serial /\ items[k].gift > 0
  OBVIOUS
<1>1. O!ToSet(items) = {items[k] : k \in DOMAIN items}
  BY DEF O!ToSet
<1>2. /\ \A k \in DOMAIN items : O!NeedsSerial(items[k]) => O!Serial(items[k]) # Unset
      /\ serials = named \cup {O!Serial(i) : i \in {x \in O!ToSet(items) :
                                                     x.gift > 0 /\ x.note # "none"}}
  BY <1>1 DEF O!CertificateSerials
<1>3. ASSUME NEW k \in DOMAIN items, items[k].gift > 0 /\ ~items[k].twoForOne
      PROVE  items[k].note \in serials
  <2>1. O!Serial(items[k]) # Unset
    BY <1>2, <1>3 DEF O!NeedsSerial
  <2>2. O!Serial(items[k]) = items[k].note /\ items[k].note # "none"
    BY <2>1 DEF O!Serial
  <2> QED
    BY <1>1, <1>2, <1>3, <2>2
<1>4. ASSUME NEW serial \in serials, serial \notin named
      PROVE  \E k \in DOMAIN items : items[k].note = serial /\ items[k].gift > 0
  <2>1. PICK k \in DOMAIN items :
          items[k].gift > 0 /\ items[k].note # "none" /\ serial = O!Serial(items[k])
    BY <1>1, <1>2, <1>4
  <2>2. items[k].note # "vale"
    BY <1>2, <2>1 DEF O!Serial, O!NeedsSerial
  <2> QED
    BY <2>1, <2>2 DEF O!Serial
<1> QED
  BY <1>3, <1>4

\* An item of an order, with values of any kind.
Part(Sold, Kitchen) == [sold: Sold, kitchen: Kitchen]
Item(Value, Sold, Kitchen) ==
  [id: Value, sold: Sold, price: Value, extras: Value, cooked: BOOLEAN, sent: BOOLEAN,
   sentAt: Value, kitchen: Kitchen, credit: BOOLEAN, parts: Seq(Part(Sold, Kitchen))]

\* What is sold of an item, but for the kitchen.
SameSale(new, old) ==
  /\ new.id = old.id /\ new.sold = old.sold /\ new.price = old.price
  /\ new.extras = old.extras /\ new.cooked = old.cooked /\ new.credit = old.credit
  /\ DOMAIN new.parts = DOMAIN old.parts
  /\ \A j \in DOMAIN old.parts : new.parts[j].sold = old.parts[j].sold

LEMMA OperationalSells ==
  ASSUME NEW Value, NEW Sold, NEW Kitchen, NEW old \in Item(Value, Sold, Kitchen),
         NEW incoming \in Item(Value, Sold, Kitchen)
  PROVE  /\ SameSale(O!Operational(old, incoming), old)
         /\ old.sent => O!Operational(old, incoming).sent
<1> PICK new : new = O!Operational(old, incoming)
  OBVIOUS
<1>1. new = [old EXCEPT !.sent = @ \/ incoming.sent,
                        !.sentAt = O!OrElse(incoming.sentAt, @),
                        !.kitchen = O!OrElse(incoming.kitchen, @),
                        !.parts = [j \in DOMAIN @ |->
                          [old.parts[j] EXCEPT !.kitchen = O!OrElse(incoming.parts[j].kitchen, @)]]]
  BY DEF O!Operational
<1>2. /\ new.id = old.id /\ new.sold = old.sold /\ new.price = old.price
      /\ new.extras = old.extras /\ new.cooked = old.cooked /\ new.credit = old.credit
      /\ new.sent = (old.sent \/ incoming.sent)
  BY <1>1 DEF Item
<1>3. new.parts = [j \in DOMAIN old.parts |->
                    [old.parts[j] EXCEPT !.kitchen = O!OrElse(incoming.parts[j].kitchen, @)]]
  BY <1>1 DEF Item
<1>4. ASSUME NEW j \in DOMAIN old.parts
      PROVE  new.parts[j].sold = old.parts[j].sold
  <2>1. old.parts[j] \in Part(Sold, Kitchen)
    BY DEF Item
  <2> QED
    BY <1>3, <2>1 DEF Part
<1>5. DOMAIN new.parts = DOMAIN old.parts
  BY <1>3
<1> QED
  BY <1>2, <1>4, <1>5 DEF SameSale

\* Among the places of a sequence that are taken, one is the last.
LEMMA LastPlace ==
  ASSUME NEW n \in Nat, NEW Places \in SUBSET (1..n), Places # {}
  PROVE  O!Max(Places) \in Places
<1> DEFINE FromEnd == {n - k : k \in Places}
<1>1. FromEnd \subseteq Nat /\ FromEnd # {}
  <2>1. \A k \in Places : n - k \in Nat
    OBVIOUS
  <2> QED
    BY <2>1
<1> HIDE DEF FromEnd
<1>2. PICK least \in FromEnd : \A m \in FromEnd : <<m, least>> \notin OpToRel(<, Nat)
  BY <1>1, WFMin, NatLessThanWellFounded
<1>3. \A m \in FromEnd : least <= m
  <2> SUFFICES ASSUME NEW m \in FromEnd, m < least
               PROVE  FALSE
    BY <1>1
  <2>1. <<m, least>> \in Nat \X Nat /\ <<m, least>>[1] < <<m, least>>[2]
    BY <1>1
  <2>2. <<m, least>> \in OpToRel(<, Nat)
    BY <2>1 DEF OpToRel
  <2> QED
    BY <1>2, <2>2
<1>4. PICK last \in Places : least = n - last
  BY <1>2 DEF FromEnd
<1>5. \A k \in Places : last >= k
  <2> SUFFICES ASSUME NEW k \in Places
               PROVE  last >= k
    OBVIOUS
  <2>1. n - last <= n - k
    BY <1>3, <1>4 DEF FromEnd
  <2> QED
    BY <2>1
<1> QED
  BY <1>5 DEF O!Max

\* The item that an edit brings for another is one of its items.
LEMMA IncomingIsItem ==
  ASSUME NEW Items, NEW existing \in Seq(Items), NEW incoming \in Seq(Items),
         Len(incoming) = Len(existing), NEW k \in DOMAIN existing
  PROVE  O!Incoming(existing, incoming, k) \in 0..Len(incoming)
<1> DEFINE Same == {i \in 1..Len(incoming) : incoming[i].id = existing[k].id}
<1>1. Same \in SUBSET (1..Len(incoming)) /\ Len(incoming) \in Nat
  OBVIOUS
<1>2. Same # {} => O!Max(Same) \in 1..Len(incoming)
  BY <1>1, LastPlace
<1>3. O!SelectLastInSeq(incoming, LAMBDA i : i.id = existing[k].id)
        = IF Same # {} THEN O!Max(Same) ELSE 0
  BY DEF O!SelectLastInSeq
<1> HIDE DEF Same
<1> QED
  BY <1>2, <1>3 DEF O!Incoming

\* What an invoice charges for is not changed by an edit, and no item is withdrawn from the
\* kitchen, however many items there are: an edit that is accepted has an item for each one,
\* of the same commercial content (mergePaidOrderOperationalItems).
THEOREM InvoicedItemsStay ==
  ASSUME NEW Value, NEW Sold, NEW Kitchen, NEW existing \in Seq(Item(Value, Sold, Kitchen)),
         NEW incoming \in Seq(Item(Value, Sold, Kitchen))
  PROVE  LET merged == O!MergePaid(existing, incoming) IN
         merged # Unset =>
           /\ DOMAIN merged = DOMAIN existing /\ Len(incoming) = Len(existing)
           /\ \A k \in DOMAIN existing :
                /\ SameSale(merged[k], existing[k])
                /\ existing[k].sent => merged[k].sent
                /\ ~existing[k].cooked => merged[k] = existing[k]
                /\ O!CommerciallySame(existing[k], incoming[O!Incoming(existing, incoming, k)])
<1> PICK merged : merged = O!MergePaid(existing, incoming)
  OBVIOUS
<1> SUFFICES ASSUME merged # Unset
             PROVE  /\ DOMAIN merged = DOMAIN existing /\ Len(incoming) = Len(existing)
                    /\ \A k \in DOMAIN existing :
                         /\ SameSale(merged[k], existing[k])
                         /\ existing[k].sent => merged[k].sent
                         /\ ~existing[k].cooked => merged[k] = existing[k]
                         /\ O!CommerciallySame(existing[k],
                                               incoming[O!Incoming(existing, incoming, k)])
  OBVIOUS
<1> DEFINE With(k) == incoming[O!Incoming(existing, incoming, k)]
<1>1. /\ Len(incoming) = Len(existing)
      /\ \A k \in DOMAIN existing : O!Incoming(existing, incoming, k) # 0
      /\ \A k \in DOMAIN existing : O!CommerciallySame(existing[k], With(k))
      /\ merged = [k \in DOMAIN existing |->
                    IF existing[k].cooked THEN O!Operational(existing[k], With(k))
                    ELSE existing[k]]
  BY DEF O!MergePaid
<1>2. ASSUME NEW k \in DOMAIN existing
      PROVE  SameSale(merged[k], existing[k]) /\ (existing[k].sent => merged[k].sent)
             /\ (~existing[k].cooked => merged[k] = existing[k])
  <2>1. existing[k] \in Item(Value, Sold, Kitchen) /\ With(k) \in Item(Value, Sold, Kitchen)
    BY <1>1, IncomingIsItem
  <2>2. CASE existing[k].cooked
    BY <1>1, <2>1, <2>2, OperationalSells
  <2>3. CASE ~existing[k].cooked
    BY <1>1, <2>3 DEF SameSale
  <2> QED
    BY <2>2, <2>3
<1> QED
  BY <1>1, <1>2

\* Once a bill is settled the kitchen has exactly what it prepares of it; what it had is left
\* alone, and settling once more changes nothing (ensureKitchenItemsSentOnSettlement).
THEOREM SettledBillIsSent ==
  ASSUME NEW Value, NEW Sold, NEW Kitchen, NEW items \in Seq(Item(Value, Sold, Kitchen)),
         NEW now, NEW later
  PROVE  LET settled == O!SentOnSettlement(items, now) IN
         /\ DOMAIN settled = DOMAIN items
         /\ \A k \in DOMAIN items : settled[k].sent = items[k].cooked
         /\ \A k \in DOMAIN items : items[k].cooked /\ items[k].sent => settled[k] = items[k]
         /\ O!SentOnSettlement(settled, later) = settled
<1> DEFINE Sent(i, at) ==
      IF ~i.cooked THEN [i EXCEPT !.sent = FALSE, !.sentAt = Unset, !.kitchen = Unset]
      ELSE IF i.sent THEN i
      ELSE [i EXCEPT !.sent = TRUE, !.sentAt = O!OrElse(@, at), !.kitchen = O!OrElse(@, "pending")]
<1> PICK settled : settled = O!SentOnSettlement(items, now)
  OBVIOUS
<1>1. settled = [k \in DOMAIN items |-> Sent(items[k], now)]
  BY DEF O!SentOnSettlement
<1>2. O!SentOnSettlement(settled, later) = [k \in DOMAIN settled |-> Sent(settled[k], later)]
  BY DEF O!SentOnSettlement
<1>3. ASSUME NEW i \in Item(Value, Sold, Kitchen)
      PROVE  /\ Sent(i, now).sent = i.cooked /\ Sent(i, now).cooked = i.cooked
             /\ i.cooked /\ i.sent => Sent(i, now) = i
             /\ Sent(Sent(i, now), later) = Sent(i, now)
  <2>1. CASE ~i.cooked
    <3>1. PICK n : n = [i EXCEPT !.sent = FALSE, !.sentAt = Unset, !.kitchen = Unset]
      OBVIOUS
    <3>2. ~n.cooked /\ ~n.sent /\ n.sent = i.cooked /\ n.cooked = i.cooked
      BY <2>1, <3>1 DEF Item
    <3>3. [n EXCEPT !.sent = FALSE, !.sentAt = Unset, !.kitchen = Unset] = n
      BY <3>1 DEF Item
    <3> QED
      BY <2>1, <3>1, <3>2, <3>3
  <2>2. CASE i.cooked /\ i.sent
    BY <2>2
  <2>3. CASE i.cooked /\ ~i.sent
    <3>1. PICK n : n = [i EXCEPT !.sent = TRUE, !.sentAt = O!OrElse(@, now),
                                 !.kitchen = O!OrElse(@, "pending")]
      OBVIOUS
    <3>2. n.cooked /\ n.sent /\ n.sent = i.cooked /\ n.cooked = i.cooked
      BY <2>3, <3>1 DEF Item
    <3> QED
      BY <2>3, <3>1, <3>2
  <2> QED
    BY <2>1, <2>2, <2>3
<1> HIDE DEF Sent
<1>4. ASSUME NEW k \in DOMAIN items
      PROVE  /\ settled[k].sent = items[k].cooked
             /\ items[k].cooked /\ items[k].sent => settled[k] = items[k]
             /\ Sent(settled[k], later) = settled[k]
  BY <1>1, <1>3
<1> QED
  BY <1>1, <1>2, <1>4

-----------------------------------------------------------------------------
(* Notices *)

\* A ready order is told to a seller, Unset when it has none, and to the driver of a delivery.
RidesFor(delivery, driver) ==
  delivery /\ driver # Unset /\ driver.active /\ driver.role = "MOTORIZADO"
Told(seller, delivery, driver) ==
  {N!Notice("CAJERO", seller), N!Notice("CAJERO_PRINCIPAL", Unset), N!Notice("ADMIN", Unset),
   N!Notice("MESERO", seller)}
  \cup (IF delivery THEN {N!Notice("DESPACHADOR", Unset)} ELSE {})
  \cup (IF RidesFor(delivery, driver) THEN {N!Notice("MOTORIZADO", driver.name)} ELSE {})

InSeq(s) == {s[k] : k \in DOMAIN s}

LEMMA CatHolds ==
  ASSUME NEW Values, NEW s \in Seq(Values), NEW t \in Seq(Values)
  PROVE  InSeq(s \o t) = InSeq(s) \cup InSeq(t)
<1>1. /\ Len(s) \in Nat /\ Len(t) \in Nat /\ DOMAIN s = 1..Len(s) /\ DOMAIN t = 1..Len(t)
      /\ DOMAIN (s \o t) = 1..(Len(s) + Len(t))
      /\ \A k \in DOMAIN (s \o t) : (s \o t)[k] = IF k <= Len(s) THEN s[k] ELSE t[k - Len(s)]
  OBVIOUS
<1>2. ASSUME NEW k \in DOMAIN (s \o t)
      PROVE  (s \o t)[k] \in InSeq(s) \cup InSeq(t)
  <2>1. CASE k <= Len(s)
    BY <1>1, <2>1 DEF InSeq
  <2>2. CASE ~(k <= Len(s))
    <3>1. k - Len(s) \in DOMAIN t
      BY <1>1, <2>2
    <3> QED
      BY <1>1, <2>2, <3>1 DEF InSeq
  <2> QED
    BY <2>1, <2>2
<1>3. ASSUME NEW k \in DOMAIN s
      PROVE  s[k] \in InSeq(s \o t)
  <2>1. k \in DOMAIN (s \o t) /\ (s \o t)[k] = s[k]
    BY <1>1
  <2> QED
    BY <2>1 DEF InSeq
<1>4. ASSUME NEW k \in DOMAIN t
      PROVE  t[k] \in InSeq(s \o t)
  <2>1. k + Len(s) \in DOMAIN (s \o t) /\ (s \o t)[k + Len(s)] = t[k]
    BY <1>1
  <2> QED
    BY <2>1 DEF InSeq
<1> QED
  BY <1>2, <1>3, <1>4 DEF InSeq

LEMMA CatThree ==
  \A Values : \A r, s, t \in Seq(Values) :
    InSeq((r \o s) \o t) = InSeq(r) \cup InSeq(s) \cup InSeq(t)
<1> SUFFICES ASSUME NEW Values, NEW r \in Seq(Values), NEW s \in Seq(Values), NEW t \in Seq(Values)
             PROVE  InSeq((r \o s) \o t) = InSeq(r) \cup InSeq(s) \cup InSeq(t)
  OBVIOUS
<1>1. r \o s \in Seq(Values)
  OBVIOUS
<1>2. InSeq(r \o s) = InSeq(r) \cup InSeq(s)
  BY CatHolds
<1>3. InSeq((r \o s) \o t) = InSeq(r \o s) \cup InSeq(t)
  BY <1>1, CatHolds
<1> QED
  BY <1>2, <1>3

LEMMA ReadyTells ==
  ASSUME NEW seller, NEW delivery \in BOOLEAN, NEW driver
  PROVE  LET notices == N!OrderReady(seller, delivery, driver) IN
         {notices[k] : k \in DOMAIN notices} = Told(seller, delivery, driver)
<1> PICK notices : notices = N!OrderReady(seller, delivery, driver)
  OBVIOUS
<1> PICK a, b, c, d, e, f :
      /\ a = N!Notice("CAJERO", seller) /\ b = N!Notice("CAJERO_PRINCIPAL", Unset)
      /\ c = N!Notice("ADMIN", Unset) /\ d = N!Notice("MESERO", seller)
      /\ e = N!Notice("DESPACHADOR", Unset) /\ f = N!Notice("MOTORIZADO", driver.name)
  OBVIOUS
<1>1. notices = <<a, b, c, d>> \o (IF delivery THEN <<e>> ELSE <<>>)
                  \o (IF RidesFor(delivery, driver) THEN <<f>> ELSE <<>>)
  BY DEF N!OrderReady, RidesFor
<1>2. Told(seller, delivery, driver)
        = {a, b, c, d} \cup (IF delivery THEN {e} ELSE {})
            \cup (IF RidesFor(delivery, driver) THEN {f} ELSE {})
  BY DEF Told
<1> PICK Notices : Notices = {a, b, c, d, e, f}
  OBVIOUS
<1> DEFINE first == <<a, b, c, d>>
           s == IF delivery THEN <<e>> ELSE <<>>
           t == IF RidesFor(delivery, driver) THEN <<f>> ELSE <<>>
<1>3. first \in Seq(Notices) /\ s \in Seq(Notices) /\ t \in Seq(Notices)
  <2>1. /\ <<a, b, c, d>> \in Seq(Notices) /\ <<e>> \in Seq(Notices)
        /\ <<f>> \in Seq(Notices) /\ <<>> \in Seq(Notices)
    OBVIOUS
  <2> QED
    BY <2>1
<1>4. /\ InSeq(first) = {a, b, c, d}
      /\ InSeq(s) = IF delivery THEN {e} ELSE {}
      /\ InSeq(t) = IF RidesFor(delivery, driver) THEN {f} ELSE {}
  BY DEF InSeq
<1>5. notices = (first \o s) \o t
  BY <1>1
<1> HIDE DEF first, s, t
<1>6. InSeq((first \o s) \o t) = InSeq(first) \cup InSeq(s) \cup InSeq(t)
  BY <1>3, CatThree
<1>7. InSeq(notices) = Told(seller, delivery, driver)
  BY <1>2, <1>4, <1>5, <1>6
<1> QED
  BY <1>7, Zenon DEF InSeq

\* Names are told apart by how they are spelt, and each has one spelling in lower case.
Spelling(Names) ==
  /\ Lower \in [Names -> Names] /\ \A name \in Names : Lower[Lower[name]] = Lower[name]
  /\ Unset \notin Names

\* Of an order that is ready, whatever the names, the stream sends a user all that the list
\* shows him, and he may mark and delete it; the list leaves out only what is stored under a
\* spelling that is neither his nor, but for a driver, in lower case (getRecentForRole,
\* buildAudienceFilter, NotificationsController.stream).
THEOREM ListedIsStreamed ==
  ASSUME NEW Names, Spelling(Names), NEW Role, NEW seller \in Names \cup {Unset},
         NEW delivery \in BOOLEAN,
         NEW driver \in [active: BOOLEAN, role: Role, name: Names] \cup {Unset}
  PROVE  LET notices == N!OrderReady(seller, delivery, driver) IN
         \A k \in DOMAIN notices, role \in Role, name \in Names :
           LET n == notices[k] IN
           /\ N!Listed(n, role, name)
                => N!Streamed(n, role, name) /\ N!MayChange(n, role, name)
           /\ (/\ N!Streamed(n, role, name)
               /\ n.target \in {Unset, name} \/ (role # "MOTORIZADO" /\ n.target = Lower[name]))
                => N!Listed(n, role, name)
<1> PICK notices : notices = N!OrderReady(seller, delivery, driver)
  OBVIOUS
<1> SUFFICES ASSUME NEW k \in DOMAIN notices, NEW role \in Role, NEW name \in Names,
                    NEW n, n = notices[k]
             PROVE  /\ N!Listed(n, role, name)
                         => N!Streamed(n, role, name) /\ N!MayChange(n, role, name)
                    /\ (/\ N!Streamed(n, role, name)
                        /\ \/ n.target \in {Unset, name}
                           \/ role # "MOTORIZADO" /\ n.target = Lower[name])
                         => N!Listed(n, role, name)
  OBVIOUS
<1>1. n \in Told(seller, delivery, driver)
  BY ReadyTells
<1>2. \/ n.role \in {"CAJERO", "MESERO"} /\ n.target = seller
      \/ n.role \in {"CAJERO_PRINCIPAL", "ADMIN", "DESPACHADOR"} /\ n.target = Unset
      \/ n.role = "MOTORIZADO" /\ n.target \in Names
  BY <1>1 DEF Told, RidesFor, N!Notice
<1> PICK lower, mine : lower = Lower[name] /\ mine = n.target
  OBVIOUS
<1>3. /\ lower \in Names /\ Lower[lower] = lower /\ name # Unset /\ lower # Unset
      /\ Lower[name] = lower
  BY DEF Spelling
<1>4. N!Listed(n, role, name) <=>
        /\ n.role = role
        /\ \/ role = "CAJERO_PRINCIPAL"
           \/ role = "MOTORIZADO" /\ mine = name
           \/ role \in {"CAJERO", "MESERO"} /\ mine \in {name, lower}
           \/ /\ role \notin {"CAJERO_PRINCIPAL", "MOTORIZADO", "CAJERO", "MESERO"}
              /\ mine \in {Unset, name}
  <2>1. CASE role = "CAJERO_PRINCIPAL"
    BY <2>1 DEF N!Listed
  <2>2. CASE role = "MOTORIZADO"
    BY <2>2 DEF N!Listed
  <2>3. CASE role \in {"CAJERO", "MESERO"}
    BY <2>3 DEF N!Listed
  <2>4. CASE role \notin {"CAJERO_PRINCIPAL", "MOTORIZADO", "CAJERO", "MESERO"}
    BY <2>4 DEF N!Listed
  <2> QED
    BY <2>1, <2>2, <2>3, <2>4
<1>5. N!Streamed(n, role, name) <=>
        /\ n.role = role
        /\ \/ mine = Unset /\ role \notin {"MOTORIZADO", "CAJERO", "MESERO"}
           \/ mine # Unset /\ Lower[mine] = lower
  BY DEF N!Streamed, N!Personal
<1>6. N!MayChange(n, role, name) <=>
        \/ role \in {"CAJERO_PRINCIPAL", "ADMIN"}
        \/ /\ n.role = role
           /\ \/ role \in {"MOTORIZADO", "CAJERO", "MESERO"} /\ mine \in {name, lower}
              \/ role \notin {"MOTORIZADO", "CAJERO", "MESERO"} /\ mine \in {Unset, name}
  BY DEF N!MayChange, N!Personal
<1>7. N!Listed(n, role, name) => N!Streamed(n, role, name) /\ N!MayChange(n, role, name)
  BY <1>2, <1>3, <1>4, <1>5, <1>6
<1>8. /\ N!Streamed(n, role, name)
      /\ mine \in {Unset, name} \/ (role # "MOTORIZADO" /\ mine = lower)
      => N!Listed(n, role, name)
  <2>1. CASE n.role \in {"CAJERO", "MESERO"} /\ mine = seller
    BY <1>3, <1>4, <1>5, <2>1
  <2>2. CASE n.role \in {"CAJERO_PRINCIPAL", "ADMIN", "DESPACHADOR"} /\ mine = Unset
    BY <1>3, <1>4, <1>5, <2>2
  <2>3. CASE n.role = "MOTORIZADO" /\ mine \in Names
    BY <1>3, <1>4, <1>5, <2>3 DEF Spelling
  <2> QED
    BY <1>2, <2>1, <2>2, <2>3
<1> QED
  BY <1>7, <1>8

\* Of an order that is ready, whatever the names, the administrators and the head of the tills
\* hear; of the tills and the tables whoever sold it and nobody else; the dispatch of
\* deliveries alone, and a driver only of a delivery of his while his account rides
\* (handleOrderReadyEvent).
THEOREM SellersHear ==
  ASSUME NEW Names, Spelling(Names), NEW Role, NEW seller \in Names, NEW delivery \in BOOLEAN,
         NEW driver \in [active: BOOLEAN, role: Role, name: Names] \cup {Unset},
         NEW name \in Names
  PROVE  LET notices == N!OrderReady(seller, delivery, driver)
             Hears(role) == \E k \in DOMAIN notices : N!Streamed(notices[k], role, name)
         IN /\ Hears("ADMIN") /\ Hears("CAJERO_PRINCIPAL")
            /\ \A role \in {"CAJERO", "MESERO"} : Hears(role) <=> Lower[name] = Lower[seller]
            /\ Hears("DESPACHADOR") <=> delivery
            /\ Hears("MOTORIZADO")
                 <=> RidesFor(delivery, driver) /\ Lower[name] = Lower[driver.name]
<1> PICK notices : notices = N!OrderReady(seller, delivery, driver)
  OBVIOUS
<1> DEFINE Hears(role) == \E n \in Told(seller, delivery, driver) : N!Streamed(n, role, name)
<1>1. ASSUME NEW role
      PROVE  (\E k \in DOMAIN notices : N!Streamed(notices[k], role, name)) <=> Hears(role)
  <2>1. Told(seller, delivery, driver) = {notices[k] : k \in DOMAIN notices}
    BY ReadyTells
  <2> QED
    BY <2>1
<1>2. \A role : Hears(role) <=>
         \/ role = "CAJERO" /\ N!Streamed(N!Notice("CAJERO", seller), role, name)
         \/ role = "MESERO" /\ N!Streamed(N!Notice("MESERO", seller), role, name)
         \/ role = "CAJERO_PRINCIPAL" /\ N!Streamed(N!Notice("CAJERO_PRINCIPAL", Unset), role, name)
         \/ role = "ADMIN" /\ N!Streamed(N!Notice("ADMIN", Unset), role, name)
         \/ /\ role = "DESPACHADOR" /\ delivery
            /\ N!Streamed(N!Notice("DESPACHADOR", Unset), role, name)
         \/ /\ role = "MOTORIZADO" /\ RidesFor(delivery, driver)
            /\ N!Streamed(N!Notice("MOTORIZADO", driver.name), role, name)
  <2>1. \A as, target, role : N!Streamed(N!Notice(as, target), role, name) => as = role
    BY DEF N!Streamed, N!Notice
  <2>2. \A n : n \in Told(seller, delivery, driver) <=>
          \/ n = N!Notice("CAJERO", seller) \/ n = N!Notice("MESERO", seller)
          \/ n = N!Notice("CAJERO_PRINCIPAL", Unset) \/ n = N!Notice("ADMIN", Unset)
          \/ delivery /\ n = N!Notice("DESPACHADOR", Unset)
          \/ RidesFor(delivery, driver) /\ n = N!Notice("MOTORIZADO", driver.name)
    BY DEF Told
  <2> QED
    BY <2>1, <2>2
<1>3. \A role \in {"CAJERO", "MESERO"} :
         N!Streamed(N!Notice(role, seller), role, name) <=> Lower[name] = Lower[seller]
  BY DEF Spelling, N!Streamed, N!Notice
<1>4. \A role \in {"CAJERO_PRINCIPAL", "ADMIN", "DESPACHADOR"} :
         N!Streamed(N!Notice(role, Unset), role, name)
  BY DEF N!Streamed, N!Notice, N!Personal
<1>5. RidesFor(delivery, driver) =>
         (N!Streamed(N!Notice("MOTORIZADO", driver.name), "MOTORIZADO", name)
            <=> Lower[name] = Lower[driver.name])
  BY DEF Spelling, RidesFor, N!Streamed, N!Notice
<1> HIDE DEF Hears
<1>6. /\ Hears("ADMIN") /\ Hears("CAJERO_PRINCIPAL")
      /\ \A role \in {"CAJERO", "MESERO"} : Hears(role) <=> Lower[name] = Lower[seller]
      /\ Hears("DESPACHADOR") <=> delivery
      /\ Hears("MOTORIZADO") <=> RidesFor(delivery, driver) /\ Lower[name] = Lower[driver.name]
  BY <1>2, <1>3, <1>4, <1>5
<1> QED
  BY <1>1, <1>6
=============================================================================
