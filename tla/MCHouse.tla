------------------------------ MODULE MCHouse ------------------------------
(***************************************************************************)
(* Small instances for TLC of what runs around the orders.  A run explores *)
(* one area, chosen at the start: backups, numbers of invoices, the        *)
(* kitchen, deliveries or tables.  The areas share no state, only the      *)
(* names of their handlers.                                                *)
(***************************************************************************)
EXTENDS Backups, Numbering, KitchenTickets, Deliveries, Tables, Integers, TLC

CONSTANTS c1, c2, h1, h2, i1, i2, k1, k2, x1, x2, b1, b2, r1, r2

\* Bounds of the exploration: handlers that begin to work on an order of the kitchen, and
\* tables that are reserved or occupied at once.
CONSTANTS MaxBegun, MaxTaken
ASSUME MaxBegun \in Nat /\ MaxTaken \in Nat

MCHandlers == {h1, h2}

MCContents == {c1, c2}

MCConfigRange == [start |-> 1, end |-> 2]

\* A range to create, that begins with its first number or with its last, and changes of the
\* next number, of the end, and of the end and the month.
NoRequest ==
  [start |-> NotGiven, end |-> NotGiven, next |-> NotGiven, until |-> NotGiven,
   own |-> NotGiven, resolution |-> "not given"]
MCRequests ==
  {[start |-> 2, end |-> 3, next |-> n, until |-> 2, own |-> NotGiven, resolution |-> "other"] :
     n \in {NotGiven, 3}}
  \cup {[NoRequest EXCEPT !.next = 1], [NoRequest EXCEPT !.end = 1],
        [NoRequest EXCEPT !.end = 3, !.until = 2]}

\* A dish of one kitchen, and a combo of two.
MCLines == {i1, i2}
MCKitchensOf == (i1 :> {k1}) @@ (i2 :> {k1, k2})

\* Tickets of either kitchen, of the whole order, and of the combo alone.
MCTickets ==
  {[at |-> {k1}, item |-> {}], [at |-> {k2}, item |-> {}], [at |-> AllKitchens, item |-> {}],
   [at |-> {k1}, item |-> {i2}]}

\* Two parcels, or two tables.
MCThings == {x1, x2}
MCAlerted == {r1, r2}

\* Two orders that share the tables.
MCChecks == {b1, b2}

VARIABLES
  area,
  begun    \* handlers that began to work on the order of the kitchen
houseVars ==
  <<backupVars, numberingVars, kitchenVars, deliveryVars, tableVars, area, begun>>

Init ==
  /\ area \in {"backups", "numbers", "kitchen", "deliveries", "tables"}
  /\ begun = 0
  /\ BackupsInit /\ NumberingInit /\ KitchenInit /\ DeliveriesInit /\ TablesInit
  /\ area # "backups" => data = c1

FewTaken == Cardinality({m \in Mesas : mesas[m] \notin {New, Gone}}) <= MaxTaken

\* A handler that was off begins.
Counted ==
  /\ begun' = begun + (IF \E h \in Cooks : Off(h) /\ ~Off(h)' THEN 1 ELSE 0)
  /\ begun' <= MaxBegun

Next ==
  /\ \/ /\ area = "backups" /\ BackupsNext
        /\ UNCHANGED <<numberingVars, kitchenVars, deliveryVars, tableVars>>
     \/ /\ area = "numbers" /\ NumberingNext
        /\ UNCHANGED <<backupVars, kitchenVars, deliveryVars, tableVars>>
     \/ /\ area = "kitchen" /\ KitchenNext /\ NoneBack /\ Counted
        /\ UNCHANGED <<backupVars, numberingVars, deliveryVars, tableVars>>
     \/ /\ area = "deliveries" /\ DeliveriesNext
        /\ UNCHANGED <<backupVars, numberingVars, kitchenVars, tableVars>>
     \/ /\ area = "tables" /\ TablesNext /\ FewTaken'
        /\ UNCHANGED <<backupVars, numberingVars, kitchenVars, deliveryVars>>
  /\ UNCHANGED area /\ (area # "kitchen" => UNCHANGED begun)

Spec == Init /\ [][Next]_houseVars

\* The records that the five areas keep are of the kinds that their handlers write.
HouseTypeOK ==
  /\ area = "backups" => BackupsTypeOK
  /\ area = "numbers" => NumberingTypeOK
  /\ area = "kitchen" => KitchenTypeOK
  /\ area = "deliveries" => DeliveriesTypeOK
  /\ area = "tables" => TablesTypeOK

Symmetric == Permutations(MCHandlers) \cup Permutations(MCThings) \cup Permutations(MCChecks)

-----------------------------------------------------------------------------
(* The days of BusinessTime, with clocks that change by up to two of five hours. *)

T == INSTANCE BusinessTime WITH Day <- 5

Zones == [at: 8..18, before: -2..2, after: -2..2]
Instants == 0..30
Occurs(zone, local) == Cardinality({t \in Instants : T!Local(zone, t) = local})

\* A local time that the clocks show once is taken back to that instant, one that they show
\* twice to either, and the instants between the bounds of a day are those of the day when
\* the clocks show each bound once (toBusinessZonedDate, getBusinessDayBounds).
ASSUME DaysBounded ==
  \A zone \in Zones :
    /\ \A local \in 3..27 :
         Occurs(zone, local) > 0 => T!Local(zone, T!ToInstant(zone, local)) = local
    /\ \A day \in 1..4 :
         LET bounds == T!DayBounds(zone, day) IN
         (Occurs(zone, 5 * day) = 1 /\ Occurs(zone, 5 * day + 4) = 1) =>
           \A t \in Instants : t \in bounds.start..bounds.end <=> T!Local(zone, t) \div 5 = day

HouseCoupon == [active: BOOLEAN, maxUses: {0, 2}, uses: 0..3, expires: {{}, {2}}]

\* Where the clocks do not change a coupon may be used through its last day and not after,
\* a coupon that was used up never, and a month ends with the last day before the next
\* (isCouponExpired, computeCuponStatus, getBusinessMonthEnd).
ASSUME CouponsLastTheirDay ==
  \A zone \in {z \in Zones : z.before = z.after}, now \in 3..24 :
    /\ \A coupon \in HouseCoupon :
         T!Redeemable(zone, coupon, now) <=>
           /\ coupon.active /\ (coupon.maxUses = 0 \/ coupon.uses < coupon.maxUses)
           /\ coupon.expires = {} \/ T!Local(zone, now) \div 5 <= 2
    /\ T!Local(zone, T!MonthEnd(zone, <<0, 3, 6>>, now)) =
         IF T!Local(zone, now) \div 5 < 3 THEN 14 ELSE 29
=============================================================================
