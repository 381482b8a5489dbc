---------------------------- MODULE MCShiftLedger ----------------------------
(* Small instances of ShiftLedger for TLC. *)
EXTENDS ShiftLedger, Sequences, SequencesExt, Functions, TLC

CONSTANTS o1, o2, h1, h2, Unset

MCOrders == {o1, o2}
TwoHandlers == {h1, h2}
OneAmount == {1}
Symmetric == Permutations(MCOrders) \cup Permutations(TwoHandlers)

-----------------------------------------------------------------------------
(* The calculations of Reports, over the orders of a small shift. *)

R == INSTANCE Reports

Payment(method, type, amount) ==
  [method |-> method, type |-> type, config |-> type, amount |-> amount, currency |-> Unset,
   commission |-> Unset, rate |-> Unset, original |-> Unset, exchange |-> Unset,
   reference |-> FALSE]
Product(qty) == [product |-> "pizza", kind |-> "product", price |-> 4, qty |-> qty,
                 gift |-> 0, sent |-> TRUE, sentAt |-> 2]
Charge == [Product(1) EXCEPT !.product = Unset, !.kind = "charge"]
Bill(id, items, discount, payments) ==
  [id |-> id, parent |-> Unset, status |-> "paid", total |-> R!SumOf(items, R!Gross) - discount,
   discount |-> discount, items |-> items, payments |-> payments, invoiced |-> TRUE,
   type |-> Unset, tables |-> {}, timestamp |-> 1, paidAt |-> Unset, cashier |-> Unset,
   sent |-> TRUE]

\* Bills that are paid in full: in cash, by card and in part in cash, at a table or not,
\* and by an application to an older record without a type.
Paid ==
  {Bill("a", <<Product(1)>>, 0, <<>>),
   Bill("b", <<Product(2)>>, 2, <<Payment("TARJETA", "CARD_POS", 5), Payment("EFECTIVO", "CASH", 1)>>),
   [Bill("c", <<Product(1), Charge>>, 1, <<Payment("APP", Unset, 7)>>)
      EXCEPT !.tables = {1}, !.paidAt = 26, !.cashier = "second"],
   [Bill("d", <<Product(1), Product(2)>>, 3, <<Payment("EFECTIVO", "CASH", 9)>>)
      EXCEPT !.type = "delivery", !.cashier = "second"]}

\* A bill of two products that was split into two: the rest of it has a credit and is
\* neither invoiced nor paid.
Rest == [Bill("s", <<[Charge EXCEPT !.kind = "credit", !.price = 0]>>, 0, <<>>)
           EXCEPT !.invoiced = FALSE]
Part(id) == [Bill(id, <<Product(1)>>, 0, <<Payment("EFECTIVO", "CASH", 4)>>) EXCEPT !.parent = "s"]
Split == <<Rest, Part("t"), Part("u")>>

Sales == {s \in UNION {[1..n -> Paid] : n \in 0..3} : IsInjective(s)} \cup {Split}
RowTotal(rows, f) == FoldLeft(LAMBDA n, k : n + rows[k][f], 0, SetToSeq(DOMAIN rows))

\* However the sales are divided, by drawer, method, channel, hour or day, the parts add up
\* to the sales; the products earn what is charged for them less the discount, up to the
\* rounding of its shares; and a bill that was split counts once for each part and not for
\* its rest (getSalesReport).
ASSUME SalesAddUp ==
  \A s \in Sales, byDay \in BOOLEAN :
    LET r == R!SalesReport(s, byDay, 1, 24)
        gross == R!SumOf(s, LAMBDA o : R!SumOf(R!Reportable(o), R!Gross))
        earned == RowTotal(r.products, "revenue")
    IN /\ RowTotal(r.drawers, "sales") = r.sales /\ RowTotal(r.methods, "sales") = r.sales
       /\ RowTotal(r.channels, "sales") = r.sales /\ RowTotal(r.times, "sales") = r.sales
       /\ RowTotal(r.channels, "count") = r.orders /\ RowTotal(r.times, "count") = r.orders
       /\ earned - (gross - r.discounts) \in 0..Len(s)
       /\ s = Split => r.orders = 2 /\ r.sales = 8

\* Each order is read once when those that were paid while the report was read are newer
\* than all that was read; an older one repeats the last order of the page and shifts the
\* others (the loop of getSalesReport over skip and take).
ASSUME PagesOfOneReading ==
  \A n \in 1..4, size \in 1..3, at \in 0..4 :
    at <= n =>
      LET before == [k \in 1..n |-> k]
          after == InsertAt(before, at + 1, 0)
          read == R!ReadInPages(before, after, size)
      IN /\ R!ReadInPages(before, before, size) = before
         /\ IsInjective(read) <=> (at >= size \/ n < size)

\* What the registers of a shift show adds up to its sales, and nobody collected by cash,
\* card and application anything that the report has elsewhere; the rest of a split bill
\* is one more transaction there (getActiveCashRegisters, getSalesReport).
ASSUME RegistersAgree ==
  \A s \in Sales :
    LET r == R!SalesReport(s, FALSE, 1, 24)
        registers == R!Registers([orders |-> s, cashier |-> "first", opening |-> 5])
        In(rows, k) == IF k \in DOMAIN rows THEN rows[k].sales ELSE 0
    IN /\ RowTotal(registers, "total") = r.sales /\ RowTotal(registers, "opening") = 5
       /\ \A d \in {"cash", "card", "app"} : RowTotal(registers, d) = In(r.drawers, d)
       /\ RowTotal(registers, "transactions") = r.orders + (IF s = Split THEN 1 ELSE 0)
       /\ R!LiveKpis(s, {}, 0, 30).sales = r.sales

Voided == [id: {"a", "b"}, status: {"cancelled"}, cancelledAt: 1..3, total: {5}, loss: {2, Unset},
           category: {"KITCHEN", Unset}, reason: {"burnt", Unset}, waste: BOOLEAN]

\* Every cancelled order of the range is in one category and under one reason, with what
\* was lost; the newest are listed, newest first (getCancellationMetrics).
ASSUME CancellationsAddUp ==
  \A o, p \in Voided :
    LET m == R!CancellationMetrics(<<o, p>>, 1, 2, 1)
        inRange == SelectSeq(<<o, p>>, LAMBDA x : x.cancelledAt <= 2)
    IN /\ m.orders = Len(inRange) /\ m.affected = R!SumOf(inRange, R!LossOf)
       /\ RowTotal(m.byCategory, "amount") = m.affected
       /\ RowTotal(m.byReason, "amount") = m.affected
       /\ RowTotal(m.byReason, "count") = m.orders /\ m.waste <= m.affected
       /\ \A x \in ToSet(inRange), y \in ToSet(m.recent) : x.cancelledAt <= y.cancelledAt

Received == [method: {"TARJETA"}, config: {"pos", Unset}, currency: {"NIO", "USD", Unset},
             amount: {72}, commission: {36, Unset}, rate: {50, Unset}, exchange: {36},
             original: {2, Unset}, reference: BOOLEAN]

\* Nothing of what was received is in two rows or in none, and each row keeps what the
\* bank does not; a row is in one currency when all of its payments are, and is then worth
\* what it says (getPaymentMetrics).
ASSUME NetOfCommission ==
  \A p, q \in Received :
    LET m == R!PaymentMetrics(<<p, q>>)
        Currencies(k) == {R!OrElse(x.currency, "NIO") :
                           x \in {y \in {p, q} : R!MethodOf(y) = k}}
    IN /\ m.gross = 144 /\ m.net = m.gross - m.commission
       /\ RowTotal(m.breakdown, "count") = 2
       /\ \A k \in DOMAIN m.breakdown :
            LET row == m.breakdown[k] IN
            Currencies(k) = {row.currency} =>
              row.netNio = row.net * (IF row.currency = "USD" THEN 36 ELSE 1)

SlaValues == {Unset, -1, 0, 1, 17, 18, 240, 500}
Cook(sentAt) == [Rest EXCEPT !.items = <<[Product(1) EXCEPT !.sentAt = sentAt]>>]
Ready(order, at) == [timestamp |-> 1, status |-> "paid", items |-> order.items, readyAt |-> at,
                     startedAt |-> Unset, deliveredAt |-> Unset]

\* The warning comes before the alarm whatever is saved, and saving what is in force changes
\* nothing; an order is on time exactly when the kitchen took less than the alarm, counted
\* from the first item that it was sent (normalizeServiceSlaConfig, getSlaMetrics).
ASSUME WarningFirst ==
  \A warning, critical, delivery \in SlaValues, alerts \in {Unset, FALSE} :
    LET raw == [warning |-> warning, critical |-> critical, delivery |-> delivery,
                alerts |-> alerts]
        config == R!SlaConfig(raw)
    IN /\ config.warning < config.critical /\ config.critical <= 360
       /\ config.delivery \in 5..720 /\ R!SlaConfig(config) = config
       /\ \A sentAt \in {3, Unset}, at \in {19, 21, 400} :
            LET took == at - (IF sentAt = Unset THEN 1 ELSE 3)
                m == R!SlaMetrics(<<Ready(Cook(sentAt), at), Ready(Cook(3), 4)>>, 0, raw)
            IN /\ m.kitchen.completed = 2 /\ m.delivery.completed = 0
               /\ (m.kitchen.onTime = 2) <=> took < config.critical

\* With one waiter on each floor, all that is sold at tables is credited to one waiter
\* (getWaiterPerformance).
ASSUME WaitersShareTables ==
  \A s \in {<<[Rest EXCEPT !.tables = t, !.total = 3]>> : t \in {{}, {1}, {2}, {3}}} :
    LET FloorOf == <<1, 2, 2>>
        credited == R!WaiterRevenue(s, {1}, FloorOf).revenue
                      + R!WaiterRevenue(s, {2}, FloorOf).revenue
    IN credited = IF s[1].tables = {} THEN 0 ELSE 3
=============================================================================
