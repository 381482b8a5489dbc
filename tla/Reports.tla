------------------------------- MODULE Reports -------------------------------
(***************************************************************************)
(* What the reports and the dashboard make of the stored orders.  An order *)
(* is a record of what they select; a sequence of orders is the answer of  *)
(* the database.  Amounts are whole cents and times whole minutes; labels, *)
(* colours and the order of the rows of a table are left out.              *)
(***************************************************************************)
EXTENDS Integers, FiniteSets, Sequences, SequencesExt

CONSTANT Unset  \* a column that is null, a field that is left out

-----------------------------------------------------------------------------
SumOf(rows, Amount(_)) == FoldLeft(LAMBDA n, r : n + Amount(r), 0, rows)

OrElse(value, default) == IF value = Unset THEN default ELSE value
Most(m, n) == IF m >= n THEN m ELSE n
Least(m, n) == IF m <= n THEN m ELSE n

\* Math.round of m / n.
Rounded(m, n) == (2 * m + n) \div (2 * n)

\* The rows of each key, as one entry of a Map keeps them.
RowsOf(rows, Key(_), k) == SelectSeq(rows, LAMBDA r : Key(r) = k)
Keys(rows, Key(_)) == {Key(r) : r \in ToSet(rows)}

\* A range is refused when it ends before it starts (or, in the sales report, is too long).
RangeAccepted(from, to, longest) == from <= to /\ to - from <= longest

\* An order counts on the day that it was paid or, without that date, made.
PaidTime(order) == OrElse(order.paidAt, order.timestamp)
Collected(orders, from, to) ==
  SelectSeq(orders, LAMBDA o : o.status = "paid" /\ PaidTime(o) \in from..to)

-----------------------------------------------------------------------------
(* The sales report (ReportsService.getSalesReport) *)

\* The rest of a bill whose parts are paid: it has no sale of its own.
SettledAggregate(order) ==
  /\ ~order.invoiced /\ order.total = 0 /\ order.payments = <<>>
  /\ \E i \in ToSet(order.items) : i.kind = "credit"

Sold(orders) == SelectSeq(orders, LAMBDA o : ~SettledAggregate(o))

Channel(order) ==
  IF order.type # Unset THEN order.type ELSE IF order.tables # {} THEN "local" ELSE "llevar"

\* What is sold without a payment is taken to be cash.
PaymentsOf(order) ==
  IF order.payments # <<>> THEN order.payments
  ELSE <<[method |-> "EFECTIVO", type |-> Unset, config |-> Unset, amount |-> order.total]>>

PaymentType(p) ==
  OrElse(p.type, CASE p.method = "EFECTIVO" -> "CASH"
                   [] p.method = "TARJETA" -> "CARD_POS"
                   [] OTHER -> "BANK_TRANSFER")

Drawer(p) ==
  CASE PaymentType(p) = "CASH" -> "cash" [] PaymentType(p) = "CARD_POS" -> "card"
    [] OTHER -> "app"

MethodOf(p) == OrElse(p.config, p.method)

\* Products; charges, packaging and what splitting a bill leaves behind are not.
Reportable(order) ==
  SelectSeq(order.items, LAMBDA i : i.product # Unset /\ i.kind = "product")
Gross(item) == item.price * Most(0, item.qty - item.gift)

\* The discount of an order is spread over its products by what they cost.
NetRevenue(order, item) ==
  LET whole == SumOf(Reportable(order), Gross)
      share == IF whole > 0 THEN (order.discount * Gross(item)) \div whole ELSE 0
  IN Most(0, Gross(item) - share)

\* The hours of a single day, or else the days.
TimeKey(time, byDay, Hour, Day) == IF byDay THEN time \div Day ELSE (time % Day) \div Hour

SalesReport(orders, byDay, Hour, Day) ==
  LET sold == Sold(orders)
      Total(o) == o.total
      Amount(p) == p.amount
      Time(o) == TimeKey(PaidTime(o), byDay, Hour, Day)
      payments == FlattenSeq([k \in DOMAIN sold |-> PaymentsOf(sold[k])])
      lines == FlattenSeq([k \in DOMAIN orders |->
                 [j \in DOMAIN Reportable(orders[k]) |->
                   LET i == Reportable(orders[k])[j] IN
                   [product |-> i.product, qty |-> i.qty,
                    revenue |-> NetRevenue(orders[k], i)]]])
      Product(l) == l.product
      discounted == SelectSeq(orders, LAMBDA o : o.discount > 0)
      Rows(rows, Key(_), Value(_)) ==
        [k \in Keys(rows, Key) |-> [count |-> Len(RowsOf(rows, Key, k)),
                                    sales |-> SumOf(RowsOf(rows, Key, k), Value)]]
  IN [orders |-> Len(sold),
      sales |-> SumOf(sold, Total),
      drawers |-> Rows(payments, Drawer, Amount),
      methods |-> Rows(payments, MethodOf, Amount),
      channels |-> Rows(sold, Channel, Total),
      times |-> Rows(sold, Time, Total),
      products |-> [p \in Keys(lines, Product) |->
                     [qty |-> SumOf(RowsOf(lines, Product, p), LAMBDA l : l.qty),
                      revenue |-> SumOf(RowsOf(lines, Product, p), LAMBDA l : l.revenue)]],
      discounts |-> SumOf(discounted, LAMBDA o : o.discount),
      discountedBills |-> {OrElse(o.parent, o.id) : o \in ToSet(discounted)}]

\* The orders are read a page at a time; each page is a query of its own, over the orders
\* that there are by then.  before is what the first page is cut from, after the others:
\* nothing is paid between those.
Page(orders, offset, size) == SubSeq(orders, offset + 1, Least(offset + size, Len(orders)))

ReadInPages(before, after, size) ==
  IF Len(Page(before, 0, size)) < size THEN before
  ELSE Page(before, 0, size) \o Page(after, size, Len(after))

-----------------------------------------------------------------------------
(* Service levels (OrdersService.getSlaMetrics, service-sla.config) *)

\* A value that is not a number takes the default; others are moved into the bounds.
Bounded(value, default, least, most) ==
  IF value = Unset THEN default ELSE Least(most, Most(least, value))

SlaConfig(raw) ==
  LET warning == Bounded(raw.warning, 12, 1, 240) IN
  [warning |-> warning,
   critical |-> Most(warning + 1, Bounded(raw.critical, 18, 2, 360)),
   delivery |-> Bounded(raw.delivery, 35, 5, 720),
   alerts |-> OrElse(raw.alerts, TRUE)]

\* From the first item that went to the kitchen, or from the order, until it was ready.
KitchenMinutes(order) ==
  LET sent == {i.sentAt : i \in {x \in ToSet(order.items) : x.sent /\ x.sentAt # Unset}}
      start == IF sent = {} THEN order.timestamp
               ELSE CHOOSE t \in sent : \A u \in sent : t <= u
  IN Most(0, order.readyAt - start)

DeliveryMinutes(order) == Most(0, order.deliveredAt - order.startedAt)

\* The mean is in tenths of a minute, as it is shown.
Summary(minutes, limit) ==
  LET n == Len(minutes)
      onTime == Len(SelectSeq(minutes, LAMBDA v : v < limit))
  IN [completed |-> n, onTime |-> onTime,
      mean |-> IF n = 0 THEN 0 ELSE Rounded(10 * SumOf(minutes, LAMBDA v : v), n),
      percent |-> IF n = 0 THEN 0 ELSE Rounded(100 * onTime, n)]

SlaMetrics(orders, since, raw) ==
  LET recent == SelectSeq(orders, LAMBDA o : o.timestamp >= since /\ o.status # "cancelled")
      cooked == SelectSeq(recent, LAMBDA o : o.readyAt # Unset)
      driven == SelectSeq(recent, LAMBDA o : o.startedAt # Unset /\ o.deliveredAt # Unset)
      config == SlaConfig(raw)
  IN [kitchen |-> Summary([k \in DOMAIN cooked |-> KitchenMinutes(cooked[k])],
                          config.critical),
      delivery |-> Summary([k \in DOMAIN driven |-> DeliveryMinutes(driven[k])],
                           config.delivery)]

-----------------------------------------------------------------------------
(* Cancellations and payments (getCancellationMetrics, getPaymentMetrics) *)

LossOf(order) == OrElse(order.loss, order.total)

\* What was cancelled in a range, newest first; an older record has no reason.
Cancelled(orders, from, to) ==
  SortSeq(SelectSeq(orders, LAMBDA o : o.status = "cancelled" /\ o.cancelledAt \in from..to),
          LAMBDA o, p : o.cancelledAt > p.cancelledAt)

CancellationMetrics(orders, from, to, listed) ==
  LET rows == Cancelled(orders, from, to)
      Category(o) == OrElse(o.category, "OTHER")
      Reason(o) == OrElse(o.reason, "legacy")
      Group(Key(_)) == [k \in Keys(rows, Key) |->
                         [count |-> Len(RowsOf(rows, Key, k)),
                          amount |-> SumOf(RowsOf(rows, Key, k), LossOf)]]
  IN [orders |-> Len(rows),
      affected |-> SumOf(rows, LossOf),
      waste |-> SumOf(SelectSeq(rows, LAMBDA o : o.waste), LossOf),
      byCategory |-> Group(Category), byReason |-> Group(Reason),
      recent |-> Page(rows, 0, listed)]

\* What the bank keeps: as it was stored, or by the rate, a percentage.
Commission(p) == IF p.commission # Unset THEN p.commission
                 ELSE Rounded(p.amount * OrElse(p.rate, 0), 100)

\* An amount in the currency of the payment; inputs are chosen so that it is whole.
InCurrency(amount, p) == IF p.currency = "USD" THEN amount \div Most(1, OrElse(p.exchange, 1))
                         ELSE amount

OriginalGross(p) == IF p.currency = "USD" THEN OrElse(p.original, InCurrency(p.amount, p))
                    ELSE p.amount

\* A row takes the currency of its first payment, whatever the others are in.
PaymentMetrics(payments) ==
  LET Back(p) == InCurrency(Commission(p), p)
      Amount(p) == p.amount
      Row(m) ==
        LET of == RowsOf(payments, MethodOf, m) IN
        [count |-> Len(of), currency |-> OrElse(of[1].currency, "NIO"),
         referenced |-> Len(SelectSeq(of, LAMBDA p : p.reference)),
         gross |-> SumOf(of, OriginalGross), commission |-> SumOf(of, Back),
         net |-> SumOf(of, LAMBDA p : OriginalGross(p) - Back(p)),
         grossNio |-> SumOf(of, Amount), commissionNio |-> SumOf(of, Commission),
         netNio |-> SumOf(of, LAMBDA p : p.amount - Commission(p))]
      rows == [m \in Keys(payments, MethodOf) |-> Row(m)]
      Over(Part(_)) == FoldLeft(LAMBDA n, m : n + Part(rows[m]), 0,
                                SetToSeq(DOMAIN rows))
  IN [breakdown |-> rows, count |-> Len(payments),
      gross |-> Over(LAMBDA r : r.grossNio),
      commission |-> Over(LAMBDA r : r.commissionNio),
      net |-> Over(LAMBDA r : r.netNio)]

-----------------------------------------------------------------------------
(* The dashboard (AdminDashboardService) *)

\* What was collected in a shift, by the account that collected it: the cashier who
\* opened the shift always has a register, and takes what has no cashier.
Collector(order, shift) == OrElse(order.cashier, shift.cashier)

DashboardDrawer(p) == CASE p.method = "TARJETA" -> "card" [] p.method = "APP" -> "app"
                        [] OTHER -> "cash"

Registers(shift) ==
  LET paid == SelectSeq(shift.orders, LAMBDA o : o.status = "paid")
      Who(o) == Collector(o, shift)
      Revenue(who) ==
        LET of == RowsOf(paid, Who, who)
            payments == FlattenSeq([k \in DOMAIN of |-> PaymentsOf(of[k])])
            In(drawer) == SumOf(RowsOf(payments, DashboardDrawer, drawer), LAMBDA p : p.amount)
        IN [opening |-> IF who = shift.cashier THEN shift.opening ELSE 0,
            transactions |-> Len(of), cash |-> In("cash"), card |-> In("card"),
            app |-> In("app"), total |-> In("cash") + In("card") + In("app")]
  IN [who \in Keys(paid, Who) \cup {shift.cashier} |-> Revenue(who)]

\* A waiter is credited with every order at a table of a floor that is his that day.
WaiterRevenue(orders, floors, FloorOf) ==
  LET served == SelectSeq(orders, LAMBDA o : o.status # "cancelled" /\
                                             \E t \in o.tables : FloorOf[t] \in floors)
  IN [served |-> Len(served), revenue |-> SumOf(served, LAMBDA o : o.total)]

InHouse == {"pending", "preparing", "ready", "delivered"}

LiveKpis(orders, occupied, from, to) ==
  LET open == {o \in ToSet(orders) : o.status \in InHouse} IN
  [sales |-> SumOf(Collected(orders, from, to), LAMBDA o : o.total),
   tables |-> Cardinality(occupied \cup UNION {o.tables : o \in {x \in open : x.items # <<>>}}),
   kitchen |-> Cardinality({o \in open : o.sent /\ o.status \in {"pending", "preparing"} /\
                              \E i \in ToSet(o.items) : i.sent}),
   deliveries |-> Cardinality({o \in open : o.type = "delivery" /\ o.status # "delivered"})]
=============================================================================
