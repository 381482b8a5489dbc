-------------------------------- MODULE Pricing --------------------------------
(***************************************************************************)
(* The calculations of OrderPricingService: which promotion applies, what  *)
(* an item costs, which items a promotion covers, and the totals.  Amounts *)
(* are whole numbers of the smallest unit of money; the tax, a fixed       *)
(* percentage of what is due, is left out.  Payments are checked against   *)
(* the total and the configured methods (order-payments.validator.ts).     *)
(***************************************************************************)
EXTENDS Integers, FiniteSets, Sequences, SequencesExt

-----------------------------------------------------------------------------
(* Which promotion *)

Sources == {"coupon", "discount", "happyHour"}

\* What a request says: the origin it declares, and the promotions it names.
Selection == [source: Sources \cup {"none", "unset"}, named: SUBSET Sources]
NoSelection == [source |-> "unset", named |-> {}]

Chosen(sel) ==
  IF sel.source # "unset" THEN sel.source
  ELSE IF sel.named = {} THEN "none"
  ELSE IF Cardinality(sel.named) = 1 THEN CHOOSE s \in sel.named : TRUE ELSE "rejected"

Consistent(source, named) == named = IF source = "none" THEN {} ELSE {source}

\* resolvePromotion: a request that says nothing takes what the order has.
Resolve(sel, stored) ==
  LET silent == sel.source = "unset" /\ sel.named = {}
      used == IF silent /\ stored # NoSelection THEN stored ELSE sel
      source == Chosen(used)
  IN IF source # "rejected" /\ Consistent(source, used.named)
       THEN source ELSE "rejected"

-----------------------------------------------------------------------------
(* What it covers *)

\* A rule of the database.  An empty scope covers every product; a coupon has none.
Rule(kind, value, scope) == [kind |-> kind, value |-> value, scope |-> scope]

TwoForOne(source, rule) == source = "happyHour" /\ rule.kind = "twoForOne"

\* isPromotionEligible.  A note may say that the item is given for a certificate;
\* without a serial it is a mere "vale".
Eligible(item, source, rule) ==
  /\ item.kind = "product" /\ item.note = "none"
  /\ source # "none"
  /\ source = "coupon" \/ rule.scope = {} \/ item.product \in rule.scope

\* The checks of calculateWithPrices on the units that are given away.
GiftAllowed(item, source, rule) ==
  LET covered == TwoForOne(source, rule) /\ Eligible(item, source, rule) IN
  /\ item.gift \in 0..item.qty /\ item.note # "vale"
  /\ (item.gift > 0 /\ ~item.twoForOne) => item.note = "certificate"
  /\ item.twoForOne => covered /\ item.qty \div 2 > 0
  /\ covered => item.gift <= item.qty \div 2

-----------------------------------------------------------------------------
(* What it costs *)

\* resolveItemPrice: what was stored with the item, or else the catalogue; a charge, and
\* a packaging that is not configured, cost what the request says.
UnitPrice(item, catalogue, useSnapshot) ==
  IF (useSnapshot /\ item.stored) \/ item.product \notin DOMAIN catalogue
    THEN item.price ELSE catalogue[item.product]

\* normalizeComboSelections: each group of a combo gets as many parts as it needs.
ComboComplete(groups, parts) ==
  /\ \A p \in ToSet(parts) : p.group \in DOMAIN groups
  /\ \A g \in DOMAIN groups :
       groups[g] = FoldLeft(LAMBDA n, p : n + (IF p.group = g THEN p.qty ELSE 0),
                            0, parts)

\* resolveComboPrice
ComboPrice(base, parts) ==
  FoldLeft(LAMBDA n, p : n + (p.surcharge + p.extras) * p.qty, base, parts)

Billable(item) == item.qty - item.gift

\* price is a function of items.
SubTotal(items, price) ==
  FoldLeft(LAMBDA n, i : n + price[i] * Billable(i), 0, items)

EligibleSubTotal(items, price, source, rule) ==
  SubTotal(SelectSeq(items, LAMBDA i : Eligible(i, source, rule)), price)

AtMost(n, limit) == IF n <= limit THEN n ELSE limit
NotNegative(n) == IF n >= 0 THEN n ELSE 0

\* calculateDiscount; amounts are chosen so that a percentage is exact.
Discount(source, rule, eligible) ==
  IF source = "none" \/ rule.kind = "twoForOne" THEN 0
  ELSE AtMost(NotNegative(IF rule.kind = "percent"
                            THEN (eligible * rule.value) \div 100
                            ELSE rule.value), eligible)

\* applyDiscountOverride, and the override of calculateWithPrices.
Override(discount, subTotal) == AtMost(NotNegative(discount), NotNegative(subTotal))

Due(subTotal, discount) == NotNegative(subTotal - discount)

-----------------------------------------------------------------------------
(* Payments *)

PaidBy(payments) == FoldLeft(LAMBDA n, p : n + p.amount, 0, payments)
Differ(m, n) == IF m >= n THEN m - n ELSE n - m

\* assertPaymentsMatchTotal
Matches(payments, total) == Differ(PaidBy(payments), total) <= 1

\* reconcileSplitOrderPayments: the last payment in cash makes up for a difference of one.
\* The total that the client computed is NoTotal when it sends none.
Reconciled(payments, target, clientTotal, NoTotal) ==
  LET delta == target - PaidBy(payments)
      last == SelectLastInSeq(payments, LAMBDA p : p.cash /\ p.amount + delta > 0)
  IN IF \/ clientTotal # NoTotal /\ Differ(PaidBy(payments), clientTotal) >= 2
        \/ Differ(delta, 0) # 1 \/ last = 0
       THEN payments
       ELSE [payments EXCEPT ![last].amount = @ + delta]

\* normalizeAndValidateOrderPayments, with the method that findPaymentMethod finds.  The
\* request may leave out the rate and the amount in the currency of the payment (None).
Rate(p, method, default, None) ==
  IF ~method.foreign THEN 1 ELSE IF p.rate \in Nat \ {0} THEN p.rate ELSE default

Accepted(p, method, default, None) ==
  /\ method.active /\ p.amount > 0
  /\ (method.card \/ method.needsReference) => p.reference
  /\ p.rate = None \/ method.foreign \/ p.rate = 1
  /\ p.original = None \/
       /\ p.original > 0
       /\ Differ(p.original * Rate(p, method, default, None), p.amount)
            <= IF method.foreign THEN 5 ELSE 1
=============================================================================
