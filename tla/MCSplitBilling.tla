--------------------------- MODULE MCSplitBilling ---------------------------
(* Small instances of SplitBilling for TLC. *)
EXTENDS SplitBilling, TLC

CONSTANTS u1, u2, p1, p2, p3, h1, h2

MCUnits == {u1, u2}
MCParts == {p1, p2, p3}
MCTwoParts == {p1, p2}
MCHandlers == {h1, h2}
Symmetric == Permutations(MCUnits) \cup Permutations(MCParts) \cup Permutations(MCHandlers)
SymmetricTwo == Permutations(MCUnits) \cup Permutations(MCTwoParts) \cup Permutations(MCHandlers)

-----------------------------------------------------------------------------
(* The calculations of Pricing, over small inputs. *)

Selections == [source: Sources \cup {"none", "unset"}, named: SUBSET Sources]
Stored == {[source |-> "unset", named |-> n] : n \in {{}} \cup {{s} : s \in Sources}}

\* One promotion at most is applied: one that the request names and no other, or, when it
\* says nothing, the one that the order has (resolvePromotion).
ASSUME OnePromotion ==
  \A sel \in Selections, stored \in Stored :
    LET source == Resolve(sel, stored) IN
    source \in Sources =>
      sel.named = {source} \/ (sel = NoSelection /\ stored.named = {source})

Items == [product: {"pizza", "box"}, kind: {"product"}, price: {3}, qty: {1, 2}, gift: 0..1,
          note: {"none", "certificate"}, twoForOne: BOOLEAN, stored: BOOLEAN]
Rules == {Rule(kind, value, scope) : kind \in {"percent", "amount", "twoForOne"},
                                     value \in {0, 50, 100}, scope \in {{}, {"pizza"}}}
Menu == [p \in {"pizza"} |-> 2]
PriceOf == [i \in Items |-> UnitPrice(i, Menu, TRUE)]

\* A discount is taken from what the promotion covers, of what is billed, and a gift of
\* two-for-one comes without a discount (calculateWithPrices).
ASSUME DiscountCovered ==
  \A i \in Items, j \in {x \in Items : ~x.stored}, rule \in Rules, source \in Sources :
    LET items == <<i, j>>
        covered == EligibleSubTotal(items, PriceOf, source, rule)
        discount == Discount(source, rule, covered)
    IN (GiftAllowed(i, source, rule) /\ GiftAllowed(j, source, rule)) =>
         /\ discount \in 0..covered /\ covered <= SubTotal(items, PriceOf)
         /\ (i.twoForOne \/ j.twoForOne) => discount = 0

Payments == [amount: 1..3, cash: BOOLEAN]

\* Payments that are one cent off are made up for in cash, and then match to the cent;
\* others are left as they are, and no payment is lost (reconcileSplitOrderPayments).
ASSUME PaymentsReconciled ==
  \A p, q \in Payments, target \in 2..7 :
    LET old == <<p, q>>
        new == Reconciled(old, target, PaidBy(old), NotGiven)
    IN /\ Len(new) = 2 /\ \A k \in 1..2 : new[k].amount > 0
       /\ new # old => PaidBy(new) = target
       /\ Matches(old, target) /\ (p.cash /\ p.amount > 1 /\ ~q.cash) => PaidBy(new) = target

\* A payment in another currency is accepted with the amount that the rate gives, within
\* five cents (normalizeAndValidateOrderPayments).
ASSUME ForeignAmounts ==
  \A amount \in 1..80, original \in 1..3, rate \in {NotGiven, 36} :
    LET card == [active |-> TRUE, card |-> FALSE, needsReference |-> FALSE, foreign |-> TRUE]
        p == [amount |-> amount, reference |-> FALSE, rate |-> rate, original |-> original]
    IN Accepted(p, card, 37, NotGiven) <=>
         \E off \in -5..5 : amount = original * (IF rate = NotGiven THEN 37 ELSE 36) + off

\* A combo is complete when each group has its number of parts, and costs at least its
\* base price (normalizeComboSelections, resolveComboPrice).
Groups == [g \in {"drink", "pizza"} |-> IF g = "drink" THEN 1 ELSE 2]
ComboParts == [group: {"drink", "pizza", "other"}, qty: 1..2, surcharge: 0..1, extras: 0..1]
ASSUME CombosComplete ==
  \A p, q \in ComboParts :
    /\ ComboPrice(4, <<p, q>>) >= 4
    /\ ComboComplete(Groups, <<p, q>>) <=>
         {<<p.group, p.qty>>, <<q.group, q.qty>>} = {<<"drink", 1>>, <<"pizza", 2>>}

-----------------------------------------------------------------------------
(* The decisions of OrderRules, over small inputs. *)

O == INSTANCE OrderRules WITH Unset <- NotGiven

SeqsTo(S, n) == UNION {[1..k -> S] : k \in 0..n}

RawMethods == [id: {"x", "y", NotGiven}, name: {"x"}, type: {"CARD_POS", "CASH", "cheque"},
               currency: {"USD", "EUR"}, reference: {FALSE, NotGiven}, rate: {-1, 200000, NotGiven},
               active: {FALSE, NotGiven}]
RawReasons == [id: {"x", "y", NotGiven}, name: {"x"}, category: {"KITCHEN", "none"},
               active: {FALSE, NotGiven}, waste: {TRUE, NotGiven}, supervisor: {TRUE, NotGiven}]
Ids(entries) == {e.id : e \in ToSet(entries)}

\* Whatever is saved, there is a method to pay with and a reason to cancel for, each once;
\* saving what is in force changes nothing; and a card terminal always gives a reference
\* (normalizePaymentMethodsConfig, normalizeVoidWastePolicyConfig).
ASSUME ConfigurationsStable ==
  /\ \A raw \in SeqsTo(RawMethods, 2) :
       LET methods == O!PaymentMethods(raw) IN
       /\ methods # <<>> /\ Cardinality(Ids(methods)) = Len(methods)
       /\ O!PaymentMethods(methods) = methods
       /\ \A m \in ToSet(methods) : /\ m.rate \in 0..100000
                                    /\ m.type = "CARD_POS" => m.reference /\ m.currency = "NIO"
  /\ \A raw \in SeqsTo(RawReasons, 2), paid, prepared \in {FALSE, NotGiven} :
       LET policy == O!VoidPolicy([paid |-> paid, prepared |-> prepared, reasons |-> raw]) IN
       /\ policy.reasons # <<>> /\ Cardinality(Ids(policy.reasons)) = Len(policy.reasons)
       /\ O!VoidPolicy(policy) = policy

Cooked(kitchen) == [cooked |-> TRUE, sent |-> TRUE, kitchen |-> kitchen]
Cancelling == [status: {"pending", "paid"}, shift: {"shift", NotGiven},
               items: {<<>>, <<Cooked("pending")>>, <<Cooked("ready")>>}]

Staff == {[pin |-> "right", permissions |-> {"orders.cancel.authorize"}],
          [pin |-> "wrong", permissions |-> {"orders.finalize"}]}

\* An order that was paid or begun is not cancelled without a PIN that authorises it, unless
\* the saved policy says so; with one, and no part paid, an order of an open shift can be
\* cancelled exactly as long as some reason is active (updateStatus, resolveCancellationPolicy).
ASSUME SupervisorAsked ==
  \A reasons \in SeqsTo(RawReasons, 1), paid, prepared \in {FALSE, NotGiven}, order \in Cancelling :
    LET policy == O!VoidPolicy([paid |-> paid, prepared |-> prepared, reasons |-> reasons])
        Can(pin) == \E id \in Ids(policy.reasons) :
                      O!MayCancel(policy, order, id, pin, Staff, TRUE, 0)
    IN /\ Can("right") <=> O!ActiveReasons(policy) # {}
       /\ (\/ order.status = "paid" /\ paid = NotGiven
           \/ order.items = <<Cooked("ready")>> /\ prepared = NotGiven)
          => ~Can("wrong") /\ ~Can(NotGiven)

\* A rider who may collect an order may mark it as paid, and no rider's order passes to
\* another by its status (updateStatus, assertCanFinalizeOrder).
ASSUME RidersOwn ==
  \A role \in {"motorizado", "cajero", "cocinero"}, driver \in {"r1", "r2", NotGiven},
     type \in {"delivery", "local"}, permissions \in {{}, {"orders.finalize"}} :
    LET user == [id |-> "r1", role |-> role, permissions |-> permissions]
        order == [type |-> type, driver |-> driver]
    IN /\ O!MayFinalize(user, order) => O!MayMove(user, order, "paid")
       /\ role = "motorizado" /\ driver # "r1" => ~O!MayMove(user, order, "delivered")

Extra(name, price) == [name |-> name, price |-> price]
Item(id, sold, extras, cooked, sent, kitchen) ==
  [id |-> id, sold |-> sold, extras |-> extras, cooked |-> cooked, sent |-> sent, sentAt |-> NotGiven,
   kitchen |-> kitchen, price |-> 3, credit |-> FALSE,
   parts |-> IF sold = "combo" THEN <<[sold |-> "drink", kitchen |-> kitchen]>> ELSE <<>>]
ExtrasOf == {<<>>, <<Extra("ham", 2), Extra("corn", 1)>>, <<Extra("corn", 2), Extra("ham", 2)>>}
Invoiced == {<<Item(1, "pizza", e, TRUE, s, "pending"), Item(2, "combo", <<>>, c, FALSE, "pending")>> :
               e \in ExtrasOf, s \in BOOLEAN, c \in BOOLEAN}
Edits == {Item(id, sold, e, TRUE, s, k) : id \in {1, 2, 3, NotGiven}, sold \in {"pizza", "combo"},
                                         e \in ExtrasOf, s \in BOOLEAN, k \in {"ready", NotGiven}}
Sold(i) == <<i.id, i.sold, i.price, i.extras, i.cooked, [k \in DOMAIN i.parts |-> i.parts[k].sold]>>

\* What an invoice charges for is not changed by an edit, no item is withdrawn from the
\* kitchen, and each item that the request sends stands for one that was sold; sending back
\* what there is changes nothing (mergePaidOrderOperationalItems).
ASSUME InvoicedItemsKept ==
  \A old \in Invoiced :
    /\ O!MergePaid(old, old) = old
    /\ \A i, j \in Edits :
         LET new == O!MergePaid(old, <<i, j>>) IN
         new # NotGiven =>
           /\ \A k \in 1..2 : /\ Sold(new[k]) = Sold(old[k])
                              /\ old[k].sent => new[k].sent
                              /\ ~old[k].cooked => new[k] = old[k]
           /\ {i.sold, j.sold} = {"pizza", "combo"}
           /\ {O!Incoming(old, <<i, j>>, k) : k \in 1..2} = {1, 2}

\* A credit for a paid part is neither added, dropped nor changed, and the kitchen has all
\* that it prepares once a bill is settled (assertSplitBillCreditsUnchanged,
\* ensureKitchenItemsSentOnSettlement).
ASSUME CreditsStay ==
  LET Credit2(id, price) == [Item(id, "abono", <<>>, FALSE, FALSE, NotGiven)
                               EXCEPT !.credit = TRUE, !.price = price]
      Old == <<Credit2(1, 4), Item(2, "pizza", <<>>, TRUE, FALSE, NotGiven)>>
      News == {Credit2(id, price) : id \in {1, 2, NotGiven}, price \in {4, 5}} \cup {Old[2]}
  IN /\ \A new \in SeqsTo(News, 2) :
          O!CreditsUnchanged(Old, new) => SelectSeq(new, LAMBDA i : i.credit) = <<Old[1]>>
     /\ O!CreditsUnchanged(Old, Old)
     /\ \A old \in Invoiced \cup {Old} :
          LET new == O!SentOnSettlement(old, 9) IN
          /\ O!SentOnSettlement(new, 10) = new
          /\ \A k \in 1..2 : /\ new[k].sent = new[k].cooked
                             /\ new[k].cooked => new[k].kitchen # NotGiven

Given == [gift: 0..1, twoForOne: BOOLEAN, note: {"none", "vale", "s1", "s2"}]

\* Of the items that are accepted, every one that is given away is given for a certificate
\* of the order or as two-for-one, and the order uses no certificate besides those and the
\* ones that it names (extractCertificateSerials).
ASSUME GiftsCertified ==
  \A i, j \in Given, named \in SUBSET {"s1", "s3"} :
    LET serials == O!CertificateSerials(<<i, j>>, named) IN
    serials # NotGiven =>
      /\ \A x \in {i, j} : x.gift > 0 /\ ~x.twoForOne => x.note \in serials
      /\ \A s \in serials : s \in named \/ \E x \in {i, j} : x.note = s /\ x.gift > 0
=============================================================================
