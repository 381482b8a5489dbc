------------------------------ MODULE OrderRules ------------------------------
(***************************************************************************)
(* The decisions that OrdersService takes before it writes an order: who   *)
(* may move and collect it, when a cancellation needs a supervisor, which  *)
(* certificates it uses, and what an edit may still change once it is      *)
(* invoiced; with the two saved configurations that they depend on.        *)
(***************************************************************************)
EXTENDS Integers, FiniteSets, Sequences, SequencesExt

CONSTANT Unset  \* a field that is absent or not of the type that is expected

OrElse(value, default) == IF value = Unset THEN default ELSE value

-----------------------------------------------------------------------------
(* Who *)

\* A rider moves and collects the deliveries that are his, and only to their end.
OwnDelivery(user, order) ==
  order.type = "delivery" /\ order.driver # Unset /\ order.driver = user.id

MayMove(user, order, status) ==
  user.role = "motorizado" => OwnDelivery(user, order) /\ status \in {"delivered", "paid"}

MayFinalize(user, order) ==
  /\ user.role # "cocinero" /\ "orders.finalize" \in user.permissions
  /\ user.role = "motorizado" => OwnDelivery(user, order)

-----------------------------------------------------------------------------
(* Saved configurations *)

\* Entries without an id or a name are dropped, and of two with an id the first is kept;
\* when nothing remains the defaults apply.
Named(entries) == SelectSeq(entries, LAMBDA e : e.id # Unset /\ e.name # Unset)

FirstOfEach(entries) ==
  FoldLeft(LAMBDA kept, e : IF e.id \in {k.id : k \in ToSet(kept)} THEN kept
                                                                  ELSE Append(kept, e),
           <<>>, entries)

Entries(entries, default) ==
  LET kept == FirstOfEach(Named(entries)) IN
  IF kept = <<>> THEN default ELSE kept

Categories == {"KITCHEN", "CUSTOMER", "SERVICE", "COURTESY", "OTHER"}

Reason(id, category, waste, supervisor) ==
  [id |-> id, name |-> id, category |-> category, active |-> TRUE, waste |-> waste,
   supervisor |-> supervisor]

DefaultReasons ==
  <<Reason("pizza-quemada", "KITCHEN", TRUE, TRUE),
    Reason("cliente-cancelo-tardanza", "CUSTOMER", FALSE, FALSE),
    Reason("error-comanda-mesero", "SERVICE", FALSE, FALSE),
    Reason("cortesia-gerencia", "COURTESY", FALSE, TRUE),
    Reason("cliente-cambio-opinion", "CUSTOMER", FALSE, FALSE)>>

NormalReason(r) ==
  [r EXCEPT !.category = IF @ \in Categories THEN @ ELSE "OTHER",
            !.active = OrElse(@, TRUE), !.waste = OrElse(@, FALSE),
            !.supervisor = OrElse(@, FALSE)]

\* normalizeVoidWastePolicyConfig
VoidPolicy(raw) ==
  [paid |-> OrElse(raw.paid, TRUE), prepared |-> OrElse(raw.prepared, TRUE),
   reasons |-> Entries([k \in DOMAIN raw.reasons |-> NormalReason(raw.reasons[k])],
                      DefaultReasons)]

PaymentTypes == {"CASH", "CARD_POS", "BANK_TRANSFER", "DIGITAL_WALLET"}

\* Rates are in thousandths of a per cent, the precision that is kept.
Method(id, type, currency, reference, rate) ==
  [id |-> id, name |-> id, type |-> type, currency |-> currency, reference |-> reference,
   rate |-> rate, active |-> TRUE]

DefaultMethods ==
  <<Method("cash-nio", "CASH", "NIO", FALSE, 0), Method("cash-usd", "CASH", "USD", FALSE, 0),
    Method("card-generic", "CARD_POS", "NIO", TRUE, 2500),
    Method("transfer-generic", "BANK_TRANSFER", "NIO", TRUE, 0)>>

WholePercent == 100000

\* A card terminal works in the currency of the country and always gives a reference.
NormalMethod(m) ==
  LET type == IF m.type \in PaymentTypes THEN m.type ELSE "BANK_TRANSFER"
      rate == OrElse(m.rate, 0)
  IN [m EXCEPT !.type = type,
               !.currency = IF type # "CARD_POS" /\ @ = "USD" THEN @ ELSE "NIO",
               !.reference = type = "CARD_POS" \/ OrElse(@, FALSE),
               !.rate = IF rate < 0 THEN 0 ELSE IF rate > WholePercent THEN WholePercent
                                                                       ELSE rate,
               !.active = OrElse(@, TRUE)]

\* normalizePaymentMethodsConfig
PaymentMethods(raw) ==
  Entries([k \in DOMAIN raw |-> NormalMethod(raw[k])], DefaultMethods)

\* resolvePayments: the rate of the house, in hundredths, when a payment gives none.
DefaultRate(general) == LET rate == OrElse(general, 0) IN
  IF rate = 0 THEN 3650 ELSE IF rate < 1 THEN 1 ELSE rate

-----------------------------------------------------------------------------
(* Cancellations *)

\* resolveCancellationPolicy
ActiveReasons(policy) == {r \in ToSet(policy.reasons) : r.active}

WasPrepared(order) ==
  \E i \in ToSet(order.items) :
    i.cooked /\ i.sent /\ i.kitchen \in {"preparing", "ready", "delivered"}

NeedsSupervisor(policy, reason, order) ==
  \/ reason.supervisor
  \/ policy.paid /\ order.status = "paid"
  \/ policy.prepared /\ WasPrepared(order)

\* OrderCancellationAuthorizationService.authorize
Authorizes(pin, accounts) ==
  pin # Unset /\ \E u \in accounts : u.pin = pin /\ "orders.cancel.authorize" \in u.permissions

\* Of an invoice, the shift that collected it must be open; no part of a bill may be paid.
MayCancel(policy, order, reasonId, pin, accounts, shiftOpen, paidParts) ==
  /\ order.status = "paid" /\ order.shift # Unset => shiftOpen
  /\ paidParts = 0
  /\ \E r \in ActiveReasons(policy) :
       /\ r.id = reasonId
       /\ NeedsSupervisor(policy, r, order) => Authorizes(pin, accounts)

-----------------------------------------------------------------------------
(* Certificates *)

\* A note is "none", a bare "vale", or the serial that follows that word.
Serial(item) == IF item.note \in {"none", "vale"} THEN Unset ELSE item.note

NeedsSerial(item) == item.note = "vale" \/ (item.gift > 0 /\ ~item.twoForOne)

\* extractCertificateSerials: Unset when the items are refused; a serial for which nothing
\* is given away is not used.
CertificateSerials(items, explicit) ==
  IF \E i \in ToSet(items) : NeedsSerial(i) /\ Serial(i) = Unset THEN Unset
  ELSE explicit \cup {Serial(i) : i \in {x \in ToSet(items) : x.gift > 0 /\ x.note # "none"}}

-----------------------------------------------------------------------------
(* Edits *)

\* Each existing item takes the incoming one of its id (the last of them) or, when there
\* is none, the one in its place if that has no id; 0 is nothing.
Incoming(existing, incoming, k) ==
  LET same == IF existing[k].id = Unset THEN 0
              ELSE SelectLastInSeq(incoming, LAMBDA i : i.id = existing[k].id)
  IN IF same # 0 THEN same ELSE IF incoming[k].id = Unset THEN k ELSE 0

\* Extras are compared in the order of their names, prices to a cent.
SameExtras(these, those) ==
  /\ Len(these) = Len(those)
  /\ \A name \in {e.name : e \in ToSet(these)} :
       LET Of(extras) == SelectSeq(extras, LAMBDA e : e.name = name) IN
       /\ Len(Of(these)) = Len(Of(those))
       /\ \A k \in DOMAIN Of(these) : Of(these)[k].price - Of(those)[k].price \in -1..1

\* isCommerciallySameOrderItem: what is sold, its name, size, quantity, gifts and note, are
\* one value here.  The price is not compared, for the stored one is kept.
CommerciallySame(prev, incoming) ==
  /\ incoming.sold = prev.sold
  /\ SameExtras(prev.extras, incoming.extras)
  /\ Len(prev.parts) = Len(incoming.parts)
  /\ \A k \in DOMAIN prev.parts : prev.parts[k].sold = incoming.parts[k].sold

\* What the kitchen may still be told about an item.
Operational(prev, incoming) ==
  [prev EXCEPT !.sent = @ \/ incoming.sent,
               !.sentAt = OrElse(incoming.sentAt, @),
               !.kitchen = OrElse(incoming.kitchen, @),
               !.parts = [k \in DOMAIN @ |->
                 [prev.parts[k] EXCEPT !.kitchen = OrElse(incoming.parts[k].kitchen, @)]]]

\* mergePaidOrderOperationalItems: Unset when the edit is refused.
MergePaid(existing, incoming) ==
  LET With(k) == incoming[Incoming(existing, incoming, k)] IN
  IF \/ Len(incoming) # Len(existing)
     \/ \E k \in DOMAIN existing : Incoming(existing, incoming, k) = 0
     \/ \E k \in DOMAIN existing : ~CommerciallySame(existing[k], With(k))
    THEN Unset
    ELSE [k \in DOMAIN existing |->
           IF existing[k].cooked THEN Operational(existing[k], With(k)) ELSE existing[k]]

\* assertSplitBillCreditsUnchanged: what the paid parts of a bill have taken off it stays.
\* Of a credit, what is sold is its name and size, once, without product or gift.
CreditsUnchanged(existing, incoming) ==
  LET Credits(items) == SelectSeq(items, LAMBDA i : i.credit)
      Found(id) == LET k == SelectLastInSeq(Credits(incoming), LAMBDA i : i.id = id)
                   IN IF id = Unset \/ k = 0 THEN Unset ELSE Credits(incoming)[k]
  IN /\ Len(Credits(existing)) = Len(Credits(incoming))
     /\ \A c \in ToSet(Credits(existing)) :
          LET i == Found(c.id) IN
          /\ i # Unset /\ i.extras = <<>>
          /\ i.sold = c.sold /\ i.price = c.price

\* ensureKitchenItemsSentOnSettlement
SentOnSettlement(items, now) ==
  [k \in DOMAIN items |->
    LET i == items[k] IN
    IF ~i.cooked THEN [i EXCEPT !.sent = FALSE, !.sentAt = Unset, !.kitchen = Unset]
    ELSE IF i.sent THEN i
    ELSE [i EXCEPT !.sent = TRUE, !.sentAt = OrElse(@, now),
                   !.kitchen = OrElse(@, "pending")]]
=============================================================================
