----------------------------- MODULE OrderBilling -----------------------------
(***************************************************************************)
(* The life of an order in OrdersService, from its creation to its         *)
(* collection and its cancellation, with what a collection consumes: a     *)
(* coupon use, certificates, and the next number of the active             *)
(* correlativo.                                                            *)
(*                                                                         *)
(* A request handler is a sequence of awaits.  It first reads the order    *)
(* (the snapshot `existing` of the code) and writes later; between the two *)
(* any other handler may run.  A database transaction of the code that     *)
(* starts by locking the Order row FOR UPDATE is one step here: the other  *)
(* rows it uses are locked before they are read and stay locked until the  *)
(* commit.  The optimistic check on Order.updatedAt is the flag fresh of a *)
(* request, which every later write to the row clears.                     *)
(*                                                                         *)
(* The commercial content of an order is its coupon and the certificates   *)
(* its gifted items are tagged with; other lines, prices and the kitchen   *)
(* state of the items are abstracted.  Orders of a split bill are in       *)
(* module SplitBilling of the plan; here no order has a parent.            *)
(***************************************************************************)
EXTENDS Naturals, FiniteSets

CONSTANTS
  Orders,       \* order ids
  Requests,     \* the handlers that may be in flight at one time
  Certs,        \* certificates, by serial
  Coupons,      \* coupons
  NoCoupon,     \* the null cuponId
  NoOrder,      \* the null order id
  MaxUses,      \* Cupon.maxUses, 0 for a coupon without limit
  MaxNumber,    \* Correlativo.endNumber; numbering starts at 1
  MaxShift,     \* bound of the exploration: shifts that may be opened
  Isolated,     \* TRUE: an unguarded status write of an order overlaps no
                \*       other request on it, nor does the creation of a paid one
  ReloadFails   \* TRUE: the read that follows a committed collection may fail

ASSUME BillingAssumption ==
  /\ NoCoupon \notin Coupons
  /\ NoOrder \notin Orders
  /\ "available" \notin Orders /\ "orphan" \notin Orders
  /\ IsFiniteSet(Orders)
  /\ MaxUses \in [Coupons -> Nat]
  /\ MaxNumber \in Nat /\ MaxShift \in Nat
  /\ Isolated \in BOOLEAN /\ ReloadFails \in BOOLEAN

VARIABLES
  orders,       \* the Order rows
  uses,         \* Cupon.currentUses
  redeemedBy,   \* per certificate: available, or the order that redeemed it
  nextNumber,   \* Correlativo.currentNumber
  shifts,       \* [last |-> number of shifts opened, open |-> is the last open]
  req           \* the handlers in flight

vars == <<orders, uses, redeemedBy, nextNumber, shifts, req>>

-----------------------------------------------------------------------------
(* Values *)

\* "open" is an order in progress: pending, preparing, ready or delivered, which
\* no rule of this module tells apart (module KitchenTickets does).
Final == {"paid", "cancelled"}
OrderStatus == {"open"} \cup Final

CouponRef == Coupons \cup {NoCoupon}

\* A certificate is DISPONIBLE ("available"), or ENTREGADO to an order; the
\* foreign key of a redeemed one is nulled when its order is deleted ("orphan").
Redeemer == Orders \cup {"available", "orphan"}

\* rec is couponConsumptionRecorded, pend pendingCertificateSerials, and
\* paidFor the content that the stored payments were matched with.
Content == [coupon: CouponRef, gift: SUBSET Certs]
Row == [st: OrderStatus \cup {"absent", "deleted"}, coupon: CouponRef,
        gift: SUBSET Certs, pend: SUBSET Certs, rec: BOOLEAN,
        inv: Nat, shift: Nat, paidFor: Content]

NoContent == [coupon |-> NoCoupon, gift |-> {}]
NoRow == [st |-> "absent", coupon |-> NoCoupon, gift |-> {}, pend |-> {},
          rec |-> FALSE, inv |-> 0, shift |-> 0, paidFor |-> NoContent]

\* A row that create deleted again; its id is not used twice.
Deleted == [NoRow EXCEPT !.st = "deleted"]

Stored(row) == row.st \notin {"absent", "deleted"}

\* What a handler keeps of the row it read, as far as its write uses it.
Snapshot == [st: OrderStatus \cup {"absent"}, coupon: CouponRef,
             gift: SUBSET Certs, rec: BOOLEAN]
Seen(row) == [st |-> row.st, coupon |-> row.coupon, gift |-> row.gift,
              rec |-> row.rec]

\* Handlers whose write carries no lock and no version check.
Unguarded == {"patch", "kitchen", "status", "cancel"}
Guarded == {"create", "finalize", "edit", "void"}

Request == [op: Unguarded \cup Guarded \cup {"idle"}, o: Orders \cup {NoOrder},
            phase: {"idle", "created", "read", "checked", "issued"},
            snap: Snapshot, fresh: BOOLEAN, coupon: CouponRef]

Idle == [op |-> "idle", o |-> NoOrder, phase |-> "idle", snap |-> Seen(NoRow),
         fresh |-> FALSE, coupon |-> NoCoupon]

ContentOf(row) == [coupon |-> row.coupon, gift |-> row.gift]
Active(row) == row.st = "open"
OpenShift == IF shifts.open THEN shifts.last ELSE 0

-----------------------------------------------------------------------------
(* Steps that handlers share *)

\* Under Isolated, which requests on o may start next to those in flight.
MayStart(op, o) ==
  LET running == {req[q].op : q \in {q \in Requests : req[q].o = o}}
  IN  Isolated => IF op \in Unguarded
                    THEN running = {}
                    ELSE running \cap (Unguarded \cup {"create"}) = {}

\* The handler r reads order o and keeps what it saw.
Begin(r, op, o, k) ==
  /\ req[r] = Idle
  /\ Stored(orders[o])
  /\ MayStart(op, o)
  /\ req' = [req EXCEPT ![r] = [op |-> op, o |-> o, phase |-> "read",
                                snap |-> Seen(orders[o]),
                                fresh |-> (op \in Guarded), coupon |-> k]]
  /\ UNCHANGED <<orders, uses, redeemedBy, nextNumber, shifts>>

\* Fault: the updatedAt of the snapshot is not compared.
VersionIgnored(r) == TRUE

\* The row has the updatedAt that the handler read.
Unchanged(r) == req[r].fresh

\* A write to the row of o by r bumps updatedAt: every other snapshot of it is
\* out of date.  The handler goes on as next.
Write(r, o, row, next) ==
  /\ orders' = [orders EXCEPT ![o] = row]
  /\ req' = [q \in Requests |->
               IF q = r THEN next
               ELSE IF req[q].o = o THEN [req[q] EXCEPT !.fresh = FALSE]
               ELSE req[q]]

\* Fault: orders in progress are not asked for their pending certificates.
ReservationsIgnored(c, others) == FALSE

\* One of the orders lists c among its pendingCertificateSerials.
Reserved(c, others) == \E p \in others : c \in orders[p].pend

\* assertPendingBenefitsAvailable: the certificates are available and no other
\* order in progress reserves them; the coupon has a use left once the orders
\* in progress that hold it are counted.
BenefitsAvailable(k, G, o) ==
  LET others == {p \in Orders \ {o} : Active(orders[p])}
  IN  /\ \A c \in G : redeemedBy[c] = "available" /\ ~Reserved(c, others)
      /\ (k # NoCoupon /\ MaxUses[k] > 0) =>
            uses[k] + Cardinality({p \in others : orders[p].coupon = k})
              < MaxUses[k]

-----------------------------------------------------------------------------
(* Creation *)

NewRow(k, G) ==
  [NoRow EXCEPT !.st = "open", !.coupon = k, !.gift = G, !.pend = G,
                !.shift = OpenShift]

\* create of an order that is not paid at once: one transaction.
CreateOrder(o, k, G) ==
  /\ orders[o].st = "absent"
  /\ BenefitsAvailable(k, G, o)
  /\ orders' = [orders EXCEPT ![o] = NewRow(k, G)]
  /\ UNCHANGED <<uses, redeemedBy, nextNumber, shifts, req>>

\* create of a paid order: the row is inserted as pending and then finalized
\* by the same handler, outside the transaction that inserted it.
CreatePaid(r, o, k, G) ==
  /\ req[r] = Idle
  /\ orders[o].st = "absent"
  /\ BenefitsAvailable(k, G, o)
  /\ MayStart("create", o)
  /\ Write(r, o, NewRow(k, G),
           [Idle EXCEPT !.op = "create", !.o = o, !.phase = "created",
                        !.coupon = k])
  /\ UNCHANGED <<uses, redeemedBy, nextNumber, shifts>>

\* The finalization of a created order reads it again.  Another terminal may
\* have collected it meanwhile; then it is returned as it is.
CollectCreated(r) ==
  LET o == req[r].o IN
  /\ req[r].op = "create" /\ req[r].phase = "created"
  /\ orders[o].st \in {"open", "paid"}
  /\ req' = [req EXCEPT ![r] =
               IF orders[o].st = "paid" THEN Idle
               ELSE [@ EXCEPT !.phase = "read", !.snap = Seen(orders[o]),
                              !.fresh = TRUE]]
  /\ UNCHANGED <<orders, uses, redeemedBy, nextNumber, shifts>>

-----------------------------------------------------------------------------
(* Collection *)

\* finalize reads an order in progress; k is the coupon of the collection, the
\* order's own or one that the request brings.
BeginFinalize(r, o, k) ==
  /\ Active(orders[o])
  /\ Begin(r, "finalize", o, k)

\* The benefits are checked outside any transaction.
CheckBenefits(r) ==
  /\ req[r].op \in {"create", "finalize"} /\ req[r].phase = "read"
  /\ BenefitsAvailable(req[r].coupon, req[r].snap.gift, req[r].o)
  /\ req' = [req EXCEPT ![r].phase = "checked"]
  /\ UNCHANGED <<orders, uses, redeemedBy, nextNumber, shifts>>

\* Fault: the use is counted without comparing it with maxUses.
LimitIgnored(k) == TRUE

\* consumeCoupon: the coupon has a use left of its own.
CouponUsable(k) ==
  (k # NoCoupon /\ MaxUses[k] > 0) => uses[k] < MaxUses[k]

Consumed(k) == IF k = NoCoupon THEN uses ELSE [uses EXCEPT ![k] = @ + 1]

\* Fault: the certificates stay available.
NothingRedeemed(G, o) == redeemedBy

\* consumeCertificates: the certificates of the gifted items now belong to o.
Redeemed(G, o) == [c \in Certs |-> IF c \in G THEN o ELSE redeemedBy[c]]

\* Fault: an order that is collected again gets a second number.
NumberAnew(row) == nextNumber

\* An order that was invoiced before keeps its number.
InvoiceNumber(row) == IF row.inv = 0 THEN nextNumber ELSE row.inv

\* Fault: the correlativo is not advanced.
NumberNotTaken(row) == nextNumber

NumberTaken(row) == IF row.inv = 0 THEN nextNumber + 1 ELSE nextNumber

\* InvoiceIssuingService.issue: one transaction.
Issue(r) ==
  LET o == req[r].o
      k == req[r].coupon
      row == orders[o]
  IN
  /\ req[r].phase = "checked"
  /\ Unchanged(r)
  /\ Active(row)
  /\ CouponUsable(k)
  /\ \A c \in row.gift : redeemedBy[c] = "available"
  /\ OpenShift # 0
  /\ InvoiceNumber(row) <= MaxNumber
  /\ uses' = Consumed(k)
  /\ redeemedBy' = Redeemed(row.gift, o)
  /\ nextNumber' = NumberTaken(row)
  /\ Write(r, o,
           [row EXCEPT !.st = "paid", !.coupon = k, !.pend = {},
                       !.rec = (k # NoCoupon), !.inv = InvoiceNumber(row),
                       !.shift = OpenShift,
                       !.paidFor = [coupon |-> k, gift |-> req[r].snap.gift]],
           IF req[r].op = "create" THEN [req[r] EXCEPT !.phase = "issued"]
           ELSE Idle)
  /\ UNCHANGED shifts

\* The order is read once more and returned.
ReturnIssued(r) ==
  /\ req[r].phase = "issued"
  /\ req' = [req EXCEPT ![r] = Idle]
  /\ UNCHANGED <<orders, uses, redeemedBy, nextNumber, shifts>>

\* Fault: the certificates stay with the cancelled order.
NotReleased(o, to) == redeemedBy

\* The certificates that o redeemed are taken from it.
Released(o, to) ==
  [c \in Certs |-> IF redeemedBy[c] = o THEN to ELSE redeemedBy[c]]

\* Any error after the row was inserted makes create delete it; payments go
\* with it and the certificates it redeemed lose their order.
DeleteCreated(r) ==
  LET o == req[r].o IN
  /\ req[r].op = "create"
  /\ req[r].phase = "issued" => ReloadFails
  /\ Write(r, o, Deleted, Idle)
  /\ redeemedBy' = Released(o, "orphan")
  /\ UNCHANGED <<uses, nextNumber, shifts>>

-----------------------------------------------------------------------------
(* Changes to an order *)

\* updateItems of an order in progress, and of a paid one.
BeginEdit(r, o) ==
  \/ Active(orders[o]) /\ Begin(r, "edit", o, NoCoupon)
  \/ orders[o].st = "paid" /\ Begin(r, "patch", o, NoCoupon)

\* In progress: a transaction that locks the row, rejects a final status and a
\* newer version, and replaces the content.
CommitEdit(r, k, G) ==
  LET o == req[r].o IN
  /\ req[r].op = "edit"
  /\ Unchanged(r)
  /\ Active(orders[o])
  /\ BenefitsAvailable(k, G, o)
  /\ Write(r, o, [orders[o] EXCEPT !.coupon = k, !.gift = G, !.pend = G], Idle)
  /\ UNCHANGED <<uses, redeemedBy, nextNumber, shifts>>

\* Paid: a plain update that writes the status and the coupon it read.
CommitPatch(r) ==
  LET o == req[r].o IN
  /\ req[r].op = "patch"
  /\ Stored(orders[o])
  /\ Write(r, o, [orders[o] EXCEPT !.st = req[r].snap.st,
                                   !.coupon = req[r].snap.coupon,
                                   !.pend = {}], Idle)
  /\ UNCHANGED <<uses, redeemedBy, nextNumber, shifts>>

\* updateStatus of a kitchen ticket: whatever the order's status is.
BeginKitchen(r, o) == Begin(r, "kitchen", o, NoCoupon)

\* The status derived from the items, which is one in progress, is written,
\* unless the status read before the items were updated is final: then that is.
CommitKitchen(r) ==
  LET o == req[r].o IN
  /\ req[r].op = "kitchen"
  /\ Stored(orders[o])
  /\ Write(r, o, [orders[o] EXCEPT !.st = req[r].snap.st], Idle)
  /\ UNCHANGED <<uses, redeemedBy, nextNumber, shifts>>

\* A final order ignores a new status, except that a paid one may still be
\* prepared and delivered.
StatusAllowed(row) == row.st # "cancelled"

\* updateStatus to an operational status.
BeginStatus(r, o) ==
  /\ StatusAllowed(orders[o])
  /\ Begin(r, "status", o, NoCoupon)

\* A plain update.  An order that was paid is written as paid; for any other the
\* items are replaced by those that were read.
CommitStatus(r) ==
  LET o == req[r].o
      snap == req[r].snap
      row == orders[o]
  IN
  /\ req[r].op = "status"
  /\ Stored(row)
  /\ IF snap.st = "paid"
       THEN Write(r, o, [row EXCEPT !.st = "paid"], Idle)
       ELSE Write(r, o, [row EXCEPT !.st = "open", !.gift = snap.gift], Idle)
  /\ UNCHANGED <<uses, redeemedBy, nextNumber, shifts>>

\* startDelivery and the SLA alerts write columns that matter to nothing here,
\* but they bump updatedAt.
Touch(o) ==
  /\ Stored(orders[o])
  /\ req' = [q \in Requests |->
               IF req[q].o = o THEN [req[q] EXCEPT !.fresh = FALSE] ELSE req[q]]
  /\ UNCHANGED <<orders, uses, redeemedBy, nextNumber, shifts>>

-----------------------------------------------------------------------------
(* Cancellation *)

\* A paid order may be cancelled while its shift is open.
BeginCancel(r, o) ==
  \/ Active(orders[o]) /\ Begin(r, "cancel", o, NoCoupon)
  \/ /\ orders[o].st = "paid"
     /\ orders[o].shift # 0 => orders[o].shift = OpenShift
     /\ Begin(r, "void", o, NoCoupon)

\* Fault: the decrement has no lower bound.
ReturnedBelowZero(k) == [uses EXCEPT ![k] = @ - 1]

\* Fault: a cancellation keeps the use.
NotReturned(k) == uses

\* A use of k is given back.
Returned(k) == IF uses[k] > 0 THEN [uses EXCEPT ![k] = @ - 1] ELSE uses

Cancelled(row) == [row EXCEPT !.st = "cancelled", !.pend = {}]

\* Not paid when it was read: a plain update.
CommitCancel(r) ==
  LET o == req[r].o IN
  /\ req[r].op = "cancel"
  /\ Stored(orders[o])
  /\ Write(r, o, Cancelled(orders[o]), Idle)
  /\ UNCHANGED <<uses, redeemedBy, nextNumber, shifts>>

\* Fault: the status is not read again under the lock.
PaidWhenRead(row) == Stored(row)

StillPaid(row) == row.st = "paid"

\* Paid when it was read: a transaction that locks the row, requires it to be
\* paid, and returns the certificates and the coupon use.
CommitVoid(r) ==
  LET o == req[r].o
      k == req[r].snap.coupon
  IN
  /\ req[r].op = "void"
  /\ StillPaid(orders[o])
  /\ redeemedBy' = Released(o, "available")
  /\ uses' = IF k # NoCoupon /\ req[r].snap.rec THEN Returned(k) ELSE uses
  /\ Write(r, o, Cancelled(orders[o]), Idle)
  /\ UNCHANGED <<nextNumber, shifts>>

-----------------------------------------------------------------------------
(* Errors, restarts and shifts *)

\* A handler ends with an error: a guard that no longer holds, or any other.
Reject(r) ==
  /\ req[r].op \notin {"idle", "create"}
  /\ req' = [req EXCEPT ![r] = Idle]
  /\ UNCHANGED <<orders, uses, redeemedBy, nextNumber, shifts>>

\* The process stops: the handlers in flight are lost, what was committed stays.
Crash ==
  /\ \E r \in Requests : req[r] # Idle
  /\ req' = [r \in Requests |-> Idle]
  /\ UNCHANGED <<orders, uses, redeemedBy, nextNumber, shifts>>

StartShift ==
  /\ ~shifts.open /\ shifts.last < MaxShift
  /\ shifts' = [last |-> shifts.last + 1, open |-> TRUE]
  /\ UNCHANGED <<orders, uses, redeemedBy, nextNumber, req>>

CloseShift ==
  /\ shifts.open
  /\ shifts' = [shifts EXCEPT !.open = FALSE]
  /\ UNCHANGED <<orders, uses, redeemedBy, nextNumber, req>>

-----------------------------------------------------------------------------
Init ==
  /\ orders = [o \in Orders |-> NoRow]
  /\ uses = [k \in Coupons |-> 0]
  /\ redeemedBy = [c \in Certs |-> "available"]
  /\ nextNumber = 1
  /\ shifts = [last |-> 0, open |-> FALSE]
  /\ req = [r \in Requests |-> Idle]

OrderStep(o) ==
  \/ \E k \in CouponRef, G \in SUBSET Certs : CreateOrder(o, k, G)
  \/ \E r \in Requests, k \in CouponRef, G \in SUBSET Certs :
       CreatePaid(r, o, k, G)
  \/ Touch(o)

BeginStep(r, o) ==
  \/ \E k \in CouponRef : BeginFinalize(r, o, k)
  \/ BeginEdit(r, o)
  \/ BeginKitchen(r, o)
  \/ BeginStatus(r, o)
  \/ BeginCancel(r, o)

RequestStep(r) ==
  \/ CollectCreated(r)
  \/ CheckBenefits(r)
  \/ Issue(r)
  \/ ReturnIssued(r)
  \/ DeleteCreated(r)
  \/ \E k \in CouponRef, G \in SUBSET Certs : CommitEdit(r, k, G)
  \/ CommitPatch(r)
  \/ CommitKitchen(r)
  \/ CommitStatus(r)
  \/ CommitCancel(r)
  \/ CommitVoid(r)
  \/ Reject(r)

Next ==
  \/ \E o \in Orders : OrderStep(o)
  \/ \E r \in Requests, o \in Orders : BeginStep(r, o)
  \/ \E r \in Requests : RequestStep(r)
  \/ Crash
  \/ StartShift
  \/ CloseShift

Spec == Init /\ [][Next]_vars

-----------------------------------------------------------------------------
(* Properties of every interleaving *)

TypeOK ==
  /\ orders \in [Orders -> Row]
  /\ uses \in [Coupons -> Nat]
  /\ redeemedBy \in [Certs -> Redeemer]
  /\ nextNumber \in Nat
  /\ shifts \in [last: Nat, open: BOOLEAN]
  /\ req \in [Requests -> Request]

\* A coupon is never consumed more often than its maxUses, although the check
\* before the collection is made outside the transaction that consumes it
\* (OrdersService.finalize, InvoiceIssuingService.consumeCoupon).
CouponWithinLimit ==
  \A k \in Coupons : MaxUses[k] > 0 => uses[k] <= MaxUses[k]

\* No two orders carry the same invoice number, whatever status writes undo a
\* collection and let the order be collected again (invoiceNumber @unique).
InvoicesDistinct ==
  \A o, p \in Orders :
    (o # p /\ orders[o].inv # 0) => orders[o].inv # orders[p].inv

\* An order that was invoiced keeps its number as long as its row exists, also
\* when it is collected a second time.
InvoiceKept ==
  [][\A o \in Orders :
       (orders[o].inv # 0 /\ Stored(orders'[o]))
         => orders'[o].inv = orders[o].inv]_vars

-----------------------------------------------------------------------------
(* Properties that need Isolated *)

\* Two orders in progress never reserve the same certificate: the check of
\* create and updateItems is made under the lock of the certificate rows.
ReservationExclusive ==
  \A o, p \in Orders :
    (o # p /\ Active(orders[o]) /\ Active(orders[p]))
      => orders[o].pend \cap orders[p].pend = {}

\* A paid order holds the certificates it was paid with, so that no certificate
\* pays for two orders (consumeCertificates and the release of a cancellation).
CertificatesOfPaid ==
  \A o \in Orders :
    orders[o].st = "paid" => \A c \in orders[o].gift : redeemedBy[c] = o

\* currentUses counts exactly the paid orders whose consumption was recorded.
CouponAccounting ==
  \A k \in Coupons :
    uses[k] = Cardinality({o \in Orders : /\ orders[o].st = "paid"
                                          /\ orders[o].rec
                                          /\ orders[o].coupon = k})

\* What a paid order contains is what its payments were matched with: no edit
\* slips in between the pricing of a collection and its commit, or after it.
BilledAsOrdered ==
  \A o \in Orders :
    orders[o].st = "paid" =>
      /\ orders[o].paidFor = ContentOf(orders[o])
      /\ orders[o].inv # 0 /\ orders[o].shift # 0

\* A paid order stays paid until it is cancelled, and then its certificates are
\* given back in the same step.
PaidLeavesOnlyByVoid ==
  [][\A o \in Orders :
       (orders[o].st = "paid" /\ orders'[o].st # "paid")
         => /\ orders'[o].st = "cancelled"
            /\ \A c \in Certs : redeemedBy'[c] # o]_vars

\* A cancelled order is never reopened: updateItems and updateStatus refuse it.
CancelledIsFinal ==
  [][\A o \in Orders :
       (orders[o].st = "cancelled" /\ Stored(orders'[o]))
         => orders'[o].st = "cancelled"]_vars

\* A certificate is in one order at most, of those in progress and those that are paid:
\* what an order in progress reserves was not used, and what is used is not reserved.
CertificatePaysOnce ==
  \A o, p \in Orders :
    (o # p /\ {orders[o].st, orders[p].st} \subseteq {"open", "paid"})
      => orders[o].gift \cap orders[p].gift = {}

\* Every number that the correlativo has given is on an order: the number is taken in the
\* transaction that collects, and no failure or cancellation loses one.
InvoicesGapless ==
  \A n \in 1..(nextNumber - 1) : \E o \in Orders : orders[o].inv = n

-----------------------------------------------------------------------------
(* What the handlers amount to *)

\* The rows as sales that change in one step each.
Sold ==
  [o \in Orders |-> [stage |-> orders[o].st, coupon |-> orders[o].coupon,
                     gift |-> orders[o].gift, number |-> orders[o].inv]]

GivenOut == {c \in Certs : redeemedBy[c] # "available"}

Sale == INSTANCE Sales WITH
  Ids <- Orders, Gifts <- Certs, Vouchers <- Coupons, NoVoucher <- NoCoupon,
  Limit <- MaxUses, MayForget <- ReloadFails,
  sale <- Sold, used <- uses, given <- GivenOut, next <- nextNumber

\* Handlers that read, check and write in separate steps change the orders, coupons,
\* certificates and numbers as if each had run in one: every write finds what its handler
\* read, and what a collection takes is exactly what its cancellation returns.
ImplementsSales == Sale!Spec

-----------------------------------------------------------------------------
(* What the code's messages and tests say, and other schedules refute *)

\* The uses of a coupon and the orders in progress that hold it stay within
\* maxUses: "El cupón agotó su cantidad de usos (incluyendo órdenes en curso)."
CouponNotOverbooked ==
  \A k \in Coupons :
    MaxUses[k] > 0 =>
      uses[k] + Cardinality({o \in Orders : /\ Active(orders[o])
                                            /\ orders[o].coupon = k})
        <= MaxUses[k]
=============================================================================
