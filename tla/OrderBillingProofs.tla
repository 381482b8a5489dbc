-------------------------- MODULE OrderBillingProofs --------------------------
(***************************************************************************)
(* Theorems about OrderBilling that hold for every number of orders,       *)
(* handlers, coupons and certificates.                                     *)
(***************************************************************************)
EXTENDS OrderBilling, FiniteSetTheorems, TLAPS

-----------------------------------------------------------------------------
(* Type correctness *)

\* What a handler in flight always is: it has an order; it has passed the check
\* of the benefits only if it collects; and one that writes a status it read
\* has read one.
FormedRequest(q) ==
  /\ q.op # "idle" => q.o \in Orders
  /\ q.phase \in {"created", "checked", "issued"} =>
       q.op \in {"create", "finalize"}
  /\ q.op \in Unguarded => q.snap.st \in OrderStatus

WellFormed == \A r \in Requests : FormedRequest(req[r])

Typed == TypeOK /\ WellFormed

\* The handler that is not in flight has its type.
LEMMA IdleTyped == Idle \in Request /\ FormedRequest(Idle)
  BY DEF Idle, Request, FormedRequest, Unguarded, Guarded, Seen, NoRow,
         NoContent, Snapshot, OrderStatus, Final, CouponRef

\* What is read of a stored order is a snapshot of it.
LEMMA SeenTyped ==
  ASSUME NEW row \in Row
  PROVE  /\ Stored(row) => Seen(row) \in Snapshot
         /\ Seen(row).st = row.st
         /\ Stored(row) => row.st \in OrderStatus
  BY DEF Row, Stored, Seen, Snapshot, OrderStatus

\* A write of a row keeps the types of the rows and of the handlers.
LEMMA WriteTyped ==
  ASSUME Typed, NEW r \in Requests, NEW o, NEW row \in Row,
         NEW next \in Request, FormedRequest(next), Write(r, o, row, next)
  PROVE  orders' \in [Orders -> Row] /\ req' \in [Requests -> Request]
         /\ WellFormed'
<1>1. orders' \in [Orders -> Row]
  BY DEF Typed, TypeOK, Write
<1>2. ASSUME NEW q \in Requests
      PROVE  req'[q] \in Request /\ FormedRequest(req'[q])
  <2>1. /\ req[q] \in Request /\ FormedRequest(req[q])
        /\ req'[q] = IF q = r THEN next
                     ELSE IF req[q].o = o THEN [req[q] EXCEPT !.fresh = FALSE]
                     ELSE req[q]
    BY DEF Typed, TypeOK, WellFormed, Write
  <2>2. /\ [req[q] EXCEPT !.fresh = FALSE] \in Request
        /\ FormedRequest([req[q] EXCEPT !.fresh = FALSE])
    BY <2>1 DEF Request, FormedRequest
  <2> QED
    BY <2>1, <2>2
<1>3. req' \in [Requests -> Request]
  BY <1>2 DEF Write
<1> QED
  BY <1>1, <1>2, <1>3 DEF WellFormed

\* So does a step that only moves one handler on.
LEMMA MoveTyped ==
  ASSUME Typed, NEW r \in Requests, NEW next \in Request, FormedRequest(next),
         req' = [req EXCEPT ![r] = next],
         UNCHANGED <<orders, uses, redeemedBy, nextNumber, shifts>>
  PROVE  Typed'
<1>1. req \in [Requests -> Request]
  BY DEF Typed, TypeOK
<1>2. req' \in [Requests -> Request]
  BY <1>1
<1>3. \A q \in Requests : req'[q] = IF q = r THEN next ELSE req[q]
  BY <1>1
<1>4. WellFormed'
  BY <1>3 DEF Typed, WellFormed
<1> QED
  BY <1>2, <1>4 DEF Typed, TypeOK

\* A handler that begins has read a stored order.
LEMMA BeginTyped ==
  ASSUME Typed, NEW r \in Requests, NEW o \in Orders,
         NEW op \in Unguarded \cup Guarded, NEW k \in CouponRef,
         Begin(r, op, o, k)
  PROVE  Typed'
<1> DEFINE next == [op |-> op, o |-> o, phase |-> "read",
                    snap |-> Seen(orders[o]), fresh |-> (op \in Guarded),
                    coupon |-> k]
<1>1. orders[o] \in Row /\ Stored(orders[o])
  BY DEF Typed, TypeOK, Begin
<1>2. next \in Request
  BY <1>1, SeenTyped DEF Request
<1>3. FormedRequest(next)
  BY <1>1, SeenTyped DEF FormedRequest
<1>4. /\ req' = [req EXCEPT ![r] = next]
      /\ UNCHANGED <<orders, uses, redeemedBy, nextNumber, shifts>>
  BY DEF Begin
<1> QED
  BY <1>2, <1>3, <1>4, MoveTyped

\* The values that the writes build are rows.
LEMMA RowsTyped ==
  /\ NoRow \in Row /\ Deleted \in Row
  /\ \A row \in Row : Cancelled(row) \in Row
  /\ TypeOK => \A k \in CouponRef, G \in SUBSET Certs : NewRow(k, G) \in Row
BY DEF NoRow, Deleted, Cancelled, NewRow, Row, NoContent, Content, CouponRef,
       OrderStatus, Final, TypeOK, OpenShift

\* The updates of the counters and of the certificates keep their types.
LEMMA ConsumptionTyped ==
  ASSUME TypeOK
  PROVE  /\ \A k \in CouponRef : Consumed(k) \in [Coupons -> Nat]
         /\ \A k \in Coupons : Returned(k) \in [Coupons -> Nat]
         /\ \A o \in Orders, G \in SUBSET Certs :
              Redeemed(G, o) \in [Certs -> Redeemer]
         /\ \A o \in Orders, to \in Redeemer :
              Released(o, to) \in [Certs -> Redeemer]
         /\ \A row \in Row :
              InvoiceNumber(row) \in Nat /\ NumberTaken(row) \in Nat
<1>1. ASSUME NEW k \in CouponRef
      PROVE  Consumed(k) \in [Coupons -> Nat]
  BY <1>1 DEF TypeOK, Consumed, CouponRef
<1>5. ASSUME NEW k \in Coupons
      PROVE  Returned(k) \in [Coupons -> Nat]
  BY <1>5 DEF TypeOK, Returned
<1>2. ASSUME NEW o \in Orders, NEW G \in SUBSET Certs
      PROVE  Redeemed(G, o) \in [Certs -> Redeemer]
  BY <1>2 DEF TypeOK, Redeemed, Redeemer
<1>3. ASSUME NEW o \in Orders, NEW to \in Redeemer
      PROVE  Released(o, to) \in [Certs -> Redeemer]
  BY <1>3 DEF TypeOK, Released, Redeemer
<1>4. ASSUME NEW row \in Row
      PROVE  InvoiceNumber(row) \in Nat /\ NumberTaken(row) \in Nat
  BY <1>4 DEF TypeOK, InvoiceNumber, NumberTaken, Row
<1> QED
  BY <1>1, <1>2, <1>3, <1>4, <1>5

\* A step that writes a row and leaves the counters alone.
LEMMA PlainWriteTyped ==
  ASSUME Typed, NEW r \in Requests, NEW o, NEW row \in Row,
         NEW next \in Request, FormedRequest(next), Write(r, o, row, next),
         UNCHANGED <<uses, redeemedBy, nextNumber, shifts>>
  PROVE  Typed'
BY WriteTyped DEF Typed, TypeOK

\* The steps that belong to an order.
LEMMA OrderStepTyped ==
  ASSUME Typed, NEW o \in Orders, OrderStep(o)
  PROVE  Typed'
<1>1. ASSUME NEW k \in CouponRef, NEW G \in SUBSET Certs, CreateOrder(o, k, G)
      PROVE  Typed'
  <2>1. orders' \in [Orders -> Row]
    BY <1>1, RowsTyped DEF CreateOrder, Typed, TypeOK
  <2> QED
    BY <1>1, <2>1 DEF CreateOrder, Typed, TypeOK, WellFormed
<1>2. ASSUME NEW r \in Requests, NEW k \in CouponRef, NEW G \in SUBSET Certs,
             CreatePaid(r, o, k, G)
      PROVE  Typed'
  <2> DEFINE next == [Idle EXCEPT !.op = "create", !.o = o,
                                  !.phase = "created", !.coupon = k]
  <2>1. next \in Request /\ FormedRequest(next)
    BY IdleTyped DEF Idle, Request, FormedRequest, Guarded, Unguarded
  <2>2. NewRow(k, G) \in Row
    BY RowsTyped DEF Typed
  <2> QED
    BY <1>2, <2>1, <2>2, PlainWriteTyped DEF CreatePaid
<1>3. CASE Touch(o)
  <2>1. ASSUME NEW q \in Requests
        PROVE  req'[q] \in Request /\ FormedRequest(req'[q])
    <3>1. /\ req[q] \in Request /\ FormedRequest(req[q])
          /\ req'[q] = IF req[q].o = o THEN [req[q] EXCEPT !.fresh = FALSE]
                       ELSE req[q]
      BY <1>3 DEF Touch, Typed, TypeOK, WellFormed
    <3>2. /\ [req[q] EXCEPT !.fresh = FALSE] \in Request
          /\ FormedRequest([req[q] EXCEPT !.fresh = FALSE])
      BY <3>1 DEF Request, FormedRequest
    <3> QED
      BY <3>1, <3>2
  <2>2. req' \in [Requests -> Request]
    BY <1>3, <2>1 DEF Touch
  <2> QED
    BY <1>3, <2>1, <2>2 DEF Touch, Typed, TypeOK, WellFormed
<1> QED
  BY <1>1, <1>2, <1>3 DEF OrderStep

\* The reads with which the handlers begin.
LEMMA BeginStepTyped ==
  ASSUME Typed, NEW r \in Requests, NEW o \in Orders, BeginStep(r, o)
  PROVE  Typed'
<1>1. NoCoupon \in CouponRef
  BY DEF CouponRef
<1>2. {"finalize", "edit", "patch", "kitchen", "status", "cancel", "void"}
        \subseteq Unguarded \cup Guarded
  BY DEF Unguarded, Guarded
<1>3. \E op \in {"finalize", "edit", "patch", "kitchen", "status", "cancel",
                 "void"}, k \in CouponRef : Begin(r, op, o, k)
  BY <1>1 DEF BeginStep, BeginFinalize, BeginEdit, BeginKitchen, BeginStatus,
              BeginCancel
<1> QED
  BY <1>2, <1>3, BeginTyped

\* The collection of an order: the row, the coupon, the certificates and the
\* number are written together.
LEMMA IssueTyped ==
  ASSUME Typed, NEW r \in Requests, Issue(r)
  PROVE  Typed'
<1> DEFINE o == req[r].o
           k == req[r].coupon
           row == [orders[o] EXCEPT !.st = "paid", !.coupon = k, !.pend = {},
                     !.rec = (k # NoCoupon), !.inv = InvoiceNumber(orders[o]),
                     !.shift = OpenShift,
                     !.paidFor = [coupon |-> k, gift |-> req[r].snap.gift]]
           next == IF req[r].op = "create"
                     THEN [req[r] EXCEPT !.phase = "issued"] ELSE Idle
<1>1. /\ req[r] \in Request /\ FormedRequest(req[r])
      /\ req[r].phase = "checked"
      /\ o \in Orders /\ k \in CouponRef /\ req[r].snap.gift \in SUBSET Certs
      /\ orders[o] \in Row
  BY DEF Typed, TypeOK, WellFormed, Issue, FormedRequest, Request, Snapshot
<1>2. OpenShift \in Nat
  BY DEF OpenShift, Typed, TypeOK
<1>3. InvoiceNumber(orders[o]) \in Nat /\ NumberTaken(orders[o]) \in Nat
  BY <1>1, ConsumptionTyped DEF Typed
<1>4. row \in Row
  BY <1>1, <1>2, <1>3 DEF Row, Content, OrderStatus, Final
<1>5. next \in Request /\ FormedRequest(next)
  BY <1>1, IdleTyped DEF Request, FormedRequest, Unguarded
<1>6. /\ uses' = Consumed(k)
      /\ redeemedBy' = Redeemed(orders[o].gift, o)
      /\ nextNumber' = NumberTaken(orders[o])
      /\ Write(r, o, row, next)
      /\ UNCHANGED shifts
  BY DEF Issue
<1>7. orders[o].gift \in SUBSET Certs
  BY <1>1 DEF Row
<1>8. /\ uses' \in [Coupons -> Nat] /\ redeemedBy' \in [Certs -> Redeemer]
      /\ nextNumber' \in Nat /\ shifts' \in [last: Nat, open: BOOLEAN]
  BY <1>1, <1>3, <1>6, <1>7, ConsumptionTyped DEF Typed, TypeOK
<1> HIDE DEF row, next
<1>9. /\ orders' \in [Orders -> Row] /\ req' \in [Requests -> Request]
      /\ WellFormed'
  BY <1>4, <1>5, <1>6, WriteTyped
<1> QED
  BY <1>8, <1>9 DEF Typed, TypeOK

\* The steps of a handler in flight.
LEMMA RequestStepTyped ==
  ASSUME Typed, NEW r \in Requests, RequestStep(r)
  PROVE  Typed'
<1> DEFINE o == req[r].o
<1>1. /\ req[r] \in Request /\ FormedRequest(req[r])
      /\ req[r].op # "idle" => o \in Orders /\ orders[o] \in Row
  BY DEF Typed, TypeOK, WellFormed, FormedRequest
<1>2. CASE CollectCreated(r)
  <2>1. /\ o \in Orders /\ orders[o] \in Row
        /\ orders[o].st = "open" \/ orders[o].st = "paid"
    BY <1>1, <1>2 DEF CollectCreated
  <2>2. Seen(orders[o]) \in Snapshot
    BY <2>1, SeenTyped DEF Stored
  <2> DEFINE next == IF orders[o].st = "paid" THEN Idle
                     ELSE [req[r] EXCEPT !.phase = "read",
                             !.snap = Seen(orders[o]), !.fresh = TRUE]
  <2>3. next \in Request /\ FormedRequest(next)
    BY <1>1, <1>2, <2>2, IdleTyped
    DEF CollectCreated, Request, FormedRequest, Unguarded
  <2>4. req' = [req EXCEPT ![r] = next]
    BY <1>2 DEF CollectCreated
  <2> QED
    BY <1>2, <2>3, <2>4, MoveTyped DEF CollectCreated
<1>3. CASE CheckBenefits(r)
  <2> DEFINE next == [req[r] EXCEPT !.phase = "checked"]
  <2>1. next \in Request /\ FormedRequest(next)
    BY <1>1, <1>3 DEF CheckBenefits, Request, FormedRequest
  <2>2. req' = [req EXCEPT ![r] = next]
    BY <1>3 DEF CheckBenefits, Typed, TypeOK
  <2> QED
    BY <1>3, <2>1, <2>2, MoveTyped DEF CheckBenefits
<1>4. CASE ReturnIssued(r) \/ Reject(r)
  BY <1>4, IdleTyped, MoveTyped DEF ReturnIssued, Reject
<1>5. CASE DeleteCreated(r)
  <2>1. o \in Orders /\ "orphan" \in Redeemer
    BY <1>1, <1>5 DEF DeleteCreated, Redeemer
  <2>2. /\ orders' \in [Orders -> Row] /\ req' \in [Requests -> Request]
        /\ WellFormed'
    BY <1>5, IdleTyped, RowsTyped, WriteTyped DEF DeleteCreated
  <2>3. redeemedBy' \in [Certs -> Redeemer]
    BY <1>5, <2>1, ConsumptionTyped DEF DeleteCreated, Typed
  <2> QED
    BY <1>5, <2>2, <2>3 DEF DeleteCreated, Typed, TypeOK
<1>6. ASSUME NEW k \in CouponRef, NEW G \in SUBSET Certs, CommitEdit(r, k, G)
      PROVE  Typed'
  <2> DEFINE row == [orders[o] EXCEPT !.coupon = k, !.gift = G, !.pend = G]
  <2>1. row \in Row
    BY <1>1, <1>6 DEF CommitEdit, Row
  <2>2. Write(r, o, row, Idle)
    BY <1>6 DEF CommitEdit
  <2> QED
    BY <1>6, <2>1, <2>2, IdleTyped, PlainWriteTyped DEF CommitEdit
<1>7. CASE CommitPatch(r) \/ CommitKitchen(r) \/ CommitStatus(r)
             \/ CommitCancel(r)
  <2>1. /\ orders[o] \in Row /\ req[r].snap \in Snapshot
        /\ req[r].op # "idle"
    BY <1>1, <1>7
    DEF CommitPatch, CommitKitchen, CommitStatus, CommitCancel, Request
  <2>2. PICK row \in Row : Write(r, o, row, Idle)
    <3>1. /\ [orders[o] EXCEPT !.st = req[r].snap.st,
                               !.coupon = req[r].snap.coupon, !.pend = {}] \in Row
          /\ [orders[o] EXCEPT !.st = req[r].snap.st] \in Row
          /\ [orders[o] EXCEPT !.st = "paid"] \in Row
          /\ [orders[o] EXCEPT !.st = "open", !.gift = req[r].snap.gift] \in Row
          /\ Cancelled(orders[o]) \in Row
      BY <2>1, RowsTyped DEF Row, Snapshot, OrderStatus, Final
    <3> QED
      BY <1>7, <3>1 DEF CommitPatch, CommitKitchen, CommitStatus, CommitCancel
  <2>3. UNCHANGED <<uses, redeemedBy, nextNumber, shifts>>
    BY <1>7 DEF CommitPatch, CommitKitchen, CommitStatus, CommitCancel
  <2> QED
    BY <2>2, <2>3, IdleTyped, PlainWriteTyped
<1>8. CASE CommitVoid(r)
  <2>1. /\ o \in Orders /\ orders[o] \in Row /\ "available" \in Redeemer
        /\ req[r].snap.coupon \in CouponRef
    BY <1>1, <1>8 DEF CommitVoid, StillPaid, Redeemer, Request, Snapshot
  <2>2. /\ orders' \in [Orders -> Row] /\ req' \in [Requests -> Request]
        /\ WellFormed'
    BY <1>8, <2>1, IdleTyped, RowsTyped, WriteTyped DEF CommitVoid, StillPaid
  <2>3. redeemedBy' \in [Certs -> Redeemer] /\ uses' \in [Coupons -> Nat]
    BY <1>8, <2>1, ConsumptionTyped
    DEF CommitVoid, StillPaid, Typed, TypeOK, CouponRef
  <2> QED
    BY <1>8, <2>2, <2>3 DEF CommitVoid, StillPaid, Typed, TypeOK
<1> QED
  BY <1>2, <1>3, <1>4, <1>5, <1>6, <1>7, <1>8, IssueTyped DEF RequestStep

LEMMA InitTyped == Init => Typed
<1> SUFFICES ASSUME Init PROVE Typed
  OBVIOUS
<1>1. orders \in [Orders -> Row] /\ req \in [Requests -> Request] /\ WellFormed
  BY RowsTyped, IdleTyped DEF Init, WellFormed
<1> QED
  BY <1>1 DEF Init, Typed, TypeOK, Redeemer

LEMMA NextTyped == Typed /\ [Next]_vars => Typed'
<1> SUFFICES ASSUME Typed, [Next]_vars PROVE Typed'
  OBVIOUS
<1>1. CASE Crash
  BY <1>1, IdleTyped DEF Crash, Typed, TypeOK, WellFormed
<1>2. CASE StartShift \/ CloseShift
  <2>1. shifts' \in [last: Nat, open: BOOLEAN]
    <3>1. CASE StartShift
      BY <3>1 DEF StartShift, Typed, TypeOK
    <3>2. CASE CloseShift
      BY <3>2 DEF CloseShift, Typed, TypeOK
    <3> QED
      BY <1>2, <3>1, <3>2
  <2> QED
    BY <1>2, <2>1 DEF StartShift, CloseShift, Typed, TypeOK, WellFormed
<1>3. CASE UNCHANGED vars
  BY <1>3 DEF vars, Typed, TypeOK, WellFormed
<1> QED
  BY <1>1, <1>2, <1>3, OrderStepTyped, BeginStepTyped, RequestStepTyped DEF Next

\* The inductive invariant: the types, and a handler in flight always has an
\* order and a status that it read.
LEMMA AlwaysTyped == Spec => []Typed
BY InitTyped, NextTyped, PTL DEF Spec

\* Every variable has its type in every reachable state, whatever handlers run
\* next to one another.
THEOREM TypeCorrect == Spec => []TypeOK
<1>1. Typed => TypeOK
  BY DEF Typed
<1> QED
  BY <1>1, AlwaysTyped, PTL

-----------------------------------------------------------------------------
(* The limit of a coupon *)

\* Only a collection and the cancellation of a paid order count uses.
LEMMA UsesStep ==
  [Next]_vars => \/ UNCHANGED uses
                 \/ \E r \in Requests : Issue(r) \/ CommitVoid(r)
BY DEF Next, vars, OrderStep, CreateOrder, CreatePaid, Touch, BeginStep,
       BeginFinalize, BeginEdit, BeginKitchen, BeginStatus, BeginCancel, Begin,
       RequestStep, CollectCreated, CheckBenefits, ReturnIssued, DeleteCreated,
       CommitEdit, CommitPatch, CommitKitchen, CommitStatus, CommitCancel,
       Reject, Crash, StartShift, CloseShift

\* No interleaving of handlers, of their crashes and of shifts makes a limited
\* coupon be consumed more often than its maxUses.
THEOREM CouponLimited == Spec => []CouponWithinLimit
<1>1. Init => CouponWithinLimit
  BY BillingAssumption DEF Init, CouponWithinLimit
<1>2. Typed /\ CouponWithinLimit /\ [Next]_vars => CouponWithinLimit'
  <2> SUFFICES ASSUME Typed, CouponWithinLimit, [Next]_vars,
                      NEW c \in Coupons, MaxUses[c] > 0
               PROVE  uses'[c] <= MaxUses[c]
    BY DEF CouponWithinLimit
  <2>1. /\ uses \in [Coupons -> Nat] /\ uses[c] <= MaxUses[c]
        /\ MaxUses[c] \in Nat /\ uses[c] \in Nat
    BY BillingAssumption DEF Typed, TypeOK, CouponWithinLimit
  <2>2. ASSUME NEW r \in Requests, Issue(r)
        PROVE  uses'[c] <= MaxUses[c]
    <3> DEFINE k == req[r].coupon
    <3>1. uses' = Consumed(k) /\ CouponUsable(k)
      BY <2>2 DEF Issue
    <3>2. CASE k = c
      BY <2>1, <3>1, <3>2, BillingAssumption DEF Consumed, CouponUsable
    <3>3. CASE k # c
      BY <2>1, <3>1, <3>3 DEF Consumed
    <3> QED
      BY <3>2, <3>3
  <2>3. ASSUME NEW r \in Requests, CommitVoid(r)
        PROVE  uses'[c] <= MaxUses[c]
    <3>1. uses' = uses \/ \E k : uses' = [uses EXCEPT ![k] = @ - 1]
      BY <2>3 DEF CommitVoid, StillPaid, Returned
    <3> QED
      BY <2>1, <3>1
  <2> QED
    BY <2>1, <2>2, <2>3, UsesStep
<1> QED
  BY <1>1, <1>2, AlwaysTyped, PTL DEF Spec

-----------------------------------------------------------------------------
(* Invoice numbers *)

\* An order that does not exist has no number; a number that was given out is
\* below the next one, and no two orders share it.
Numbering ==
  /\ \A o \in Orders : ~Stored(orders[o]) => orders[o].inv = 0
  /\ \A o \in Orders : orders[o].inv < nextNumber
  /\ InvoicesDistinct

\* A change from row to new that gives no number out: the number is kept, or
\* the order is created or deleted.
KeepsNumber(row, new) ==
  \/ Stored(row) /\ new.inv = row.inv
  \/ new = row
  \/ (~Stored(row) \/ ~Stored(new)) /\ new.inv = 0

NoNumberGiven ==
  /\ nextNumber' = nextNumber
  /\ \A p \in Orders :
       /\ KeepsNumber(orders[p], orders'[p])
       /\ ~Stored(orders'[p]) => orders'[p].inv = 0 \/ orders'[p] = orders[p]

\* The write of one row.
LEMMA WriteKeepsNumber ==
  ASSUME Typed, NEW o \in Orders, NEW row,
         orders' = [orders EXCEPT ![o] = row], nextNumber' = nextNumber,
         \/ Stored(orders[o]) /\ Stored(row) /\ row.inv = orders[o].inv
         \/ ~Stored(orders[o]) /\ row.inv = 0
         \/ ~Stored(row) /\ row.inv = 0
  PROVE  NoNumberGiven
BY DEF Typed, TypeOK, NoNumberGiven, KeepsNumber

\* Every step but a collection keeps the numbers.
LEMMA RequestStepKeepsNumber ==
  ASSUME Typed, NEW r \in Requests, RequestStep(r), ~Issue(r)
  PROVE  NoNumberGiven
<1> DEFINE o == req[r].o
<1>1. /\ req[r] \in Request /\ FormedRequest(req[r])
      /\ req[r].op # "idle" => o \in Orders /\ orders[o] \in Row
  BY DEF Typed, TypeOK, WellFormed, FormedRequest
<1>2. CASE CollectCreated(r) \/ CheckBenefits(r) \/ ReturnIssued(r) \/ Reject(r)
  BY <1>2 DEF CollectCreated, CheckBenefits, ReturnIssued, Reject,
              NoNumberGiven, KeepsNumber
<1>3. CASE DeleteCreated(r)
  <2>1. /\ o \in Orders /\ nextNumber' = nextNumber
        /\ orders' = [orders EXCEPT ![o] = Deleted]
    BY <1>1, <1>3 DEF DeleteCreated, Write
  <2>2. ~Stored(Deleted) /\ Deleted.inv = 0
    BY DEF Stored, Deleted, NoRow
  <2> QED
    BY <2>1, <2>2, WriteKeepsNumber
<1>4. ASSUME NEW k \in CouponRef, NEW G \in SUBSET Certs, CommitEdit(r, k, G)
      PROVE  NoNumberGiven
  <2> DEFINE row == [orders[o] EXCEPT !.coupon = k, !.gift = G, !.pend = G]
  <2>1. /\ o \in Orders /\ orders[o] \in Row /\ nextNumber' = nextNumber
        /\ orders' = [orders EXCEPT ![o] = row] /\ Stored(orders[o])
    BY <1>1, <1>4 DEF CommitEdit, Write, Active, Stored
  <2>2. Stored(row) /\ row.inv = orders[o].inv
    BY <2>1 DEF Stored, Row
  <2> QED
    BY <2>1, <2>2, WriteKeepsNumber
<1>5. CASE CommitPatch(r) \/ CommitKitchen(r) \/ CommitStatus(r)
             \/ CommitCancel(r) \/ CommitVoid(r)
  <2>1. /\ o \in Orders /\ orders[o] \in Row /\ nextNumber' = nextNumber
        /\ Stored(orders[o])
        /\ req[r].op \in {"patch", "kitchen"} => req[r].snap.st \in OrderStatus
    BY <1>1, <1>5
    DEF CommitPatch, CommitKitchen, CommitStatus, CommitCancel, CommitVoid, StillPaid,
        Stored, FormedRequest, Unguarded
  <2>2. PICK row : /\ orders' = [orders EXCEPT ![o] = row]
                   /\ row.inv = orders[o].inv /\ Stored(row)
    <3> DEFINE Kept(row) == row.inv = orders[o].inv /\ Stored(row)
               Put(row) == orders' = [orders EXCEPT ![o] = row]
    <3>1. CASE CommitPatch(r)
      <4> DEFINE row == [orders[o] EXCEPT !.st = req[r].snap.st,
                           !.coupon = req[r].snap.coupon, !.pend = {}]
      <4>1. Kept(row)
        BY <2>1, <3>1 DEF CommitPatch, Row, Stored, OrderStatus, Final
      <4>2. Put(row)
        BY <3>1 DEF CommitPatch, Write
      <4> QED
        BY <4>1, <4>2
    <3>2. CASE CommitKitchen(r)
      <4> DEFINE row == [orders[o] EXCEPT !.st = req[r].snap.st]
      <4>1. Kept(row)
        BY <2>1, <3>2 DEF CommitKitchen, Row, Stored, OrderStatus, Final
      <4>2. Put(row)
        BY <3>2 DEF CommitKitchen, Write
      <4> QED
        BY <4>1, <4>2
    <3>3. CASE CommitStatus(r)
      <4> DEFINE paid == [orders[o] EXCEPT !.st = "paid"]
                 open == [orders[o] EXCEPT !.st = "open",
                                           !.gift = req[r].snap.gift]
      <4>1. Kept(paid) /\ Kept(open)
        BY <2>1 DEF Row, Stored
      <4>2. Put(paid) \/ Put(open)
        BY <3>3 DEF CommitStatus, Write
      <4> QED
        BY <4>1, <4>2
    <3>4. CASE CommitCancel(r) \/ CommitVoid(r)
      <4>1. Kept(Cancelled(orders[o]))
        BY <2>1 DEF Cancelled, Row, Stored
      <4>2. Put(Cancelled(orders[o]))
        BY <3>4 DEF CommitCancel, CommitVoid, StillPaid, Write
      <4> QED
        BY <4>1, <4>2
    <3> QED
      BY <1>5, <3>1, <3>2, <3>3, <3>4
  <2> QED
    BY <2>1, <2>2, WriteKeepsNumber
<1> QED
  BY <1>2, <1>3, <1>4, <1>5 DEF RequestStep

LEMMA NextKeepsNumber ==
  ASSUME Typed, [Next]_vars
  PROVE  NoNumberGiven \/ \E r \in Requests : Issue(r)
<1>1. ASSUME NEW o \in Orders, OrderStep(o)
      PROVE  NoNumberGiven
  <2>1. CASE Touch(o)
    BY <2>1 DEF Touch, NoNumberGiven, KeepsNumber
  <2>2. CASE ~Touch(o)
    <3>1. PICK k \in CouponRef, G \in SUBSET Certs :
            /\ orders' = [orders EXCEPT ![o] = NewRow(k, G)]
            /\ ~Stored(orders[o]) /\ nextNumber' = nextNumber
      BY <1>1, <2>2 DEF OrderStep, CreateOrder, CreatePaid, Write, Stored
    <3>2. NewRow(k, G).inv = 0
      BY DEF NewRow, NoRow
    <3> QED
      BY <3>1, <3>2, WriteKeepsNumber
  <2> QED
    BY <2>1, <2>2
<1>2. ASSUME UNCHANGED <<orders, nextNumber>>
      PROVE  NoNumberGiven
  BY <1>2 DEF NoNumberGiven, KeepsNumber
<1>3. \/ \E o \in Orders : OrderStep(o)
      \/ \E r \in Requests : RequestStep(r)
      \/ UNCHANGED <<orders, nextNumber>>
  BY DEF Next, vars, BeginStep, BeginFinalize, BeginEdit, BeginKitchen,
         BeginStatus, BeginCancel, Begin, Crash, StartShift, CloseShift
<1> QED
  BY <1>1, <1>2, <1>3, RequestStepKeepsNumber

\* A collection numbers one order, and keeps the number it had.
LEMMA IssueNumbers ==
  ASSUME Typed, NEW r \in Requests, Issue(r)
  PROVE  \E o \in Orders :
           /\ Stored(orders[o]) /\ Stored(orders'[o])
           /\ orders'[o].inv = InvoiceNumber(orders[o])
           /\ nextNumber' = NumberTaken(orders[o])
           /\ \A p \in Orders \ {o} : orders'[p] = orders[p]
<1> DEFINE o == req[r].o
<1>1. o \in Orders /\ orders[o] \in Row
  BY DEF Typed, TypeOK, WellFormed, FormedRequest, Issue
<1>2. Stored(orders[o]) /\ nextNumber' = NumberTaken(orders[o])
  BY DEF Issue, Active, Stored
<1> DEFINE k == req[r].coupon
           row == [orders[o] EXCEPT !.st = "paid", !.coupon = k, !.pend = {},
                     !.rec = (k # NoCoupon), !.inv = InvoiceNumber(orders[o]),
                     !.shift = OpenShift,
                     !.paidFor = [coupon |-> k, gift |-> req[r].snap.gift]]
<1>3. orders' = [orders EXCEPT ![o] = row]
  BY DEF Issue, Write
<1>4. row.st = "paid" /\ row.inv = InvoiceNumber(orders[o])
  BY <1>1 DEF Row
<1> HIDE DEF row
<1>5. /\ orders'[o] = row
      /\ \A p \in Orders \ {o} : orders'[p] = orders[p]
  BY <1>1, <1>3 DEF Typed, TypeOK
<1> QED
  BY <1>1, <1>2, <1>4, <1>5 DEF Stored

LEMMA NumberingStep ==
  ASSUME Typed, Numbering, [Next]_vars
  PROVE  Numbering'
<1>1. nextNumber \in Nat /\ \A o \in Orders : orders[o].inv \in Nat
  BY DEF Typed, TypeOK, Row
<1>2. CASE NoNumberGiven
  BY <1>1, <1>2 DEF NoNumberGiven, KeepsNumber, Numbering, InvoicesDistinct
<1>3. ASSUME NEW r \in Requests, Issue(r)
      PROVE  Numbering'
  BY <1>1, <1>3, IssueNumbers
  DEF Numbering, InvoicesDistinct, InvoiceNumber, NumberTaken
<1> QED
  BY <1>2, <1>3, NextKeepsNumber

LEMMA InitNumbering == Init => Numbering
BY DEF Init, Numbering, InvoicesDistinct, NoRow

\* No two orders ever carry the same invoice number, although a stale write may
\* put a paid order back in progress and let it be collected again.
THEOREM InvoicesUnique == Spec => []InvoicesDistinct
<1>1. Numbering => InvoicesDistinct
  BY DEF Numbering
<1> QED
  BY <1>1, InitNumbering, NumberingStep, AlwaysTyped, PTL DEF Spec

\* An order keeps its invoice number as long as it exists.
THEOREM InvoicePermanent == Spec => InvoiceKept
<1>1. ASSUME Typed, Numbering, [Next]_vars, NEW o \in Orders,
             orders[o].inv # 0, Stored(orders'[o])
      PROVE  orders'[o].inv = orders[o].inv
  <2>1. Stored(orders[o])
    BY <1>1 DEF Numbering
  <2>2. CASE NoNumberGiven
    BY <1>1, <2>1, <2>2 DEF NoNumberGiven, KeepsNumber
  <2>3. ASSUME NEW r \in Requests, Issue(r)
        PROVE  orders'[o].inv = orders[o].inv
    BY <1>1, <2>3, IssueNumbers DEF InvoiceNumber
  <2> QED
    BY <1>1, <2>2, <2>3, NextKeepsNumber
<1>2. Typed /\ Numbering /\ [Next]_vars
        => [\A o \in Orders :
              (orders[o].inv # 0 /\ Stored(orders'[o]))
                => orders'[o].inv = orders[o].inv]_vars
  BY <1>1
<1> QED
  BY <1>2, InitNumbering, NumberingStep, AlwaysTyped, PTL
  DEF Spec, InvoiceKept

-----------------------------------------------------------------------------
(* Requests that do not overlap: the invariant under Isolated *)

\* The requests that run alone on their order.
Exclusive == Unguarded \cup {"create"}

Alone ==
  \A q, p \in Requests :
    (q # p /\ req[q].o = req[p].o /\ req[q].o \in Orders) => req[q].op \notin Exclusive

\* What a request knows of its order is still true of it: of a request that runs alone and
\* of one whose version is the newest all of it; of a cancellation that found the order
\* paid, as long as it is paid.
Informed(q) ==
  LET row == orders[q.o] IN
  q.o \in Orders =>
    /\ Stored(row)
    /\ (q.op \in Unguarded \/ (q.fresh /\ q.phase \in {"read", "checked"}))
         => q.snap = Seen(row)
    /\ q.op = "patch" => q.snap.st = "paid"
    /\ q.op = "cancel" => q.snap.st = "open"
    /\ q.op = "status" => q.snap.st # "cancelled"
    /\ q.op = "void" => row.st \in Final /\ (row.st = "paid" => q.snap = Seen(row))
    /\ q.op = "create" => row.st = (IF q.phase = "issued" THEN "paid" ELSE "open")

AllInformed == \A q \in Requests : Informed(req[q])

\* Only an order in progress reserves certificates.
ReservedWhileOpen == \A o \in Orders : ~Active(orders[o]) => orders[o].pend = {}

IsolationInv ==
  Typed /\ Alone /\ AllInformed /\ ReservedWhileOpen

LEMMA InitIsolation == Init => IsolationInv
<1> SUFFICES ASSUME Init PROVE IsolationInv
  OBVIOUS
<1>1. \A q \in Requests : req[q].o = NoOrder
  BY DEF Init, Idle
<1>2. Alone /\ AllInformed
  BY <1>1, BillingAssumption DEF Alone, AllInformed, Informed
<1>3. ReservedWhileOpen
  BY DEF Init, ReservedWhileOpen, NoRow
<1> QED
  BY <1>2, <1>3, InitTyped DEF IsolationInv

\* Requests that go on with their order, or end, run no less alone than before.
LEMMA AloneKept ==
  ASSUME Alone,
         \A q \in Requests :
           req'[q].o \in Orders => req'[q].o = req[q].o /\ req'[q].op = req[q].op
  PROVE  Alone'
  BY DEF Alone

\* A request that begins as Isolated allows has read what the row is.
LEMMA BeginIsolated ==
  ASSUME IsolationInv, Isolated, NEW r \in Requests, NEW o \in Orders,
         NEW op \in (Unguarded \cup Guarded) \ {"create"}, NEW k \in CouponRef,
         Begin(r, op, o, k),
         op = "patch" => orders[o].st = "paid",
         op = "cancel" => orders[o].st = "open",
         op = "status" => orders[o].st # "cancelled",
         op = "void" => orders[o].st = "paid"
  PROVE  Alone' /\ AllInformed' /\ ReservedWhileOpen' /\ UNCHANGED orders
<1> DEFINE next == [op |-> op, o |-> o, phase |-> "read", snap |-> Seen(orders[o]),
                    fresh |-> (op \in Guarded), coupon |-> k]
<1>1. /\ Stored(orders[o]) /\ MayStart(op, o) /\ req' = [req EXCEPT ![r] = next]
      /\ UNCHANGED orders
  BY DEF Begin
<1>2. req \in [Requests -> Request] /\ orders[o] \in Row
  BY DEF IsolationInv, Typed, TypeOK
<1>3. \A q \in Requests : req'[q] = IF q = r THEN next ELSE req[q]
  BY <1>1, <1>2
<1>4. \A q \in Requests :
        req[q].o = o => op \notin Unguarded /\ req[q].op \notin Exclusive
  BY <1>1 DEF MayStart, Exclusive
<1>5. next.op = op /\ next.o = o
  OBVIOUS
<1>6. Seen(orders[o]).st = orders[o].st
  BY DEF Seen
<1>7. \A x : x = next => Informed(x)
  BY <1>1, <1>6 DEF Informed, Final, Guarded, Unguarded
<1> HIDE DEF next
<1>8. Alone'
  BY <1>3, <1>4, <1>5 DEF IsolationInv, Alone, Exclusive
<1>9. \A x : Informed(x) => Informed(x)'
  BY <1>1 DEF Informed
<1>10. AllInformed'
  <2>1. ASSUME NEW q \in Requests PROVE Informed(req[q])'
    <3>1. Informed(req[q])
      BY DEF IsolationInv, AllInformed
    <3>2. PICK x : x = req'[q]
      OBVIOUS
    <3>3. Informed(x)'
      BY <1>3, <1>7, <1>9, <3>1, <3>2
    <3> QED
      BY <3>2, <3>3 DEF Informed
  <2> QED
    BY <2>1 DEF AllInformed
<1>11. ReservedWhileOpen'
  BY <1>1 DEF IsolationInv, ReservedWhileOpen
<1> QED
  BY <1>1, <1>8, <1>10, <1>11

\* The write of a row by a request r that ends with it, or goes on creating the order: the
\* others on the same order keep what they need to be right about.
LEMMA WriteIsolated ==
  ASSUME IsolationInv, NEW r \in Requests, NEW o \in Orders, NEW row, NEW next,
         Write(r, o, row, next),
         \A q \in Requests \ {r} :
           req[q].o = o => /\ req[q].op \notin Exclusive /\ Stored(row)
                           /\ req[q].op = "void" => row.st = "cancelled",
         ~Active(row) => row.pend = {},
         \/ next = Idle
         \/ /\ next.op = "create" /\ next.o = o
            /\ \/ next.phase = "created" /\ ~next.fresh /\ row.st = "open"
               \/ next.phase = "issued" /\ row.st = "paid"
  PROVE  AllInformed' /\ ReservedWhileOpen'
<1>1. /\ orders' = [orders EXCEPT ![o] = row]
      /\ req' = [q \in Requests |->
                   IF q = r THEN next
                   ELSE IF req[q].o = o THEN [req[q] EXCEPT !.fresh = FALSE]
                   ELSE req[q]]
  BY DEF Write
<1>2. \A p \in Orders : orders'[p] = IF p = o THEN row ELSE orders[p]
  BY <1>1 DEF IsolationInv, Typed, TypeOK
<1>3. ReservedWhileOpen'
  BY <1>2 DEF IsolationInv, ReservedWhileOpen
<1>4. ASSUME NEW q \in Requests, NEW x, x = req'[q] PROVE Informed(x)'
  <2>1. req[q] \in Request /\ Informed(req[q])
    BY DEF IsolationInv, Typed, TypeOK, AllInformed
  <2>2. CASE q = r
    <3>1. x = next
      BY <1>1, <1>4, <2>2
    <3>2. CASE next = Idle
      BY <3>1, <3>2, BillingAssumption DEF Informed, Idle
    <3>3. CASE next # Idle
      BY <1>2, <3>1, <3>3 DEF Informed, Unguarded, Stored
    <3> QED
      BY <3>2, <3>3
  <2>3. CASE q # r /\ req[q].o = o
    <3>1. x = [req[q] EXCEPT !.fresh = FALSE]
      BY <1>1, <1>4, <2>3
    <3>2. x.o = o /\ x.op = req[q].op /\ x.fresh = FALSE
      BY <2>1, <2>3, <3>1 DEF Request
    <3>3. x.op \notin Exclusive /\ Stored(row) /\ (x.op = "void" => row.st = "cancelled")
      BY <2>3, <3>2
    <3>4. orders'[o] = row
      BY <1>2
    <3> HIDE DEF IsolationInv
    <3> QED
      BY <3>2, <3>3, <3>4 DEF Informed, Exclusive, Unguarded, Final
  <2>4. CASE q # r /\ req[q].o # o
    <3>1. x = req[q]
      BY <1>1, <1>4, <2>4
    <3>2. Informed(x)
      BY <2>1, <3>1
    <3>3. x.o \in Orders => orders'[x.o] = orders[x.o]
      BY <1>2, <2>4, <3>1
    <3> QED
      BY <3>2, <3>3 DEF Informed
  <2> QED
    BY <2>2, <2>3, <2>4
<1>5. AllInformed'
  <2>1. ASSUME NEW q \in Requests PROVE Informed(req[q])'
    <3>1. PICK x : x = req'[q]
      OBVIOUS
    <3>2. Informed(x)'
      BY <1>4, <3>1
    <3> QED
      BY <3>1, <3>2 DEF Informed
  <2> QED
    BY <2>1 DEF AllInformed
<1> QED
  BY <1>3, <1>5

\* The requests that begin: none of them writes.
LEMMA BeginStepIsolated ==
  ASSUME IsolationInv, Isolated, NEW r \in Requests, NEW o \in Orders, BeginStep(r, o)
  PROVE  Alone' /\ AllInformed' /\ ReservedWhileOpen'
         /\ UNCHANGED <<orders, uses, redeemedBy, nextNumber>>
<1>1. NoCoupon \in CouponRef
  BY DEF CouponRef
<1>2. {"finalize", "edit", "patch", "kitchen", "status", "cancel", "void"}
        \subseteq (Unguarded \cup Guarded) \ {"create"}
  BY DEF Unguarded, Guarded
<1>3. PICK op \in {"finalize", "edit", "patch", "kitchen", "status", "cancel", "void"},
           k \in CouponRef :
        /\ Begin(r, op, o, k)
        /\ op = "patch" => orders[o].st = "paid"
        /\ op = "cancel" => orders[o].st = "open"
        /\ op = "status" => orders[o].st # "cancelled"
        /\ op = "void" => orders[o].st = "paid"
  BY <1>1 DEF BeginStep, BeginFinalize, BeginEdit, BeginKitchen, BeginStatus,
              BeginCancel, StatusAllowed, Active
<1>4. UNCHANGED <<orders, uses, redeemedBy, nextNumber>>
  BY <1>3 DEF Begin
<1> QED
  BY <1>2, <1>3, <1>4, BeginIsolated

\* What a handler in flight is to its order.
LEMMA OwnOrder ==
  ASSUME IsolationInv, NEW r \in Requests, req[r].op # "idle"
  PROVE  /\ req[r].o \in Orders /\ orders[req[r].o] \in Row /\ req[r] \in Request
         /\ FormedRequest(req[r]) /\ Informed(req[r]) /\ Stored(orders[req[r].o])
         /\ \A q \in Requests \ {r} :
              req[q].o = req[r].o => /\ req[q].op \notin Exclusive
                                     /\ req[r].op \notin Exclusive
                                     /\ Informed(req[q])
<1>1. req[r].o \in Orders /\ req[r] \in Request /\ FormedRequest(req[r])
  BY DEF IsolationInv, Typed, TypeOK, WellFormed, FormedRequest
<1>2. orders[req[r].o] \in Row
  BY <1>1 DEF IsolationInv, Typed, TypeOK
<1>3. Informed(req[r]) /\ Stored(orders[req[r].o])
  BY <1>1 DEF IsolationInv, AllInformed, Informed
<1> QED
  BY <1>1, <1>2, <1>3 DEF IsolationInv, Alone, AllInformed

\* Steps of a request that leave the rows alone.
LEMMA MoveIsolated ==
  ASSUME IsolationInv, NEW r \in Requests, NEW next,
         req' = [req EXCEPT ![r] = next], UNCHANGED orders,
         next = Idle \/ (next.o = req[r].o /\ next.op = req[r].op /\ Informed(next)')
  PROVE  Alone' /\ AllInformed' /\ ReservedWhileOpen'
<1>1. \A q \in Requests : req'[q] = IF q = r THEN next ELSE req[q]
  BY DEF IsolationInv, Typed, TypeOK
<1>2. Alone'
  <2>1. NoOrder \notin Orders
    BY BillingAssumption
  <2>2. \A q \in Requests :
          req'[q].o \in Orders => req'[q].o = req[q].o /\ req'[q].op = req[q].op
    BY <1>1, <2>1 DEF Idle
  <2> QED
    BY <2>2, AloneKept DEF IsolationInv
<1>3. ASSUME NEW q \in Requests PROVE Informed(req[q])'
  <2>1. Informed(req[q])
    BY DEF IsolationInv, AllInformed
  <2>2. CASE q = r /\ next = Idle
    BY <1>1, <2>2, BillingAssumption DEF Informed, Idle
  <2>3. CASE q = r /\ next # Idle
    BY <1>1, <2>3 DEF Informed
  <2>4. CASE q # r
    BY <1>1, <2>1, <2>4 DEF Informed
  <2> QED
    BY <2>2, <2>3, <2>4
<1>4. ReservedWhileOpen'
  BY DEF IsolationInv, ReservedWhileOpen
<1> QED
  BY <1>2, <1>3, <1>4 DEF AllInformed

LEMMA MovesIsolated ==
  ASSUME IsolationInv, NEW r \in Requests,
         CollectCreated(r) \/ CheckBenefits(r) \/ ReturnIssued(r) \/ Reject(r)
  PROVE  Alone' /\ AllInformed' /\ ReservedWhileOpen'
         /\ UNCHANGED <<orders, uses, redeemedBy, nextNumber>>
<1> DEFINE o == req[r].o
<1>1. UNCHANGED <<orders, uses, redeemedBy, nextNumber>>
  BY DEF CollectCreated, CheckBenefits, ReturnIssued, Reject
<1>2. CASE CollectCreated(r)
  <2>1. req[r].op = "create" /\ req[r].phase = "created"
    BY <1>2 DEF CollectCreated
  <2>2. /\ o \in Orders /\ orders[o] \in Row /\ req[r] \in Request /\ Informed(req[r])
        /\ orders[o].st = "open"
    BY <2>1, OwnOrder DEF Informed
  <2> DEFINE next == [req[r] EXCEPT !.phase = "read", !.snap = Seen(orders[o]),
                                    !.fresh = TRUE]
  <2>3. req' = [req EXCEPT ![r] = next]
    BY <1>2, <2>2 DEF CollectCreated
  <2>4. /\ next.o = o /\ next.op = "create" /\ next.phase = "read"
        /\ next.snap = Seen(orders[o])
    BY <2>1, <2>2 DEF Request
  <2> HIDE DEF next
  <2>5. PICK x : x = next
    OBVIOUS
  <2>6. Informed(x)'
    BY <1>1, <2>2, <2>4, <2>5 DEF Informed, Stored, Unguarded
  <2> QED
    BY <1>1, <2>1, <2>3, <2>4, <2>5, <2>6, MoveIsolated
<1>3. CASE CheckBenefits(r)
  <2> DEFINE next == [req[r] EXCEPT !.phase = "checked"]
  <2>1. req' = [req EXCEPT ![r] = next]
    BY <1>3 DEF CheckBenefits, IsolationInv, Typed, TypeOK
  <2>2. /\ req[r].op \in {"create", "finalize"} /\ req[r].phase = "read"
        /\ req[r] \in Request /\ Informed(req[r])
    BY <1>3, OwnOrder DEF CheckBenefits
  <2>3. /\ next.o = o /\ next.op = req[r].op /\ next.phase = "checked"
        /\ next.snap = req[r].snap /\ next.fresh = req[r].fresh
    BY <2>2 DEF Request
  <2> HIDE DEF next
  <2>4. PICK x : x = next
    OBVIOUS
  <2>5. Informed(x)'
    BY <1>1, <2>2, <2>3, <2>4 DEF Informed, Unguarded
  <2> QED
    BY <1>1, <2>1, <2>3, <2>4, <2>5, MoveIsolated
<1>4. CASE ReturnIssued(r) \/ Reject(r)
  BY <1>1, <1>4, MoveIsolated DEF ReturnIssued, Reject
<1> QED
  BY <1>1, <1>2, <1>3, <1>4

\* The three writes without a version check write back the row that they read: alone on
\* their order, they change nothing.
LEMMA RewritesIsolated ==
  ASSUME IsolationInv, NEW r \in Requests,
         CommitPatch(r) \/ CommitKitchen(r) \/ CommitStatus(r)
  PROVE  Alone' /\ AllInformed' /\ ReservedWhileOpen'
         /\ UNCHANGED <<orders, uses, redeemedBy, nextNumber>>
<1> DEFINE o == req[r].o
           row == orders[o]
<1>1. req[r].op \in {"patch", "kitchen", "status"}
  BY DEF CommitPatch, CommitKitchen, CommitStatus
<1>2. /\ o \in Orders /\ row \in Row /\ req[r] \in Request /\ Informed(req[r]) /\ Stored(row)
      /\ \A q \in Requests \ {r} : req[q].o # o
  BY <1>1, OwnOrder DEF Exclusive, Unguarded
<1>3. req[r].snap = Seen(row)
  BY <1>1, <1>2 DEF Informed, Unguarded
<1>4. req[r].snap.st = row.st /\ req[r].snap.coupon = row.coupon
      /\ req[r].snap.gift = row.gift
  BY <1>3 DEF Seen
<1>5. ~Active(row) => row.pend = {}
  BY <1>2 DEF IsolationInv, ReservedWhileOpen
<1>6. Write(r, o, row, Idle)
  <2>1. CASE CommitPatch(r)
    <3>1. row.st = "paid"
      BY <1>2, <1>4, <2>1 DEF CommitPatch, Informed
    <3>2. [row EXCEPT !.st = req[r].snap.st, !.coupon = req[r].snap.coupon, !.pend = {}]
            = row
      BY <1>2, <1>4, <1>5, <3>1 DEF Row, Active
    <3> QED
      BY <2>1, <3>2 DEF CommitPatch
  <2>2. CASE CommitKitchen(r)
    <3>1. [row EXCEPT !.st = req[r].snap.st] = row
      BY <1>2, <1>4 DEF Row
    <3> QED
      BY <2>2, <3>1 DEF CommitKitchen
  <2>3. CASE CommitStatus(r)
    <3>1. row.st # "cancelled"
      BY <1>2, <1>4, <2>3 DEF CommitStatus, Informed
    <3>2. row.st # "paid" => row.st = "open"
      BY <1>2, <3>1 DEF Row, Stored, OrderStatus, Final
    <3>3. row.st = "paid" => [row EXCEPT !.st = "paid"] = row
      BY <1>2 DEF Row
    <3>4. row.st = "open" => [row EXCEPT !.st = "open", !.gift = req[r].snap.gift] = row
      BY <1>2, <1>4 DEF Row
    <3> QED
      BY <1>4, <2>3, <3>2, <3>3, <3>4 DEF CommitStatus
  <2> QED
    BY <2>1, <2>2, <2>3
<1>7. orders' = orders
  BY <1>2, <1>6 DEF Write, IsolationInv, Typed, TypeOK
<1>8. UNCHANGED <<uses, redeemedBy, nextNumber>>
  BY DEF CommitPatch, CommitKitchen, CommitStatus
<1>9. Alone'
  <2>1. \A q \in Requests :
          req'[q].o \in Orders => req'[q].o = req[q].o /\ req'[q].op = req[q].op
    BY <1>2, <1>6, BillingAssumption DEF Write, Idle
  <2> QED
    BY <2>1, AloneKept DEF IsolationInv
<1>10. AllInformed' /\ ReservedWhileOpen'
  BY <1>2, <1>5, <1>6, WriteIsolated
<1> QED
  BY <1>7, <1>8, <1>9, <1>10

\* The steps of an order without a request of its own: nobody is on an order that is not
\* there yet.
LEMMA OrderStepIsolated ==
  ASSUME IsolationInv, Isolated, NEW o \in Orders, OrderStep(o)
  PROVE  Alone' /\ AllInformed' /\ ReservedWhileOpen'
<1>1. ASSUME orders[o].st = "absent", NEW q \in Requests
      PROVE  req[q].o # o
  BY <1>1 DEF IsolationInv, AllInformed, Informed, Stored
<1>2. ASSUME NEW k, NEW G
      PROVE  NewRow(k, G).st = "open"
  BY DEF NewRow, NoRow
<1>3. ASSUME NEW k \in CouponRef, NEW G \in SUBSET Certs, CreateOrder(o, k, G)
      PROVE  Alone' /\ AllInformed' /\ ReservedWhileOpen'
  <2>1. UNCHANGED req /\ orders[o].st = "absent"
        /\ orders' = [orders EXCEPT ![o] = NewRow(k, G)]
    BY <1>3 DEF CreateOrder
  <2>2. \A p \in Orders : orders'[p] = IF p = o THEN NewRow(k, G) ELSE orders[p]
    BY <2>1 DEF IsolationInv, Typed, TypeOK
  <2>3. Alone' /\ ReservedWhileOpen'
    BY <1>2, <2>1, <2>2 DEF IsolationInv, Alone, ReservedWhileOpen, Active
  <2>4. ASSUME NEW q \in Requests PROVE Informed(req[q])'
    <3>1. req[q].o # o /\ Informed(req[q])
      BY <1>1, <2>1 DEF IsolationInv, AllInformed
    <3> QED
      BY <2>1, <2>2, <3>1 DEF Informed
  <2> QED
    BY <2>3, <2>4 DEF AllInformed
<1>4. ASSUME NEW r \in Requests, NEW k \in CouponRef, NEW G \in SUBSET Certs,
             CreatePaid(r, o, k, G)
      PROVE  Alone' /\ AllInformed' /\ ReservedWhileOpen'
  <2> DEFINE next == [Idle EXCEPT !.op = "create", !.o = o, !.phase = "created",
                                  !.coupon = k]
  <2>1. Write(r, o, NewRow(k, G), next) /\ orders[o].st = "absent"
    BY <1>4 DEF CreatePaid
  <2>2. next.op = "create" /\ next.o = o /\ next.phase = "created" /\ next.fresh = FALSE
    BY DEF Idle
  <2> HIDE DEF next
  <2>3. \A q \in Requests : req[q].o # o
    BY <1>1, <2>1
  <2>4. \A q \in Requests :
          /\ q = r => req'[q].o = o
          /\ q # r => req'[q] = req[q]
    BY <2>1, <2>2, <2>3 DEF Write
  <2>5. Alone'
    BY <2>3, <2>4 DEF IsolationInv, Alone
  <2>6. AllInformed' /\ ReservedWhileOpen'
    BY <1>2, <2>1, <2>2, <2>3, WriteIsolated DEF Active
  <2> QED
    BY <2>5, <2>6
<1>5. CASE Touch(o)
  <2>1. UNCHANGED orders /\ req' = [q \in Requests |->
               IF req[q].o = o THEN [req[q] EXCEPT !.fresh = FALSE] ELSE req[q]]
    BY <1>5 DEF Touch
  <2>2. ASSUME NEW q \in Requests
        PROVE  /\ req'[q].o = req[q].o /\ req'[q].op = req[q].op
               /\ req'[q].snap = req[q].snap /\ req'[q].phase = req[q].phase
               /\ req'[q].fresh => req[q].fresh
    <3>1. req[q] \in Request
      BY DEF IsolationInv, Typed, TypeOK
    <3> QED
      BY <2>1, <3>1 DEF Request
  <2>3. Alone' /\ ReservedWhileOpen'
    BY <2>1, <2>2, AloneKept DEF IsolationInv, ReservedWhileOpen
  <2>4. ASSUME NEW q \in Requests PROVE Informed(req[q])'
    <3>1. Informed(req[q])
      BY DEF IsolationInv, AllInformed
    <3> QED
      BY <2>1, <2>2, <3>1 DEF Informed
  <2> QED
    BY <2>3, <2>4 DEF AllInformed
<1> QED
  BY <1>3, <1>4, <1>5 DEF OrderStep

\* A request that ends with its write, or stays on its order.
LEMMA WriteAlone ==
  ASSUME IsolationInv, NEW r \in Requests, NEW o, NEW row, NEW next, Write(r, o, row, next),
         next = Idle \/ (next.o = req[r].o /\ next.op = req[r].op)
  PROVE  Alone'
<1>1. ASSUME NEW q \in Requests, req'[q].o \in Orders
      PROVE  req'[q].o = req[q].o /\ req'[q].op = req[q].op
  <2>1. req[q] \in Request /\ NoOrder \notin Orders
    BY BillingAssumption DEF IsolationInv, Typed, TypeOK
  <2>2. /\ [req[q] EXCEPT !.fresh = FALSE].o = req[q].o
        /\ [req[q] EXCEPT !.fresh = FALSE].op = req[q].op
    BY <2>1 DEF Request
  <2> QED
    BY <1>1, <2>1, <2>2 DEF Write, Idle
<1> QED
  BY <1>1, AloneKept DEF IsolationInv

\* The collection: the row is as the request read it, and in progress; who else works on
\* the order is one that has read it in progress too.
LEMMA IssueIsolated ==
  ASSUME IsolationInv, NEW r \in Requests, Issue(r)
  PROVE  /\ Alone' /\ AllInformed' /\ ReservedWhileOpen'
         /\ req[r].snap = Seen(orders[req[r].o])
<1> DEFINE o == req[r].o
           k == req[r].coupon
           row == [orders[o] EXCEPT !.st = "paid", !.coupon = k, !.pend = {},
                     !.rec = (k # NoCoupon), !.inv = InvoiceNumber(orders[o]),
                     !.shift = OpenShift,
                     !.paidFor = [coupon |-> k, gift |-> req[r].snap.gift]]
           next == IF req[r].op = "create" THEN [req[r] EXCEPT !.phase = "issued"] ELSE Idle
<1>1. Write(r, o, row, next) /\ req[r].phase = "checked" /\ req[r].fresh
      /\ orders[o].st = "open"
  BY DEF Issue, Unchanged, Active
<1>2. req[r].op # "idle"
  BY <1>1 DEF IsolationInv, Typed, WellFormed, FormedRequest
<1>3. /\ o \in Orders /\ orders[o] \in Row /\ req[r] \in Request /\ Informed(req[r])
      /\ \A q \in Requests \ {r} :
              req[q].o = o => /\ req[q].op \notin Exclusive /\ req[r].op \notin Exclusive
                              /\ Informed(req[q])
  BY <1>2, OwnOrder
<1>4. req[r].snap = Seen(orders[o])
  BY <1>1, <1>3 DEF Informed
<1>5. row.st = "paid" /\ row.pend = {}
  BY <1>3 DEF Row
<1>6. \/ next = Idle
      \/ next.op = "create" /\ next.o = o /\ next.phase = "issued" /\ req[r].op = "create"
  BY <1>3 DEF Request
<1>7. \A q \in Requests \ {r} : req[q].o = o => req[q].op # "void"
  BY <1>1, <1>3 DEF Informed, Final
<1> HIDE DEF row, next
<1>8. Alone'
  BY <1>1, <1>6, WriteAlone
<1>9. AllInformed' /\ ReservedWhileOpen'
  BY <1>1, <1>3, <1>5, <1>6, <1>7, WriteIsolated DEF Stored, Active
<1> QED
  BY <1>4, <1>8, <1>9

\* The other writes of a handler in flight.
LEMMA WritesIsolated ==
  ASSUME IsolationInv, NEW r \in Requests,
         \/ DeleteCreated(r) \/ CommitCancel(r) \/ CommitVoid(r)
         \/ \E k \in CouponRef, G \in SUBSET Certs : CommitEdit(r, k, G)
  PROVE  Alone' /\ AllInformed' /\ ReservedWhileOpen'
<1> DEFINE o == req[r].o
<1>1. req[r].op # "idle"
  BY DEF DeleteCreated, CommitCancel, CommitVoid, StillPaid, CommitEdit
<1>2. /\ o \in Orders /\ orders[o] \in Row /\ req[r] \in Request /\ Informed(req[r])
      /\ \A q \in Requests \ {r} :
              req[q].o = o => /\ req[q].op \notin Exclusive /\ req[r].op \notin Exclusive
                              /\ Informed(req[q])
  BY <1>1, OwnOrder
<1>3. CASE DeleteCreated(r)
  <2>1. Write(r, o, Deleted, Idle) /\ req[r].op = "create"
    BY <1>3 DEF DeleteCreated
  <2>2. Deleted.pend = {}
    BY DEF Deleted, NoRow
  <2>3. \A q \in Requests \ {r} : req[q].o # o
    BY <1>2, <2>1 DEF Exclusive
  <2> QED
    BY <1>2, <2>1, <2>2, <2>3, WriteAlone, WriteIsolated
<1>4. CASE CommitCancel(r) \/ CommitVoid(r)
  <2>1. Write(r, o, Cancelled(orders[o]), Idle)
    BY <1>4 DEF CommitCancel, CommitVoid, StillPaid
  <2>2. Cancelled(orders[o]).st = "cancelled" /\ Cancelled(orders[o]).pend = {}
    BY <1>2 DEF Cancelled, Row
  <2>3. \A q \in Requests \ {r} : req[q].o = o => req[q].op \notin Exclusive
    BY <1>2
  <2> QED
    BY <1>2, <2>1, <2>2, <2>3, WriteAlone, WriteIsolated DEF Stored
<1>5. ASSUME NEW k \in CouponRef, NEW G \in SUBSET Certs, CommitEdit(r, k, G)
      PROVE  Alone' /\ AllInformed' /\ ReservedWhileOpen'
  <2> DEFINE row == [orders[o] EXCEPT !.coupon = k, !.gift = G, !.pend = G]
  <2>1. Write(r, o, row, Idle) /\ orders[o].st = "open"
    BY <1>5 DEF CommitEdit, Active
  <2>2. row.st = "open"
    BY <1>2, <2>1 DEF Row
  <2>3. \A q \in Requests \ {r} :
          req[q].o = o => req[q].op \notin Exclusive /\ req[q].op # "void"
    BY <1>2, <2>1 DEF Informed, Final
  <2> HIDE DEF row
  <2> QED
    BY <1>2, <2>1, <2>2, <2>3, WriteAlone, WriteIsolated DEF Stored, Active
<1> QED
  BY <1>3, <1>4, <1>5

LEMMA NextIsolated ==
  ASSUME Isolated, IsolationInv, [Next]_vars
  PROVE  IsolationInv'
<1>1. Typed'
  BY NextTyped DEF IsolationInv
<1>2. CASE Crash
  <2>1. UNCHANGED orders /\ \A q \in Requests : req'[q].o \notin Orders
    BY <1>2, BillingAssumption DEF Crash, Idle
  <2> QED
    BY <1>1, <2>1 DEF IsolationInv, Alone, AllInformed, Informed, ReservedWhileOpen
<1>3. CASE StartShift \/ CloseShift \/ UNCHANGED vars
  <2>1. UNCHANGED <<orders, req>>
    BY <1>3 DEF StartShift, CloseShift, vars
  <2> QED
    BY <1>1, <2>1 DEF IsolationInv, Alone, AllInformed, Informed, ReservedWhileOpen
<1>4. ASSUME NEW r \in Requests, RequestStep(r)
      PROVE  Alone' /\ AllInformed' /\ ReservedWhileOpen'
  BY <1>4, MovesIsolated, RewritesIsolated, IssueIsolated, WritesIsolated DEF RequestStep
<1> QED
  BY <1>1, <1>2, <1>3, <1>4, OrderStepIsolated, BeginStepIsolated DEF Next, IsolationInv

LEMMA AlwaysIsolated ==
  ASSUME Isolated
  PROVE  Spec => []IsolationInv
<1>1. IsolationInv /\ [Next]_vars => IsolationInv'
  BY NextIsolated
<1> QED
  BY <1>1, InitIsolation, PTL DEF Spec

-----------------------------------------------------------------------------
(* What a step is to the rows when requests do not overlap *)

Quiet == UNCHANGED <<orders, uses, redeemedBy, nextNumber>>

\* An order is created or edited: its benefits were available and are its own now.
Reserves(o, k, G) ==
  /\ orders[o].st \in {"absent", "open"} /\ BenefitsAvailable(k, G, o)
  /\ LET row == orders'[o] IN
       /\ row.st = "open" /\ row.coupon = k /\ row.gift = G /\ row.pend = G
       /\ row.inv = IF orders[o].st = "open" THEN orders[o].inv ELSE 0
  /\ UNCHANGED <<uses, redeemedBy, nextNumber>>

\* It is collected by the request that read it as it is.
Collects(o, k) ==
  /\ orders[o].st = "open" /\ OpenShift # 0
  /\ \A c \in orders[o].gift : redeemedBy[c] = "available"
  /\ LET row == orders'[o] IN
       /\ row.st = "paid" /\ row.coupon = k /\ row.gift = orders[o].gift
       /\ row.rec = (k # NoCoupon) /\ row.inv = InvoiceNumber(orders[o])
       /\ row.shift = OpenShift /\ row.paidFor = [coupon |-> k, gift |-> orders[o].gift]
  /\ nextNumber' = NumberTaken(orders[o]) /\ InvoiceNumber(orders[o]) <= MaxNumber
  /\ CouponUsable(k) /\ uses' = Consumed(k) /\ redeemedBy' = Redeemed(orders[o].gift, o)

\* What an order keeps when it is cancelled.
SameContent(o) ==
  LET row == orders'[o] IN
  /\ row.coupon = orders[o].coupon /\ row.gift = orders[o].gift /\ row.rec = orders[o].rec
  /\ row.inv = orders[o].inv

\* It is cancelled after its collection, and gives back what it consumed.
Voids(o) ==
  LET k == orders[o].coupon IN
  /\ orders[o].st = "paid" /\ orders'[o].st = "cancelled" /\ SameContent(o)
  /\ redeemedBy' = Released(o, "available") /\ UNCHANGED nextNumber
  /\ uses' = IF k # NoCoupon /\ orders[o].rec THEN Returned(k) ELSE uses

\* It is cancelled before its collection.
Cancels(o) ==
  /\ orders[o].st = "open" /\ orders'[o].st = "cancelled" /\ SameContent(o)
  /\ UNCHANGED <<uses, redeemedBy, nextNumber>>

\* Its creation fails, after its collection only if the read that follows may fail.
Deletes(o) ==
  /\ orders[o].st = "open" \/ (ReloadFails /\ orders[o].st = "paid")
  /\ orders'[o] = Deleted /\ orders'[o].st = "deleted"
  /\ redeemedBy' = Released(o, "orphan") /\ UNCHANGED <<uses, nextNumber>>

Others(o) == \A p \in Orders \ {o} : orders'[p] = orders[p]

Effect(o) ==
  /\ Others(o)
  /\ \/ \E k \in CouponRef, G \in SUBSET Certs : Reserves(o, k, G)
     \/ \E k \in CouponRef : Collects(o, k)
     \/ Voids(o) \/ Cancels(o) \/ Deletes(o)

LEMMA OrderEffect ==
  ASSUME IsolationInv, NEW o \in Orders, OrderStep(o)
  PROVE  Quiet \/ Effect(o)
<1>1. orders \in [Orders -> Row]
  BY DEF IsolationInv, Typed, TypeOK
<1>2. ASSUME NEW k \in CouponRef, NEW G \in SUBSET Certs,
             CreateOrder(o, k, G) \/ \E r \in Requests : CreatePaid(r, o, k, G)
      PROVE  Effect(o)
  <2>1. /\ orders[o].st = "absent" /\ BenefitsAvailable(k, G, o)
        /\ orders' = [orders EXCEPT ![o] = NewRow(k, G)]
        /\ UNCHANGED <<uses, redeemedBy, nextNumber>>
    BY <1>2 DEF CreateOrder, CreatePaid, Write
  <2>2. LET row == NewRow(k, G) IN
        /\ row.st = "open" /\ row.coupon = k /\ row.gift = G /\ row.pend = G /\ row.inv = 0
    BY DEF NewRow, NoRow
  <2>3. orders'[o] = NewRow(k, G) /\ Others(o)
    BY <1>1, <2>1 DEF Others
  <2> QED
    BY <2>1, <2>2, <2>3 DEF Effect, Reserves
<1>3. CASE Touch(o)
  BY <1>3 DEF Touch, Quiet
<1> QED
  BY <1>2, <1>3 DEF OrderStep

LEMMA IssueEffect ==
  ASSUME IsolationInv, NEW r \in Requests, Issue(r)
  PROVE  req[r].o \in Orders /\ Effect(req[r].o)
<1> DEFINE o == req[r].o
           k == req[r].coupon
           row == [orders[o] EXCEPT !.st = "paid", !.coupon = k, !.pend = {},
                     !.rec = (k # NoCoupon), !.inv = InvoiceNumber(orders[o]),
                     !.shift = OpenShift,
                     !.paidFor = [coupon |-> k, gift |-> req[r].snap.gift]]
<1>1. /\ orders' = [orders EXCEPT ![o] = row] /\ req[r].phase = "checked"
      /\ orders[o].st = "open" /\ OpenShift # 0
      /\ \A c \in orders[o].gift : redeemedBy[c] = "available"
      /\ uses' = Consumed(k) /\ redeemedBy' = Redeemed(orders[o].gift, o)
      /\ CouponUsable(k) /\ InvoiceNumber(orders[o]) <= MaxNumber
      /\ nextNumber' = NumberTaken(orders[o])
  BY DEF Issue, Active, Write
<1>2. /\ o \in Orders /\ orders[o] \in Row /\ req[r] \in Request
      /\ orders \in [Orders -> Row]
  BY <1>1 DEF IsolationInv, Typed, TypeOK, WellFormed, FormedRequest
<1>3. req[r].snap.gift = orders[o].gift
  <2>1. req[r].snap = Seen(orders[o])
    BY IssueIsolated
  <2> QED
    BY <2>1 DEF Seen
<1>4. k \in CouponRef
  BY <1>2 DEF Request
<1>5. /\ row.st = "paid" /\ row.coupon = k /\ row.gift = orders[o].gift
      /\ row.rec = (k # NoCoupon) /\ row.inv = InvoiceNumber(orders[o])
      /\ row.shift = OpenShift /\ row.paidFor = [coupon |-> k, gift |-> orders[o].gift]
  BY <1>2, <1>3 DEF Row
<1> HIDE DEF row, k
<1>6. orders'[o] = row /\ Others(o)
  BY <1>1, <1>2 DEF Others
<1>7. Collects(o, k)
  BY <1>1, <1>5, <1>6 DEF Collects
<1> QED
  BY <1>2, <1>4, <1>6, <1>7 DEF Effect

LEMMA WriteEffect ==
  ASSUME IsolationInv, NEW r \in Requests,
         \/ DeleteCreated(r) \/ CommitCancel(r) \/ CommitVoid(r)
         \/ \E k \in CouponRef, G \in SUBSET Certs : CommitEdit(r, k, G)
  PROVE  req[r].o \in Orders /\ Effect(req[r].o)
<1> DEFINE o == req[r].o
<1>1. req[r].op # "idle" /\ orders \in [Orders -> Row]
  <2>1. req[r].op # "idle"
    BY DEF DeleteCreated, CommitCancel, CommitVoid, CommitEdit
  <2> QED
    BY <2>1 DEF IsolationInv, Typed, TypeOK
<1>2. /\ o \in Orders /\ orders[o] \in Row /\ req[r] \in Request /\ Informed(req[r])
  BY <1>1, OwnOrder
<1>3. CASE DeleteCreated(r)
  <2>1. /\ orders' = [orders EXCEPT ![o] = Deleted] /\ req[r].op = "create"
        /\ req[r].phase = "issued" => ReloadFails
        /\ redeemedBy' = Released(o, "orphan") /\ UNCHANGED <<uses, nextNumber>>
    BY <1>3 DEF DeleteCreated, Write
  <2>2. Deleted.st = "deleted"
    BY DEF Deleted, NoRow
  <2>3. orders'[o] = Deleted /\ Others(o)
    BY <1>1, <1>2, <2>1 DEF Others
  <2>4. orders[o].st = IF req[r].phase = "issued" THEN "paid" ELSE "open"
    BY <1>2, <2>1 DEF Informed
  <2>5. Deletes(o)
    BY <2>1, <2>2, <2>3, <2>4 DEF Deletes
  <2> QED
    BY <1>2, <2>3, <2>5 DEF Effect
<1>4. CASE CommitCancel(r) \/ CommitVoid(r)
  <2>1. orders' = [orders EXCEPT ![o] = Cancelled(orders[o])]
    BY <1>4 DEF CommitCancel, CommitVoid, StillPaid, Write
  <2>2. LET row == Cancelled(orders[o]) IN
        /\ row.st = "cancelled" /\ row.coupon = orders[o].coupon
        /\ row.gift = orders[o].gift /\ row.rec = orders[o].rec /\ row.inv = orders[o].inv
    BY <1>2 DEF Cancelled, Row
  <2>3. orders'[o].st = "cancelled" /\ SameContent(o) /\ Others(o)
    BY <1>1, <1>2, <2>1, <2>2 DEF Others, SameContent
  <2>4. CASE CommitCancel(r)
    <3>1. req[r].snap = Seen(orders[o]) /\ req[r].snap.st = "open"
      BY <1>2, <2>4 DEF CommitCancel, Informed, Unguarded
    <3>2. Cancels(o)
      BY <2>3, <2>4, <3>1 DEF Cancels, CommitCancel, Seen
    <3> QED
      BY <1>2, <2>3, <3>2 DEF Effect
  <2>5. CASE CommitVoid(r)
    <3>1. req[r].snap = Seen(orders[o])
      BY <1>2, <2>5 DEF CommitVoid, StillPaid, Informed
    <3>2. req[r].snap.coupon = orders[o].coupon /\ req[r].snap.rec = orders[o].rec
      BY <3>1 DEF Seen
    <3>3. Voids(o)
      BY <2>3, <2>5, <3>2 DEF Voids, CommitVoid, StillPaid
    <3> QED
      BY <1>2, <2>3, <3>3 DEF Effect
  <2> QED
    BY <1>4, <2>4, <2>5
<1>5. ASSUME NEW k \in CouponRef, NEW G \in SUBSET Certs, CommitEdit(r, k, G)
      PROVE  Effect(o)
  <2> DEFINE row == [orders[o] EXCEPT !.coupon = k, !.gift = G, !.pend = G]
  <2>1. /\ orders' = [orders EXCEPT ![o] = row] /\ orders[o].st = "open"
        /\ BenefitsAvailable(k, G, o) /\ UNCHANGED <<uses, redeemedBy, nextNumber>>
    BY <1>5 DEF CommitEdit, Active, Write
  <2>2. /\ row.st = "open" /\ row.coupon = k /\ row.gift = G /\ row.pend = G
        /\ row.inv = orders[o].inv
    BY <1>2, <2>1 DEF Row
  <2> HIDE DEF row
  <2>3. orders'[o] = row /\ Others(o)
    BY <1>1, <1>2, <2>1 DEF Others
  <2>4. Reserves(o, k, G)
    BY <2>1, <2>2, <2>3 DEF Reserves
  <2> QED
    BY <2>3, <2>4 DEF Effect
<1> QED
  BY <1>2, <1>3, <1>4, <1>5

LEMMA Effects ==
  ASSUME Isolated, IsolationInv, [Next]_vars
  PROVE  Quiet \/ \E o \in Orders : Effect(o)
<1>1. CASE Crash \/ StartShift \/ CloseShift \/ UNCHANGED vars
  BY <1>1 DEF Crash, StartShift, CloseShift, vars, Quiet
<1>2. ASSUME NEW r \in Requests, RequestStep(r)
      PROVE  Quiet \/ \E o \in Orders : Effect(o)
  BY <1>2, MovesIsolated, RewritesIsolated, IssueEffect, WriteEffect DEF RequestStep, Quiet
<1>3. ASSUME NEW r \in Requests, NEW o \in Orders, BeginStep(r, o)
      PROVE  Quiet
  BY <1>3, BeginStepIsolated DEF Quiet
<1> QED
  BY <1>1, <1>2, <1>3, OrderEffect DEF Next

-----------------------------------------------------------------------------
(* Theorems for requests that do not overlap *)

\* Two orders in progress never reserve the same certificate (assertPendingBenefitsAvailable
\* under the lock of the certificates, in create and updateItems).
THEOREM ReservationsExclude ==
  ASSUME Isolated
  PROVE  Spec => []ReservationExclusive
<1>1. Init => ReservationExclusive
  BY DEF Init, ReservationExclusive, Active, NoRow
<1>2. ASSUME IsolationInv, ReservationExclusive, [Next]_vars
      PROVE  ReservationExclusive'
  <2>1. CASE Quiet
    BY <1>2, <2>1 DEF Quiet, ReservationExclusive
  <2>2. ASSUME NEW o \in Orders, Effect(o)
        PROVE  ReservationExclusive'
    <3>1. CASE \E k \in CouponRef, G \in SUBSET Certs : Reserves(o, k, G)
      <4>1. PICK k \in CouponRef, G \in SUBSET Certs : Reserves(o, k, G)
        BY <3>1
      <4>2. \A p \in Orders \ {o} : Active(orders[p]) => orders[p].pend \cap G = {}
        BY <4>1 DEF Reserves, BenefitsAvailable, Reserved
      <4>3. orders'[o].pend = G /\ Others(o)
        BY <2>2, <4>1 DEF Effect, Reserves
      <4> QED
        BY <1>2, <4>2, <4>3 DEF ReservationExclusive, Others, Active
    <3>2. CASE ~Active(orders'[o])
      BY <1>2, <2>2, <3>2 DEF ReservationExclusive, Effect, Others, Active
    <3>3. Active(orders'[o]) => \E k \in CouponRef, G \in SUBSET Certs : Reserves(o, k, G)
      BY <2>2 DEF Effect, Collects, Voids, Cancels, Deletes, Active
    <3> QED
      BY <3>1, <3>2, <3>3
  <2> QED
    BY <1>2, <2>1, <2>2, Effects
<1>3. IsolationInv /\ ReservationExclusive /\ [Next]_vars => ReservationExclusive'
  BY <1>2
<1> QED
  BY <1>1, <1>3, AlwaysIsolated, PTL DEF Spec

\* A paid order has the certificates it was paid with: none pays for two orders
\* (consumeCertificates, releaseCertificates).
THEOREM CertificatesBelong ==
  ASSUME Isolated
  PROVE  Spec => []CertificatesOfPaid
<1>1. Init => CertificatesOfPaid
  BY DEF Init, CertificatesOfPaid, NoRow
<1>2. ASSUME IsolationInv, CertificatesOfPaid, [Next]_vars
      PROVE  CertificatesOfPaid'
  <2>1. CASE Quiet
    BY <1>2, <2>1 DEF Quiet, CertificatesOfPaid
  <2>2. ASSUME NEW o \in Orders, Effect(o)
        PROVE  CertificatesOfPaid'
    <3>0. \A p \in Orders : orders[p].gift \in SUBSET Certs
      BY <1>2 DEF IsolationInv, Typed, TypeOK, Row
    <3>1. CASE orders'[o].st = "open" \/ Cancels(o)
      <4>1. redeemedBy' = redeemedBy /\ orders'[o].st # "paid" /\ Others(o)
        BY <2>2, <3>1 DEF Effect, Reserves, Collects, Voids, Cancels, Deletes
      <4> QED
        BY <1>2, <4>1 DEF CertificatesOfPaid, Others
    <3>2. ASSUME NEW k \in CouponRef, Collects(o, k)
          PROVE  CertificatesOfPaid'
      <4>1. /\ \A c \in orders[o].gift : redeemedBy[c] = "available"
            /\ orders'[o].gift = orders[o].gift
            /\ \A c \in Certs :
                 redeemedBy'[c] = IF c \in orders[o].gift THEN o ELSE redeemedBy[c]
        BY <3>2 DEF Collects, Redeemed
      <4>2. ASSUME NEW p \in Orders, orders'[p].st = "paid", NEW c \in orders'[p].gift
            PROVE  redeemedBy'[c] = p
        <5>1. CASE p = o
          BY <3>0, <4>1, <4>2, <5>1
        <5>2. CASE p # o
          <6>1. orders'[p] = orders[p]
            BY <2>2, <5>2 DEF Effect, Others
          <6>2. redeemedBy[c] = p /\ c \in Certs
            BY <1>2, <3>0, <4>2, <6>1 DEF CertificatesOfPaid
          <6> QED
            BY <4>1, <6>2, BillingAssumption
        <5> QED
          BY <5>1, <5>2
      <4> QED
        BY <4>2 DEF CertificatesOfPaid
    <3>3. CASE Voids(o) \/ Deletes(o)
      <4>1. /\ orders'[o].st # "paid" /\ Others(o)
            /\ \A c \in Certs : redeemedBy[c] # o => redeemedBy'[c] = redeemedBy[c]
        BY <2>2, <3>3 DEF Effect, Voids, Deletes, Released
      <4>2. ASSUME NEW p \in Orders, orders'[p].st = "paid", NEW c \in orders'[p].gift
            PROVE  redeemedBy'[c] = p
        <5>1. p # o /\ orders'[p] = orders[p]
          BY <4>1, <4>2 DEF Others
        <5>2. redeemedBy[c] = p /\ c \in Certs
          BY <1>2, <3>0, <4>2, <5>1 DEF CertificatesOfPaid
        <5> QED
          BY <4>1, <5>1, <5>2
      <4> QED
        BY <4>2 DEF CertificatesOfPaid
    <3> QED
      BY <2>2, <3>1, <3>2, <3>3 DEF Effect, Reserves
  <2> QED
    BY <1>2, <2>1, <2>2, Effects
<1>3. IsolationInv /\ CertificatesOfPaid /\ [Next]_vars => CertificatesOfPaid'
  BY <1>2
<1> QED
  BY <1>1, <1>3, AlwaysIsolated, PTL DEF Spec

\* What a paid order contains is what its payments were matched with, and it has a number
\* and a shift (finalize between the pricing and the commit of issue).
THEOREM BilledIsOrdered ==
  ASSUME Isolated
  PROVE  Spec => []BilledAsOrdered
<1>1. Init => BilledAsOrdered
  BY DEF Init, BilledAsOrdered, NoRow
<1>2. ASSUME IsolationInv, Numbering, BilledAsOrdered, [Next]_vars
      PROVE  BilledAsOrdered'
  <2>1. CASE Quiet
    BY <1>2, <2>1 DEF Quiet, BilledAsOrdered
  <2>2. ASSUME NEW o \in Orders, Effect(o)
        PROVE  BilledAsOrdered'
    <3>1. CASE orders'[o].st # "paid"
      BY <1>2, <2>2, <3>1 DEF BilledAsOrdered, Effect, Others
    <3>2. ASSUME NEW k \in CouponRef, Collects(o, k)
          PROVE  BilledAsOrdered'
      <4>1. orders[o].inv \in Nat /\ nextNumber \in Nat /\ orders[o].inv < nextNumber
        BY <1>2 DEF IsolationInv, Typed, TypeOK, Row, Numbering
      <4>2. InvoiceNumber(orders[o]) # 0
        BY <4>1 DEF InvoiceNumber
      <4>3. orders'[o].inv # 0 /\ orders'[o].shift # 0
            /\ orders'[o].paidFor = ContentOf(orders'[o])
        BY <3>2, <4>2 DEF Collects, ContentOf
      <4> QED
        BY <1>2, <2>2, <4>3 DEF BilledAsOrdered, Effect, Others
    <3> QED
      BY <2>2, <3>1, <3>2 DEF Effect, Reserves, Voids, Cancels, Deletes
  <2> QED
    BY <1>2, <2>1, <2>2, Effects
<1>3. IsolationInv /\ Numbering /\ BilledAsOrdered /\ [Next]_vars => BilledAsOrdered'
  BY <1>2
<1> QED
  BY <1>1, <1>3, AlwaysIsolated, AlwaysTyped, InitNumbering, NumberingStep, PTL DEF Spec

\* A cancelled order is never reopened (updateItems and updateStatus refuse it).
THEOREM CancelledForGood ==
  ASSUME Isolated
  PROVE  Spec => CancelledIsFinal
<1>1. ASSUME IsolationInv, [Next]_vars, NEW p \in Orders, orders[p].st = "cancelled"
      PROVE  orders'[p].st = "cancelled"
  <2>1. CASE Quiet
    BY <1>1, <2>1 DEF Quiet
  <2>2. ASSUME NEW o \in Orders, Effect(o)
        PROVE  orders'[p].st = "cancelled"
    <3>1. orders[o].st \in {"absent", "open", "paid"}
      BY <2>2 DEF Effect, Reserves, Collects, Voids, Cancels, Deletes
    <3> QED
      BY <1>1, <2>2, <3>1 DEF Effect, Others
  <2> QED
    BY <1>1, <2>1, <2>2, Effects
<1>2. IsolationInv /\ [Next]_vars =>
        [\A o \in Orders :
           (orders[o].st = "cancelled" /\ Stored(orders'[o]))
             => orders'[o].st = "cancelled"]_vars
  BY <1>1
<1> QED
  BY <1>2, AlwaysIsolated, PTL DEF Spec, CancelledIsFinal

\* A paid order stays paid until its cancellation, which gives its certificates back in the
\* same step (the transaction of cancel for a paid order).
THEOREM PaidUntilVoid ==
  ASSUME Isolated, ~ReloadFails
  PROVE  Spec => PaidLeavesOnlyByVoid
<1>1. ASSUME IsolationInv, [Next]_vars, NEW p \in Orders,
             orders[p].st = "paid", orders'[p].st # "paid"
      PROVE  orders'[p].st = "cancelled" /\ \A c \in Certs : redeemedBy'[c] # p
  <2>1. PICK o \in Orders : Effect(o)
    BY <1>1, Effects DEF Quiet
  <2>2. p = o
    BY <1>1, <2>1 DEF Effect, Others
  <2>3. Voids(p)
    BY <1>1, <2>1, <2>2 DEF Effect, Reserves, Collects, Cancels, Deletes
  <2>4. \A c \in Certs : redeemedBy'[c] = IF redeemedBy[c] = p THEN "available"
                                          ELSE redeemedBy[c]
    BY <2>3 DEF Voids, Released
  <2> QED
    BY <2>3, <2>4, BillingAssumption DEF Voids
<1>2. IsolationInv /\ [Next]_vars =>
        [\A o \in Orders :
           (orders[o].st = "paid" /\ orders'[o].st # "paid")
             => /\ orders'[o].st = "cancelled"
                /\ \A c \in Certs : redeemedBy'[c] # o]_vars
  BY <1>1
<1> QED
  BY <1>2, AlwaysIsolated, PTL DEF Spec, PaidLeavesOnlyByVoid

\* The orders that a use of k was counted for.
Holders(k) == {o \in Orders : orders[o].st = "paid" /\ orders[o].rec /\ orders[o].coupon = k}

LEMMA HoldersFinite ==
  ASSUME NEW k \in Coupons
  PROVE  IsFiniteSet(Holders(k)) /\ Cardinality(Holders(k)) \in Nat
<1>1. Holders(k) \in SUBSET Orders
  BY DEF Holders
<1> QED
  BY <1>1, FS_Subset, FS_CardinalityType, BillingAssumption

LEMMA NextHoldersFinite ==
  ASSUME NEW k \in Coupons
  PROVE  IsFiniteSet(Holders(k)') /\ Cardinality(Holders(k)') \in Nat
<1>1. Holders(k)' \in SUBSET Orders
  BY DEF Holders
<1> QED
  BY <1>1, FS_Subset, FS_CardinalityType, BillingAssumption

\* The counter moves with the number of its holders, unless a collected order is deleted.
LEMMA CountStep ==
  ASSUME IsolationInv, NEW k \in Coupons, Cardinality(Holders(k)) <= uses[k],
         NEW o \in Orders, Effect(o), orders[o].st = "paid" => ~Deletes(o)
  PROVE  uses'[k] + Cardinality(Holders(k)) = uses[k] + Cardinality(Holders(k)')
<1>0. /\ uses \in [Coupons -> Nat] /\ uses[k] \in Nat /\ k # NoCoupon
      /\ IsFiniteSet(Holders(k)) /\ Cardinality(Holders(k)) \in Nat
  BY HoldersFinite, BillingAssumption DEF IsolationInv, Typed, TypeOK
<1>1. CASE orders[o].st # "paid" /\ orders'[o].st # "paid"
  <2>1. Holders(k)' = Holders(k)
    BY <1>1 DEF Holders, Effect, Others
  <2>2. uses' = uses
    BY <1>1 DEF Effect, Reserves, Collects, Voids, Cancels, Deletes
  <2> QED
    BY <1>0, <2>1, <2>2
<1>2. ASSUME NEW j \in CouponRef, Collects(o, j)
      PROVE  uses'[k] + Cardinality(Holders(k)) = uses[k] + Cardinality(Holders(k)')
  <2>1. uses' = Consumed(j) /\ o \notin Holders(k)
    BY <1>2 DEF Collects, Holders
  <2>2. CASE j = k
    <3>1. Holders(k)' = Holders(k) \cup {o}
      BY <1>0, <1>2, <2>2 DEF Holders, Collects, Effect, Others
    <3>2. Cardinality(Holders(k) \cup {o}) = Cardinality(Holders(k)) + 1
      BY <1>0, <2>1, FS_AddElement
    <3>3. uses'[k] = uses[k] + 1
      BY <1>0, <2>1, <2>2 DEF Consumed
    <3> QED
      BY <1>0, <3>1, <3>2, <3>3
  <2>3. CASE j # k
    <3>1. Holders(k)' = Holders(k)
      BY <1>2, <2>3 DEF Holders, Collects, Effect, Others
    <3>2. uses'[k] = uses[k]
      BY <1>0, <2>1, <2>3 DEF Consumed
    <3> QED
      BY <1>0, <3>1, <3>2
  <2> QED
    BY <2>2, <2>3
<1>3. CASE Voids(o)
  <2> DEFINE j == orders[o].coupon
  <2>1. /\ orders[o].st = "paid" /\ orders'[o].st = "cancelled"
        /\ uses' = IF j # NoCoupon /\ orders[o].rec THEN Returned(j) ELSE uses
    BY <1>3 DEF Voids
  <2>2. CASE orders[o].rec /\ j = k
    <3>1. Holders(k)' = Holders(k) \ {o} /\ o \in Holders(k)
      BY <2>1, <2>2 DEF Holders, Effect, Others
    <3>2. Cardinality(Holders(k) \ {o}) = Cardinality(Holders(k)) - 1
      BY <1>0, <3>1, FS_RemoveElement
    <3>3. Cardinality(Holders(k)) # 0
      BY <1>0, <3>1, FS_EmptySet
    <3>4. uses'[k] = uses[k] - 1
      BY <1>0, <2>1, <2>2, <3>3 DEF Returned
    <3> QED
      BY <1>0, <3>1, <3>2, <3>4
  <2>3. CASE ~(orders[o].rec /\ j = k)
    <3>1. Holders(k)' = Holders(k)
      BY <2>1, <2>3 DEF Holders, Effect, Others
    <3>2. uses'[k] = uses[k]
      BY <1>0, <2>1, <2>3 DEF Returned
    <3> QED
      BY <1>0, <3>1, <3>2
  <2> QED
    BY <2>2, <2>3
<1> QED
  BY <1>1, <1>2, <1>3 DEF Effect, Reserves, Cancels, Deletes

LEMMA NoHolders ==
  ASSUME Init, NEW k \in Coupons
  PROVE  uses[k] = 0 /\ Cardinality(Holders(k)) = 0
<1>1. Holders(k) = {}
  BY DEF Init, Holders, NoRow
<1> QED
  BY <1>1, FS_EmptySet DEF Init

\* currentUses counts exactly the paid orders whose consumption was recorded
\* (consumeCoupon, and the return of a use by a cancellation).
THEOREM CouponsAccounted ==
  ASSUME Isolated, ~ReloadFails
  PROVE  Spec => []CouponAccounting
<1>1. Init => CouponAccounting
  BY NoHolders DEF CouponAccounting, Holders
<1>2. ASSUME IsolationInv, CouponAccounting, [Next]_vars, NEW k \in Coupons
      PROVE  uses'[k] = Cardinality(Holders(k)')
  <2>0. uses[k] = Cardinality(Holders(k)) /\ uses[k] \in Nat
    BY <1>2 DEF CouponAccounting, Holders, IsolationInv, Typed, TypeOK
  <2>1. CASE Quiet
    <3>1. Holders(k)' = Holders(k)
      BY <2>1 DEF Quiet, Holders
    <3> QED
      BY <2>0, <2>1, <3>1 DEF Quiet
  <2>2. ASSUME NEW o \in Orders, Effect(o)
        PROVE  uses'[k] = Cardinality(Holders(k)')
    <3>1. Cardinality(Holders(k)) <= uses[k] /\ (orders[o].st = "paid" => ~Deletes(o))
      BY <2>0 DEF Deletes
    <3>2. uses'[k] + Cardinality(Holders(k)) = uses[k] + Cardinality(Holders(k)')
      BY <1>2, <2>2, <3>1, CountStep
    <3>3. uses'[k] \in Nat /\ Cardinality(Holders(k)') \in Nat
      <4>1. Typed'
        BY <1>2, NextTyped DEF IsolationInv
      <4> QED
        BY <4>1, NextHoldersFinite DEF Typed, TypeOK
    <3> QED
      BY <2>0, <3>2, <3>3
  <2> QED
    BY <1>2, <2>1, <2>2, Effects
<1>3. IsolationInv /\ CouponAccounting /\ [Next]_vars => CouponAccounting'
  BY <1>2 DEF CouponAccounting, Holders
<1> QED
  BY <1>1, <1>3, AlwaysIsolated, PTL DEF Spec

-----------------------------------------------------------------------------
(* The sales that the handlers amount to *)

\* What ties the columns of a row to each other: an order in progress has no number and
\* reserves what it has, and a collection recorded the use of the coupon that it has.
RowsConsistent ==
  \A o \in Orders :
    /\ orders[o].st \in {"absent", "open"} => orders[o].inv = 0
    /\ orders[o].st = "open" => orders[o].pend = orders[o].gift
    /\ orders[o].st = "paid" => (orders[o].rec <=> orders[o].coupon # NoCoupon)

\* Only a paid order holds certificates, and only its own.
HeldByPaid ==
  \A c \in Certs, o \in Orders :
    redeemedBy[c] = o => orders[o].st = "paid" /\ c \in orders[o].gift

LEMMA ConsistentStep ==
  ASSUME Isolated, IsolationInv, RowsConsistent, [Next]_vars
  PROVE  RowsConsistent'
<1>1. CASE Quiet
  BY <1>1 DEF Quiet, RowsConsistent
<1>2. ASSUME NEW o \in Orders, Effect(o)
      PROVE  RowsConsistent'
  <2>1. LET row == orders'[o] IN
        /\ row.st \in {"absent", "open"} => row.inv = 0
        /\ row.st = "open" => row.pend = row.gift
        /\ row.st = "paid" => (row.rec <=> row.coupon # NoCoupon)
    <3>1. ASSUME NEW k \in CouponRef, NEW G \in SUBSET Certs, Reserves(o, k, G)
          PROVE  orders'[o].st = "open" /\ orders'[o].inv = 0 /\ orders'[o].pend = orders'[o].gift
      BY <3>1 DEF Reserves, RowsConsistent
    <3>2. ASSUME NEW k \in CouponRef, Collects(o, k)
          PROVE  orders'[o].st = "paid" /\ (orders'[o].rec <=> orders'[o].coupon # NoCoupon)
      BY <3>2 DEF Collects
    <3>3. CASE Voids(o) \/ Cancels(o) \/ Deletes(o)
      BY <3>3 DEF Voids, Cancels, Deletes
    <3> QED
      BY <1>2, <3>1, <3>2, <3>3 DEF Effect
  <2> QED
    BY <1>2, <2>1 DEF RowsConsistent, Effect, Others
<1> QED
  BY <1>1, <1>2, Effects

LEMMA HeldStep ==
  ASSUME Isolated, IsolationInv, HeldByPaid, [Next]_vars
  PROVE  HeldByPaid'
<1>1. CASE Quiet
  BY <1>1 DEF Quiet, HeldByPaid
<1>2. ASSUME NEW o \in Orders, Effect(o), NEW c \in Certs, NEW p \in Orders, redeemedBy'[c] = p
      PROVE  orders'[p].st = "paid" /\ c \in orders'[p].gift
  <2>1. ASSUME redeemedBy'[c] = redeemedBy[c], p # o
        PROVE  orders'[p].st = "paid" /\ c \in orders'[p].gift
    BY <1>2, <2>1 DEF HeldByPaid, Effect, Others
  <2>2. CASE orders[o].st \in {"absent", "open"} /\ redeemedBy' = redeemedBy
    BY <1>2, <2>1, <2>2 DEF HeldByPaid
  <2>3. ASSUME NEW k \in CouponRef, Collects(o, k)
        PROVE  orders'[p].st = "paid" /\ c \in orders'[p].gift
    <3>1. /\ orders'[o].st = "paid" /\ orders'[o].gift = orders[o].gift /\ orders[o].st = "open"
          /\ redeemedBy'[c] = IF c \in orders[o].gift THEN o ELSE redeemedBy[c]
      BY <2>3 DEF Collects, Redeemed
    <3>2. c \notin orders[o].gift => p # o
      BY <1>2, <3>1 DEF HeldByPaid
    <3> QED
      BY <1>2, <2>1, <3>1, <3>2
  <2>4. CASE Voids(o) \/ Deletes(o)
    <3>1. redeemedBy'[c] \in {"available", "orphan"}
            \/ (redeemedBy[c] # o /\ redeemedBy'[c] = redeemedBy[c])
      BY <2>4 DEF Voids, Deletes, Released
    <3> QED
      BY <1>2, <2>1, <3>1, BillingAssumption
  <2> QED
    BY <1>2, <2>2, <2>3, <2>4 DEF Effect, Reserves, Cancels
<1> QED
  BY <1>1, <1>2, Effects DEF HeldByPaid

\* Every paid order whose coupon was consumed is counted, whatever the deletion of a
\* collected order leaves behind in the counter.
UsesCover == \A k \in Coupons : Cardinality(Holders(k)) <= uses[k]

LEMMA CoverStep ==
  ASSUME Isolated, IsolationInv, UsesCover, [Next]_vars
  PROVE  UsesCover'
<1> SUFFICES ASSUME NEW k \in Coupons PROVE Cardinality(Holders(k)') <= uses'[k]
  BY DEF UsesCover
<1>0. /\ Cardinality(Holders(k)) <= uses[k] /\ uses[k] \in Nat
      /\ Cardinality(Holders(k)) \in Nat /\ IsFiniteSet(Holders(k))
  BY HoldersFinite DEF UsesCover, IsolationInv, Typed, TypeOK
<1>1. CASE Quiet
  <2>1. Holders(k)' = Holders(k)
    BY <1>1 DEF Quiet, Holders
  <2> QED
    BY <1>0, <1>1, <2>1 DEF Quiet
<1>2. ASSUME NEW o \in Orders, Effect(o), orders[o].st = "paid" => ~Deletes(o)
      PROVE  Cardinality(Holders(k)') <= uses'[k]
  <2>1. uses'[k] + Cardinality(Holders(k)) = uses[k] + Cardinality(Holders(k)')
    BY <1>0, <1>2, CountStep
  <2>2. Typed'
    BY NextTyped DEF IsolationInv
  <2>3. uses'[k] \in Nat /\ Cardinality(Holders(k)') \in Nat
    BY <2>2, NextHoldersFinite DEF Typed, TypeOK
  <2> QED
    BY <1>0, <2>1, <2>3
<1>3. ASSUME NEW o \in Orders, Effect(o), orders[o].st = "paid", Deletes(o)
      PROVE  Cardinality(Holders(k)') <= uses'[k]
  <2>1. Holders(k)' \in SUBSET Holders(k) /\ uses' = uses
    BY <1>3 DEF Holders, Effect, Others, Deletes
  <2>2. Cardinality(Holders(k)') <= Cardinality(Holders(k))
    BY <1>0, <2>1, FS_Subset
  <2> QED
    BY <1>0, <2>1, <2>2, NextHoldersFinite
<1> QED
  BY <1>1, <1>2, <1>3, Effects

LEMMA SoldColumns ==
  \A o \in Orders :
    /\ Sold[o] = [stage |-> orders[o].st, coupon |-> orders[o].coupon,
                  gift |-> orders[o].gift, number |-> orders[o].inv]
    /\ Sold[o].stage = orders[o].st /\ Sold[o].coupon = orders[o].coupon
    /\ Sold[o].gift = orders[o].gift /\ Sold[o].number = orders[o].inv
BY DEF Sold

\* A step that writes one row changes one sale.
LEMMA SoldStep ==
  ASSUME NEW o \in Orders, Others(o)
  PROVE  Sold' = [Sold EXCEPT ![o] = [stage |-> orders'[o].st, coupon |-> orders'[o].coupon,
                                      gift |-> orders'[o].gift, number |-> orders'[o].inv]]
BY DEF Sold, Others

LEMMA SameCardinality == \A S : Sale!Cardinality(S) = Cardinality(S)
BY DEF Sale!Cardinality, Cardinality

LEMMA FillStep ==
  ASSUME IsolationInv, RowsConsistent, NEW o \in Orders, NEW k \in CouponRef,
         NEW G \in SUBSET Certs, Others(o), Reserves(o, k, G)
  PROVE  Sale!Fill(o, k, G)
<1>1. Sold[o].stage \in {"absent", "open"}
  BY SoldColumns DEF Reserves
<1>2. G \cap GivenOut = {}
  BY DEF Reserves, BenefitsAvailable, GivenOut
<1>3. ASSUME NEW p \in Orders \ {o}, Sale!Open(p)
      PROVE  G \cap Sold[p].gift = {}
  <2>1. orders[p].st = "open" /\ Sold[p].gift = orders[p].pend
    BY <1>3, SoldColumns DEF Sale!Open, RowsConsistent
  <2> QED
    BY <2>1 DEF Reserves, BenefitsAvailable, Reserved, Active
<1>4. Sale!Offered(k, o)
  <2>1. {p \in {p \in Orders \ {o} : Active(orders[p])} : orders[p].coupon = k}
          = {p \in Orders \ {o} : Sale!Open(p) /\ Sold[p].coupon = k}
    BY SoldColumns DEF Sale!Open, Active
  <2>2. (k # NoCoupon /\ MaxUses[k] > 0) =>
          uses[k] + Cardinality({p \in {p \in Orders \ {o} : Active(orders[p])} :
                                  orders[p].coupon = k}) < MaxUses[k]
    BY DEF Reserves, BenefitsAvailable
  <2> QED
    BY <2>1, <2>2, SameCardinality DEF Sale!Offered
<1>5. Sold' = [Sold EXCEPT ![o] = [stage |-> "open", coupon |-> k, gift |-> G, number |-> 0]]
  <2>1. /\ orders'[o].st = "open" /\ orders'[o].coupon = k /\ orders'[o].gift = G
        /\ orders'[o].inv = 0
    BY DEF Reserves, RowsConsistent
  <2> QED
    BY <2>1, SoldStep
<1>6. UNCHANGED <<uses, GivenOut, nextNumber>>
  BY DEF Reserves, GivenOut
<1> QED
  BY <1>1, <1>2, <1>3, <1>4, <1>5, <1>6 DEF Sale!Fill

LEMMA CollectStep ==
  ASSUME IsolationInv, RowsConsistent, NEW o \in Orders, NEW k \in CouponRef, Others(o),
         Collects(o, k)
  PROVE  Sale!Collect(o, k)
<1>1. Sale!Open(o) /\ orders[o].gift \in SUBSET Certs
  BY SoldColumns DEF Sale!Open, Collects, IsolationInv, Typed, TypeOK, Row
<1>2. (k # NoCoupon /\ MaxUses[k] > 0) => uses[k] < MaxUses[k]
  BY DEF Collects, CouponUsable
<1>3. Sold[o].gift \cap GivenOut = {}
  BY SoldColumns DEF Collects, GivenOut
<1>4. orders[o].inv = 0
  BY DEF Collects, RowsConsistent
<1>5. Sold' = [Sold EXCEPT ![o].stage = "paid", ![o].coupon = k, ![o].number = nextNumber]
  <2>1. /\ orders'[o].st = "paid" /\ orders'[o].coupon = k /\ orders'[o].gift = orders[o].gift
        /\ orders'[o].inv = nextNumber
    BY <1>4 DEF Collects, InvoiceNumber
  <2>2. Sold' = [Sold EXCEPT ![o] = [stage |-> "paid", coupon |-> k, gift |-> orders[o].gift,
                                     number |-> nextNumber]]
    BY <2>1, SoldStep
  <2> QED
    BY <2>2, SoldColumns DEF Sold
<1>6. uses' = [v \in Coupons |-> IF v = k THEN uses[v] + 1 ELSE uses[v]]
  <2>1. uses \in [Coupons -> Nat] /\ uses' = Consumed(k)
    BY DEF Collects, IsolationInv, Typed, TypeOK
  <2>2. CASE k = NoCoupon
    BY <2>1, <2>2, BillingAssumption DEF Consumed
  <2>3. CASE k # NoCoupon
    BY <2>1, <2>3 DEF Consumed
  <2> QED
    BY <2>2, <2>3
<1>7. GivenOut' = GivenOut \cup Sold[o].gift
  <2>1. \A c \in Certs : redeemedBy'[c] = IF c \in orders[o].gift THEN o ELSE redeemedBy[c]
    BY DEF Collects, Redeemed
  <2> QED
    BY <1>1, <2>1, SoldColumns, BillingAssumption DEF GivenOut
<1>8. nextNumber' = nextNumber + 1
  BY <1>4 DEF Collects, NumberTaken
<1> QED
  BY <1>1, <1>2, <1>3, <1>5, <1>6, <1>7, <1>8 DEF Sale!Collect

LEMMA CancelStep ==
  ASSUME IsolationInv, NEW o \in Orders, Others(o), Cancels(o)
  PROVE  Sale!Cancel(o)
<1>1. Sale!Open(o)
  BY SoldColumns DEF Sale!Open, Cancels
<1>2. Sold' = [Sold EXCEPT ![o].stage = "cancelled"]
  <2>1. Sold' = [Sold EXCEPT ![o] = [stage |-> "cancelled", coupon |-> orders[o].coupon,
                                     gift |-> orders[o].gift, number |-> orders[o].inv]]
    BY SoldStep DEF Cancels, SameContent
  <2> QED
    BY <2>1, SoldColumns DEF Sold
<1>3. UNCHANGED <<uses, GivenOut, nextNumber>>
  BY DEF Cancels, GivenOut
<1> QED
  BY <1>1, <1>2, <1>3 DEF Sale!Cancel

LEMMA VoidStep ==
  ASSUME IsolationInv, RowsConsistent, HeldByPaid, CertificatesOfPaid, UsesCover,
         NEW o \in Orders, Others(o), Voids(o)
  PROVE  Sale!Void(o)
<1>1. Sold[o].stage = "paid" /\ orders[o].gift \in SUBSET Certs /\ orders[o].coupon \in CouponRef
  BY SoldColumns DEF Voids, IsolationInv, Typed, TypeOK, Row
<1>2. Sold' = [Sold EXCEPT ![o].stage = "cancelled"]
  <2>1. Sold' = [Sold EXCEPT ![o] = [stage |-> "cancelled", coupon |-> orders[o].coupon,
                                     gift |-> orders[o].gift, number |-> orders[o].inv]]
    BY SoldStep DEF Voids, SameContent
  <2> QED
    BY <2>1, SoldColumns DEF Sold
<1>3. uses' = [v \in Coupons |-> IF v = Sold[o].coupon THEN uses[v] - 1 ELSE uses[v]]
  <2>0. uses \in [Coupons -> Nat] /\ Sold[o].coupon = orders[o].coupon
    BY SoldColumns DEF IsolationInv, Typed, TypeOK
  <2>1. CASE orders[o].coupon = NoCoupon
    BY <2>0, <2>1, BillingAssumption DEF Voids
  <2>2. CASE orders[o].coupon # NoCoupon
    <3> DEFINE k == orders[o].coupon
    <3>1. k \in Coupons /\ o \in Holders(k)
      BY <1>1, <2>2 DEF CouponRef, Holders, RowsConsistent, Voids
    <3>2. uses[k] > 0
      <4>1. Cardinality(Holders(k)) # 0
        BY <3>1, HoldersFinite, FS_EmptySet
      <4> QED
        BY <2>0, <3>1, <4>1, HoldersFinite DEF UsesCover
    <3>3. uses' = Returned(k)
      BY <2>2 DEF Voids, RowsConsistent
    <3> QED
      BY <2>0, <3>1, <3>2, <3>3 DEF Returned
  <2> QED
    BY <2>1, <2>2
<1>4. GivenOut' = GivenOut \ Sold[o].gift
  <2>1. \A c \in Certs :
          redeemedBy'[c] = IF redeemedBy[c] = o THEN "available" ELSE redeemedBy[c]
    BY DEF Voids, Released
  <2>2. \A c \in Certs : c \in orders[o].gift <=> redeemedBy[c] = o
    BY DEF HeldByPaid, CertificatesOfPaid, Voids
  <2> QED
    BY <1>1, <2>1, <2>2, SoldColumns, BillingAssumption DEF GivenOut
<1>5. nextNumber' = nextNumber
  BY DEF Voids
<1> QED
  BY <1>1, <1>2, <1>3, <1>4, <1>5 DEF Sale!Void

LEMMA WithdrawStep ==
  ASSUME IsolationInv, NEW o \in Orders, Others(o), Deletes(o)
  PROVE  Sale!Withdraw(o)
<1>1. Sale!Open(o) \/ (ReloadFails /\ Sold[o].stage = "paid")
  BY SoldColumns DEF Sale!Open, Deletes
<1>2. Sold' = [Sold EXCEPT ![o] = Sale!Blank("deleted")]
  <2>1. /\ Deleted.st = "deleted" /\ Deleted.coupon = NoCoupon /\ Deleted.gift = {}
        /\ Deleted.inv = 0
    BY DEF Deleted, NoRow
  <2> QED
    BY <2>1, SoldStep DEF Deletes, Sale!Blank
<1>3. GivenOut' = GivenOut
  <2>1. \A c \in Certs :
          redeemedBy'[c] = IF redeemedBy[c] = o THEN "orphan" ELSE redeemedBy[c]
    BY DEF Deletes, Released
  <2> QED
    BY <2>1, BillingAssumption DEF GivenOut
<1>4. UNCHANGED <<uses, nextNumber>>
  BY DEF Deletes
<1> QED
  BY <1>1, <1>2, <1>3, <1>4 DEF Sale!Withdraw


SalesInv == RowsConsistent /\ HeldByPaid /\ UsesCover

LEMMA InitSales == Init => SalesInv /\ Sale!Init
<1> SUFFICES ASSUME Init PROVE SalesInv /\ Sale!Init
  OBVIOUS
<1>1. RowsConsistent /\ HeldByPaid
  BY BillingAssumption DEF Init, RowsConsistent, HeldByPaid, NoRow
<1>2. UsesCover
  BY NoHolders DEF UsesCover
<1>3. Sold = [o \in Orders |-> Sale!Blank("absent")] /\ GivenOut = {}
  BY DEF Init, NoRow, Sold, GivenOut, Sale!Blank
<1> QED
  BY <1>1, <1>2, <1>3 DEF SalesInv, Sale!Init, Init

LEMMA AlwaysSales ==
  ASSUME Isolated
  PROVE  Spec => []SalesInv
<1>1. IsolationInv /\ SalesInv /\ [Next]_vars => SalesInv'
  BY ConsistentStep, HeldStep, CoverStep DEF SalesInv
<1> QED
  BY <1>1, InitSales, AlwaysIsolated, PTL DEF Spec

\* The handlers implement the atomic sales: between their reads and their writes others run,
\* and still each write is one whole operation on the orders, the coupons, the certificates
\* and the numbers as they are then (create, finalize, updateItems, updateStatus, issue).
THEOREM SalesImplemented ==
  ASSUME Isolated
  PROVE  Spec => ImplementsSales
<1>1. Init => Sale!Init
  BY InitSales
<1>2. ASSUME IsolationInv, CertificatesOfPaid, SalesInv, [Next]_vars
      PROVE  [Sale!Next]_Sale!saleVars
  <2>1. CASE Quiet
    BY <2>1 DEF Quiet, Sale!saleVars, Sold, GivenOut
  <2>2. ASSUME NEW o \in Orders, Effect(o)
        PROVE  Sale!Next
    <3>1. ASSUME NEW k \in CouponRef, NEW G \in SUBSET Certs, Reserves(o, k, G)
          PROVE  Sale!Next
      <4>1. Sale!Fill(o, k, G)
        BY <1>2, <2>2, <3>1, FillStep DEF Effect, SalesInv
      <4> QED
        BY <4>1 DEF Sale!Next, CouponRef
    <3>2. ASSUME NEW k \in CouponRef, Collects(o, k)
          PROVE  Sale!Next
      <4>1. Sale!Collect(o, k)
        BY <1>2, <2>2, <3>2, CollectStep DEF Effect, SalesInv
      <4> QED
        BY <4>1 DEF Sale!Next, CouponRef
    <3>3. CASE Voids(o) \/ Cancels(o) \/ Deletes(o)
      <4>1. Sale!Void(o) \/ Sale!Cancel(o) \/ Sale!Withdraw(o)
        BY <1>2, <2>2, <3>3, VoidStep, CancelStep, WithdrawStep DEF Effect, SalesInv
      <4> QED
        BY <4>1 DEF Sale!Next
    <3> QED
      BY <2>2, <3>1, <3>2, <3>3 DEF Effect
  <2> QED
    BY <1>2, <2>1, <2>2, Effects
<1>3. IsolationInv /\ CertificatesOfPaid /\ SalesInv /\ [Next]_vars
        => [Sale!Next]_Sale!saleVars
  BY <1>2
<1> QED
  BY <1>1, <1>3, AlwaysIsolated, AlwaysSales, CertificatesBelong, PTL
  DEF Spec, ImplementsSales, Sale!Spec

\* A certificate is in one order at most, of those in progress and those that are paid.
THEOREM CertificatesPayOnce ==
  ASSUME Isolated
  PROVE  Spec => []CertificatePaysOnce
<1>1. Init => CertificatePaysOnce
  BY DEF Init, CertificatePaysOnce, NoRow
<1>2. ASSUME IsolationInv, CertificatesOfPaid, SalesInv, CertificatePaysOnce, [Next]_vars
      PROVE  CertificatePaysOnce'
  <2>1. CASE Quiet
    BY <1>2, <2>1 DEF Quiet, CertificatePaysOnce
  <2>2. ASSUME NEW o \in Orders, Effect(o)
        PROVE  CertificatePaysOnce'
    <3>1. CASE orders[o].st = "open" /\ orders'[o].gift = orders[o].gift
      BY <1>2, <2>2, <3>1 DEF CertificatePaysOnce, Effect, Others
    <3>2. CASE orders'[o].st \notin {"open", "paid"}
      BY <1>2, <2>2, <3>2 DEF CertificatePaysOnce, Effect, Others
    <3>3. ASSUME NEW k \in CouponRef, NEW G \in SUBSET Certs, Reserves(o, k, G)
          PROVE  CertificatePaysOnce'
      <4>1. ASSUME NEW p \in Orders \ {o}, orders[p].st \in {"open", "paid"}, NEW c \in G
            PROVE  c \notin orders[p].gift
        <5>1. redeemedBy[c] = "available"
                /\ ~Reserved(c, {q \in Orders \ {o} : Active(orders[q])})
          BY <3>3, <4>1 DEF Reserves, BenefitsAvailable
        <5>2. CASE orders[p].st = "open"
          BY <1>2, <4>1, <5>1, <5>2 DEF Reserved, Active, SalesInv, RowsConsistent
        <5>3. CASE orders[p].st = "paid"
          BY <1>2, <4>1, <5>1, <5>3, BillingAssumption DEF CertificatesOfPaid
        <5> QED
          BY <4>1, <5>2, <5>3
      <4>2. orders'[o].gift = G /\ \A p \in Orders \ {o} : orders'[p] = orders[p]
        BY <2>2, <3>3 DEF Reserves, Effect, Others
      <4> QED
        BY <1>2, <4>1, <4>2 DEF CertificatePaysOnce
    <3> QED
      BY <2>2, <3>1, <3>2, <3>3 DEF Effect, Collects, Voids, Cancels, Deletes
  <2> QED
    BY <1>2, <2>1, <2>2, Effects
<1>3. IsolationInv /\ CertificatesOfPaid /\ SalesInv /\ CertificatePaysOnce /\ [Next]_vars
        => CertificatePaysOnce'
  BY <1>2
<1> QED
  BY <1>1, <1>3, AlwaysIsolated, AlwaysSales, CertificatesBelong, PTL DEF Spec

\* Every number given is on an order: a collection takes it in its own transaction, a
\* cancelled invoice keeps it, and only an order without one is deleted.
THEOREM InvoicesWithoutGap ==
  ASSUME Isolated, ~ReloadFails
  PROVE  Spec => []InvoicesGapless
<1>1. Init => InvoicesGapless
  BY DEF Init, InvoicesGapless
<1>2. ASSUME IsolationInv, SalesInv, InvoicesGapless, [Next]_vars
      PROVE  InvoicesGapless'
  <2>0. nextNumber \in Nat
    BY <1>2 DEF IsolationInv, Typed, TypeOK
  <2>1. CASE Quiet
    BY <1>2, <2>1 DEF Quiet, InvoicesGapless
  <2>2. ASSUME NEW o \in Orders, Effect(o)
        PROVE  InvoicesGapless'
    <3>1. CASE orders[o].inv = 0 /\ nextNumber' = nextNumber
      BY <1>2, <2>0, <2>2, <3>1 DEF InvoicesGapless, Effect, Others
    <3>2. CASE orders'[o].inv = orders[o].inv /\ nextNumber' = nextNumber
      BY <1>2, <2>0, <2>2, <3>2 DEF InvoicesGapless, Effect, Others
    <3>3. ASSUME NEW k \in CouponRef, Collects(o, k)
          PROVE  InvoicesGapless'
      <4>1. orders[o].inv = 0 /\ orders'[o].inv = nextNumber /\ nextNumber' = nextNumber + 1
        BY <1>2, <3>3 DEF Collects, InvoiceNumber, NumberTaken, SalesInv, RowsConsistent
      <4> QED
        BY <1>2, <2>0, <2>2, <4>1 DEF InvoicesGapless, Effect, Others
    <3>4. CASE ~(\E k \in CouponRef : Collects(o, k))
      <4>1. nextNumber' = nextNumber
        BY <2>2, <3>4 DEF Effect, Reserves, Voids, Cancels, Deletes
      <4>2. orders[o].inv = 0 \/ orders'[o].inv = orders[o].inv
        BY <1>2, <2>2, <3>4
        DEF Effect, Reserves, Voids, Cancels, Deletes, SameContent, SalesInv, RowsConsistent
      <4> QED
        BY <3>1, <3>2, <4>1, <4>2
    <3> QED
      BY <3>3, <3>4
  <2> QED
    BY <1>2, <2>1, <2>2, Effects
<1>3. IsolationInv /\ SalesInv /\ InvoicesGapless /\ [Next]_vars => InvoicesGapless'
  BY <1>2
<1> QED
  BY <1>1, <1>3, AlwaysIsolated, AlwaysSales, PTL DEF Spec
=============================================================================
