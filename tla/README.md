# Formal models of the pizza-app backend

The backend is a NestJS service over PostgreSQL (Prisma) for a pizzeria: orders
with kitchen tickets, collection with invoice numbers, promotions, cash shifts
and expenses, tables, notifications, audit and backups.  One process serves many
terminals, so that the handlers of requests, timers and events interleave at
every `await`; the database adds transactions, row locks and unique indexes.

This directory holds TLA+ modules for the parts where these interleavings
matter, TLC configurations that check them on small instances, and proofs
checked by TLAPS for all instances.  Paths below are relative to `src/src/`.

## 1. Inventory

| Component | State | Operations | Interacts with |
|---|---|---|---|
| Orders (`orders/services/orders.service.ts`) | Order rows with items, payments, coupon, reserved certificates, invoice, shift | create, updateItems, updateStatus (status, kitchen ticket, cancellation), startDelivery, updateTables, finalize, splitCheckout | pricing, invoicing, shifts, coupons, certificates, tables; emits `order.synchronized`, `order.ready`, `order.cancelled` |
| Invoicing (`orders/services/invoice-issuing.service.ts`) | Correlativo rows | issue: one transaction that consumes coupon, certificates and number | called by finalize and splitCheckout |
| Correlativos (`correlativos/`) | Correlativo rows | create, update, consumeNext, delete | invoicing reads and writes the same rows |
| Shifts (`shifts/`) | Shift rows | open, close, preview | collections and expenses lock the row; `shift.closed` starts a backup |
| Cash expenses (`cash-expenses/`) | CashExpense rows | create | shift row, policy, PIN |
| Promotions (`promotions/`) | Cupon, Certificado, Discount, HappyHour rows | administration, redeem | collections consume them |
| Kitchen tickets (`orders/repositories/prisma-orders.repository.ts`) | kitchen state of items and of the parts of a combo | updateItemsKitchenStatus, derived status | notifications |
| Tables (`mesas/`) | Mesa rows, floors | reserve, release, expiry job, floors | orders that occupy them |
| Notifications (`notifications/`) | Notification rows, SLA claims | order.ready, SLA job, SSE | orders |
| Orders gateway (`orders/gateways/`) | sockets, their rooms | authenticate, revalidate, publish | users, kitchens |
| Automatic audit (`system-logs/audit/`) | queue in memory, spool file, SystemLog rows | enqueue, drain, replay, shutdown | every audited request |
| Backups (`backups/`) | files, a flag | generate, retention, restore, jobs | shifts |
| Users and sessions (`users/`, `common/security/`) | User rows, tokenVersion, AuthAttempt | login, PIN, refresh, revoke, update | every guard, authorizations by PIN |
| Products, customers, devices, kitchens, access control, configuration | rows | plain administration | |
| Order rules (`orders/`, `common/*.config.ts`) | saved policies | who may move, collect, cancel, edit | every order handler |
| Reports, dashboard (`reports/`, `admin-dashboard/`, metrics of orders) | none | queries | orders, shifts |
| Business time (`common/time/`) | none | days, months, expiry | coupons, ranges, reports |

What makes them correct, in a sentence each:

* **Orders**: an order that is paid or cancelled stays so; what was billed is what
  was ordered; a certificate or coupon use pays for one order.
* **Invoicing**: no number twice, no order with two numbers.
* **Shifts and expenses**: one open shift; a closed one is frozen; its totals
  record what it collected; the cap binds.
* **Audit**: an entry that was accepted is written, unless the process crashes;
  the shutdown ends.
* **Split bills**: items and money of the parent and its parts add up in every
  order of collections and cancellations.
* **Kitchen tickets**: an order that is ready was announced after the last item it was sent.
* **Numbering**: a number of a range goes to one invoice, and one range is in force.
* **Users and sessions**: an access that was taken is refused for good, an
  administrator remains, guesses are bounded; **gateway**: an order reaches only
  screens that may show it.
* **Tables**: an order sits where it was put last.  **Deliveries**: one that is late
  is reported to everybody concerned.
* **Backups**: nothing is replaced without a copy, and a copy stays.
* **Pricing, reports, rules, time**: calculations; see section 3.

The hazards in `PROJECT.json` name for each component what can go wrong and at which
line, with the properties that speak of it.

Hard behaviours: rows that are read, awaited and written without a version
(`updateStatus`, the patch of a paid order, tables, users); checks outside the
transaction that acts on them (`finalize`, expenses, shifts); compensation after a
partial failure (`create`, the SLA job); isolation levels (`close`); JSON columns
that are read, changed and written back (combo tickets); timers next to requests;
a file next to a table (audit, backups).

## 2. Plan

The order of work, most important first.  All modules of the plan exist.

1. `Sales` (abstract), `OrderBilling` (detailed, shown to implement it): life of an order
   and what its collection consumes.
2. `ShiftLedger`: shifts, expenses, and the lock that collections share with closings.
3. `AuditLog` (abstract), `AuditQueue` (detailed, shown to implement it).
4. `Bill` (abstract), `SplitBilling` (detailed, shown to implement it), on `Pricing`.
5. `KitchenTickets`, `Deliveries`, `Numbering`, `Tables`, `Backups`, composed in
   `MCHouse`.
6. `Accounts`, `Lockout`, and `OrdersGateway`, which extends `Accounts`, composed in
   `MCStaff`.
7. The calculations `OrderRules`, `Reports`, `Notices`, `BusinessTime`.

Each component has its theorems in a module of its own, in the same order:
`OrderBillingProofs`, `ShiftLedgerProofs`, `AuditQueueProofs`, `SplitBillingProofs`,
`NumberingProofs`, `HouseProofs` (for `Deliveries`, `Tables`, `KitchenTickets` and
`Backups`), `AccountsProofs` (for `Accounts`, `OrdersGateway` and `Lockout`), and
`CalculationProofs` for the calculations.
Every safety property and every refinement of the passing runs has its theorem; what it
assumes is in section 5, and weakening those hypotheses is what is left to prove.  Left to
model: section 6.

## 3. The modules

### Sales and OrderBilling

`Sales` says what is promised of an order when nothing is written blindly: it is filled,
collected, cancelled, voided or withdrawn in one step; what a collection consumes is taken
in that step and returned in the step that voids it, and numbers follow one another.  It
has no requests, no snapshots, and no reservations but the certificates of the sales in
progress.  `OrderBilling` is the service.

State: `orders` (Order rows), `uses` (Cupon.currentUses), `redeemedBy`
(Certificado.status and redeemedOrderId), `nextNumber` (the active Correlativo),
`shifts` (the last shift and whether it is open), and `req`, the handlers in
flight with the snapshot they read.

A handler is a sequence of steps: it reads (`Begin…`), may check
(`CheckBenefits`), and writes (`Commit…`, `Issue`).  Transactions of the code that
begin with `SELECT … FOR UPDATE` on the order are one step, since they lock every
other row before they use it.  A coupon is counted in `assertPendingBenefitsAvailable`
after its row is locked; the counted orders are not, but an order starts or changes
to hold the coupon only under that lock.

| Handler of the code | Actions |
|---|---|
| `create`, not paid | `CreateOrder` |
| `create`, paid | `CreatePaid`, `CollectCreated`, `CheckBenefits`, `Issue`, `ReturnIssued`; `DeleteCreated` on an error |
| `finalize`, and `updateStatus` to paid | `BeginFinalize`, `CheckBenefits`, `Issue` |
| `updateItems` in progress / paid | `BeginEdit`, `CommitEdit` / `CommitPatch` |
| `updateStatus` of a kitchen ticket | `BeginKitchen`, `CommitKitchen` |
| `updateStatus` to an operational status | `BeginStatus`, `CommitStatus` |
| cancellation, not paid / paid | `BeginCancel`, `CommitCancel` / `CommitVoid` |
| `startDelivery`, SLA alerts | `Touch` |
| an error, a crash | `Reject`, `Crash` |

The guard on `updatedAt` is the flag `fresh` of a handler: it is set when the row
is read and cleared by every later write to the row.

Abstractions.  The operational statuses are one, `open`: nothing in this module
tells them apart.  Content is a coupon and a set of certificates, prices are
left out; `paidFor` remembers the content that the payments of a collection were
matched with.  There is one correlativo (several are in `Numbering`), and an
order has no parent (see `SplitBilling`).

Two constants select assumptions.  `Isolated`: the writes of `updateStatus` and the
patch of a paid order carry no version and can undo anything that happened since
they read.  Under `Isolated` such a handler overlaps no other on the same order,
and neither does the creation of a paid one (which deletes the order it created
when anything fails).  It says what the consistency of coupon,
certificates and bill depends on, and the runs without it show what happens
otherwise.  `ReloadFails`: the read after a committed collection may fail, upon
which `create` deletes the order it just invoiced.

The refinement maps `sale` to the stage, coupon, certificates and number of each row
(`Sold`), `given` to the certificates that are redeemed (`GivenOut`), `used` and `next` to
the counters.  A handler that checks in one step and writes in the next is one operation of
`Sales`, at its write: that needs `Isolated` and nothing else, for an order that
`create` deletes after its collection is an operation of `Sales`, too (`Withdraw` under
`MayForget`, for which `billing_isolated` leaves no room and the theorem does).  What
follows from the operations of `Sales` has no run of its own: that a certificate pays once
(`CertificatePaysOnce`) and that no number is lost (`InvoicesGapless`) are theorems, and
that a cancelled order stays so (`CancelledIsFinal`) is checked where it fails.

### ShiftLedger

State: Shift rows, of Order rows the status and the shift, the expenses of each
shift, the row locks, and the transactions in flight.  Here transactions are
several steps, because what matters is who waits for whom: a collection
(`requireActiveShiftId`) and an expense lock the row and read it as it is then
(READ COMMITTED); a closing is SERIALIZABLE, and its snapshot is the one of its
first statement, which is the request for the lock.  PostgreSQL rolls it back only
if the row itself was updated since, and locking it is not an update.

`BeginExpense` is the service with its policy check, `CommitExpense` the repository
with the check under the lock; `BeginCollect` finds the shift, `Lock` gets its row,
`CommitCollect` pays; `BeginVoid` and `CommitVoid` are a cancellation, which checks
the shift once, without a lock; `BeginClose`, `Lock`, `CommitClose` a closing with
its preview.  Each order is worth one unit of cash.

### AuditLog and AuditQueue

`AuditLog` says what is promised of an entry: it is held in memory, kept on disk
or written; a crash loses only what was held.  `AuditQueue` is the service: the
queue, the drain loop with its batch and attempt, the spool file, its flag, the
replay, the shutdown and the restart.  A step is what runs between two awaits; calls
on the file are synchronous.  An insertion may fail although it was committed
(`MaxUnclear` of them), and the process may crash (`MaxCrashes` times).  The
refinement maps `held` to the queue and the batch in hand, `kept` to the file, and
`written` to the entries with a row.

`QuietReplay` excludes that entries are appended to the file while a replay of it
waits for an insertion.  The promise depends on it, and `audit_overflow`
shows the loss without it.

### Bill, SplitBilling, Pricing

`Bill` says what a bill that guests pay in parts promises of its money: what was
ordered is due, collected, or forgiven as a remainder within a tolerance.
When an edit withdraws what guests have paid amounts for, what is due falls below nothing;
nobody gets it back, and the invoice of the rest collects nothing.
`SplitBilling` is the service: a main account, its parts, the uses of the coupon, and
handlers that read the main account, compute, and commit if its `updatedAt` is
unchanged (`fresh`).

| Handler of the code | Actions |
|---|---|
| `splitCheckout` of items / of an amount | `BeginSplitItems` / `BeginSplitAmount`, `CommitSplit` |
| `updateStatus`: a part is cancelled | `BeginVoid`, `ReadMain` (`prepareSplitCancellationRestore`), `CommitVoid` |
| `updateStatus`: the main account is cancelled | `BeginCancel`, `CommitCancel` |
| `updateItems`, `finalize` | `BeginEdit`, `CommitEdit`; `BeginFinalize`, `CommitFinalize` |
| any other write to the row | `Touch` |

An edit replaces the items of the main account by the list of the client (`Listed`): those
with an id of the account stay, those that are not on it are withdrawn, and all others are
new.  The server compares `updatedAt` with its own read only, so the list may be older than
that read.  An item of an outdated list that a part took meanwhile has no id of the account
any more, and is ordered once more; as nothing in the code tells it from a new item, it is
one here, a unit that was not ordered before.  `ordered` is the history of what was ordered
and not withdrawn.

The refinement maps `worth` to the price of what was ordered, `due` to what the items of
the main account cost less its credits, and `collected` to what the parts took over.
Every unit costs the same and the discount is a fixed one; certificates, packaging, tax
and kitchen state are left out.  Three constants exclude what the code does not protect:
`Isolated` (the cancellation of an open main account is a plain write), `DiscountKept`
(clients send the discount; without it see finding 5; a discount that is used up is
granted anew, since `splitCheckout` keeps a reduced one only if it is positive), and
`CleanNames` (a part that settles with a remainder has a name of its own, because the
credit that a cancellation removes is looked up by name and amount, then by name).

`Pricing` holds the calculations of `OrderPricingService` and the payment validators:
which promotion applies, unit and combo prices, gifts, discounts, totals, and the
reconciliation of payments.  `SplitBilling` uses its discounts and totals.

### Accounts, Lockout, OrdersGateway

`Accounts` follows User rows, the permissions of roles, and one token, any of the
sessions and reset links that are issued.  `BeginLogin` reads the user, `Admit` signs for
what was read; `BeginUpdate`, `BeginProfile`, `BeginDelete` read and check, `CommitEdit`
writes the version that was read plus one; `Logout`, `ResetPassword`, `UpdateRole` and
`Boot` are single statements or transactions.  `EditsApart`: two edits that overlap may
count one revocation for two and may remove the last administrator, since neither the
version nor the count is compared when the edit is written; under it no two overlap.

`Lockout` counts failures of scopes (`PinAttemptService`) and of accounts: an attempt
checks, verifies and registers in three steps, in parallel with others; `tries` is the
history of guesses.  How long a lock lasts is left out, it ends (`TimePasses`).

`OrdersGateway` extends `Accounts` with sockets, the rooms of the adapter, and for each
event the validation of each socket, one step per await: `Authenticate` (the user is read,
for its session), `Authorize` (then the permissions of its role), `ReadKitchen`, `Leave`,
`Join`, `Joined`, or `Settled`.  `Synchronize` and `Emit` are the event.
Accounts, roles, assignments and kitchens change in between.  `allowed` records what spoke
for a socket since its validation began: session, permission and room, each on its own.
The promise of the code is not that a screen is entitled at the moment of the emission, nor
that session and permission were ever good together, but that each was at some moment of
this validation: a role that is changed between the two reads may let a socket in whose
session had ended when the permission was given.  `EventsApart`: events that overlap may leave a socket in two rooms.

### KitchenTickets, Deliveries, Numbering, Tables, Backups

* `KitchenTickets`: items of an order in rounds, of which a combo has a status per
  kitchen in one JSON column.  A ticket names a round, and a kitchen or none (then it marks
  for all of them), and it may name one item (then whatever its kitchen).  It is
  `BeginTicket`, `FindItems`, `MarkPlain`, a `MarkCombo` for each combo (written back as it
  was read), `Reload` and `CommitTicket`.  Edits from a screen, which may be older than the
  edit's own read (`Show`, `BeginEdit`, `CommitEdit`), and changes of the whole order run
  next to it.  `owed` is what was sent since the last announcement.
  `ChangesApart`: a change of the whole order, which writes all that it read, overlaps
  nothing.  The announcement is lost in three ways, all excluded by `NoneBack`, which says
  of each step that it takes no ready item back and adds no removed one again.  A ticket
  that was pressed before sets an item back before its announcement, and another one, which
  found the order ready in between, makes it ready again and announces nothing.  A screen
  that shows what was before writes it back.  And an item that another terminal removed is added
  again by a screen that shows it, with its status there: it may be ready without anybody
  having marked it in its new row.
* `Deliveries`: `startDelivery` and the job for late deliveries, which claims an order
  (`Claim`), writes a notification per role at once (`Write`, `FailToWrite`) and gives
  the claim back at the first failure (`Release`, which may fail, too).  `StopHouse` is a
  crash; `lost` records the alerts that it costs.
* `Numbering`: the ranges (Correlativo rows), the invoices, collections that open a
  range (`BeginOpening`, `CommitOpening`, refused by the unique number in `FailOpening`),
  and the requests of administrators.  A request has any of the fields that numbers depend
  on (limits, current number, month, prefix, resolution), and the code compares what comes
  in one request and never the row (`Refused`): a current number or an end alone is taken
  as it is.  `CreateIdle` and `ChangeRow` are one write; making a range active is
  `BeginActive` (with the statement that ends the active ones, which a PATCH without a
  document type leaves out), `BeginSwitch` and `CommitSwitch`, or `FailSwitch` when the row
  is gone.  `first` and `free` are history: the number that a range began with, and whether
  all changes since only made it wider or left its numbers alone.  A range that an
  administrator renumbers, makes smaller or ends earlier is followed with its invoices, but
  the account of its numbers speaks of it no more: the code promises nothing of it.  There
  is one document type, the one that collections number.  `SwitchesApart`: no two ranges
  are made active at the same time, nor one range twice.
* `Tables`: tables, floors, reservations and their expiry, the links of orders and of
  their paid parts, moves and splits.  Handlers of different orders overlap, and share
  tables.  `MovesApart`: of one order no two moves or splits overlap, and tables are
  configured while nobody seats (`Apart`), as no lock or version protects the links.
* `Backups`: files by kind and second, dumps, retention, restoration with its
  snapshot, imports, and a stop of the process at any time.  `Quiet`: nobody works and
  nothing is deleted while a restoration runs; `SecondsApart`: no two dumps of a kind in
  one second.

### Calculations

`Pricing`, `OrderRules` (who may move, collect and cancel an order, what a saved
configuration becomes, what an edit of an invoiced order may change), `Reports` (sales
report, registers, service levels, cancellations, payments), `Notices` (who is told,
shown and sent what) and `BusinessTime` (days of a zone whose clocks change, coupons) are
operators without state.  What is expected of them is stated by named `ASSUME`s in
`MCSplitBilling` (Pricing, OrderRules), `MCShiftLedger` (Reports), `MCStaff` (Notices) and
`MCHouse` (BusinessTime), which TLC evaluates over all small inputs whenever a run of
those modules starts.  They are not properties of a behaviour.  What can be stated without
sums and folds is also proved for every input, in `CalculationProofs` (section 5).

Things the ASSUMEs bring to light, each stated as it is: a report read in pages counts an
order twice when an earlier one is paid between two pages (`PagesOfOneReading`); the
dashboard counts the rest of a split bill as one more transaction than the report
(`RegistersAgree`); a row of the payment metrics takes the currency of its first payment
(`NetOfCommission`); a notice stored under an unusual spelling of a name is streamed and
not listed (`AudienceAgrees`, `ListedIsStreamed`); a saved policy without an active reason lets nothing be
cancelled (`SupervisorAsked`, `SupervisorIsAsked`); two bounds of a day may miss or repeat an hour when the
clocks change at midnight (`DaysBounded`, `DaysAreBounded`).

## 4. The runs

| Run | Instance | Shows |
|---|---|---|
| `billing_races` | 2 orders, 2 handlers, 1 coupon with 1 use, 2 numbers, 1 shift | with all interleavings: coupon limit, distinct and permanent numbers |
| `billing_isolated` | the same with 1 certificate, 2 uses, 2 shifts, `Isolated` | certificates, coupon accounting, bill, paid orders; implements `Sales` |
| `billing_reopened` | as `billing_races` | refutes `CancelledIsFinal` without `Isolated` |
| `billing_overbooked` | 1 use, `Isolated` | refutes `CouponNotOverbooked` |
| `audit_faults` | 4 entries, queue of 2, batches of 1, 2 attempts, 1 crash, 1 unclear answer | refinement, no duplicates, backlog and shutdown end |
| `audit_overflow` | 3 entries, queue of 1, no `QuietReplay` | refutes `SpoolSurvives` |
| `shift_ledger` | 2 orders, 2 handlers, 2 shifts, cap 1, expenses up to 2 | one open shift, freeze, cap, complete prompt closings |
| `shift_close_missed` | the same | refutes `CloseComplete` |
| `split_bills` | 2 units, 2 parts, 2 handlers, coupon with 2 uses, tolerance 1 | units, money, coupon and discount of a split bill; implements `Bill` |
| `split_discount` | the same with 3 parts, price 3, without `DiscountKept` | refutes `DiscountWithin` |
| `staff` | 2 users, 2 handlers, 2 sockets, 2 kitchens, version up to 2, 2 failures | sessions, last administrator, guesses, deliveries of events |
| `house` | 2 handlers (1 that dumps, 1 administrator), 2 files, 2 seconds, 2 ranges, 2 months, 2 requests, 2 items (1 a combo), 2 rounds, 4 kinds of tickets, 2 parcels, 2 orders at 2 tables | numbers, announcements, alerts, seats, snapshots, files |

Bounds.  `MaxShift`, `MaxNumber`, `MaxSpent`, `MaxCrashes`, `MaxUnclear`, `MaxVersion`,
`MaxSecond`, `MaxFiles`, `MaxRows`, `MaxMonth`, `MaxAsked` (requests that change ranges)
and `Rounds` bound counters, and so do two bounds of `MCHouse`: `MaxBegun`, how often a
handler begins to work on the kitchen's order (four: two tickets, an edit and what it shows),
and `MaxTaken`, tables that are reserved or occupied at once (seats depend on that state only
through the configuration of the floors).  Of the kitchen the run explores the steps that `NoneBack`
allows; without them stale writes break the property (section 3).  Two handlers are what a
race needs: every hazard listed is between two requests, and a third order would only repeat
the role of the second.  Two shifts
let an order be paid in a shift other than that of its creation.  With a queue of 2 and
4 entries the queue overflows while a batch is in hand, and batches of 1 leave more than
one batch to replay.  A run ends when its bounds are used up, so deadlock is
not checked; that nothing waits for ever is stated by the liveness properties of
`AuditQueue`.

`MCStaff` and `MCHouse` choose one area at the start (`area`) and leave the variables of
the others alone: the areas share no state, except accounts and gateway, which are
composed (`Personnel`: accounts are made, sessions end and roles change while sockets are
validated).  With two parts of a bill one can be paid, cancelled, and its items paid by the
other, while an edit adds and withdraws; a unit that was withdrawn or never ordered is what
an edit adds.  Versions up to 2 let a revocation be written next to a stale one; two months let
a range expire, and a range of two numbers run out; the requests are a range to create,
from its first or its last number, and changes of the number, the end, and the end and the
month.  Two orders at two tables, each with a part, let moves and splits of both overlap on
one table.

Symmetry is used for orders, handlers, units, parts, kitchens and tables, in runs without
liveness only.

Fairness is assumed in `AuditQueue` alone: the drain, the replay, the shutdown and
the exit are weakly fair, since the event loop runs what is ready and every
insertion is answered, with a row or an error.  Nothing is assumed of the database
succeeding, of new entries, of crashes or of a restart.

## 5. What is proved

The theorems hold for every number of orders, handlers, units, entries and so on, and for
all limits, from the named assumption on the constants of the module
(`BillingAssumption`, `LedgerAssumption`, ...).  A constant that selects an assumption on
the environment (section 3) is a hypothesis of a theorem only where its proof needs it,
and the table names it.  One inductive invariant per component carries everything; TLC
checked it on the instances of the runs before it was proved.

| Module | Invariant | Theorems | Hypotheses |
|---|---|---|---|
| `OrderBillingProofs` | `Typed`, `Numbering` | `TypeCorrect`, `CouponLimited`, `InvoicesUnique`, `InvoicePermanent` | |
| | `IsolationInv` | `ReservationsExclude`, `CertificatesBelong`, `BilledIsOrdered`, `CancelledForGood` | `Isolated` |
| | and `SalesInv` | `SalesImplemented`, `CertificatesPayOnce` | `Isolated` |
| | | `PaidUntilVoid`, `CouponsAccounted`, `InvoicesWithoutGap` | `Isolated`, not `ReloadFails` |
| `ShiftLedgerProofs` | `LedgerInv` | `LedgerTyped`, `OnlyOneShift`, `ClosedStaysFrozen`, `CapAlwaysRespected`, `PromptClosesComplete` | |
| `AuditQueueProofs` | `QueueInv` | `QueueTyped`, `NothingTwice`, `SpoolAlwaysInSight` | |
| | | `QueueIsAuditLog` | `QuietReplay` |
| `SplitBillingProofs` | `SplitInv` | `UnitsAreConserved`, `CouponIsCovered` | |
| | | `NoPaidPartLeft` | `Isolated` |
| | | `SplitTyped`, `DiscountStaysWithin` | `DiscountKept` |
| | and `Books` | `BillIsImplemented` | `DiscountKept`, `CleanNames` |
| `NumberingProofs` | `Book` | `NumberingTyped`, `RangesStayAccounted` | |
| | and `Control` | `EveryNumberAccounted` | `SwitchesApart` |
| `HouseProofs` | `DeliveriesInv` | `DeliveriesTyped`, `AlertsReachEveryone` | |
| | `TablesInv` | `TablesTyped` | |
| | | `OrdersAreSeated` | `MovesApart` |
| | `KitchenShape` | `KitchenTyped` | |
| | and `TicketsInv` | `ReadyIsAnnounced` | `ChangesApart`, `[][NoneBack]_kitchenVars` |
| | `BackupsInv` | `BackupsTyped` | |
| | | `SnapshotFirst` | `Quiet` |
| | | `WholeFilesStay` | `SecondsApart` |
| `AccountsProofs` | `AccountsInv` | `AccountsTyped`, `SessionsAreCurrent`, `RefusalsAreFinal` | `EditsApart` |
| | `RosterInv` | `AnAdminRemains` | `[]OneRemoval` |
| | `GatewayShape` | `GatewayTyped` | |
| | `GatewayInv` | `OnlyEntitledAreTold` | `EventsApart` |
| | `LockoutInv` | `LockoutTyped`, `GuessesAreBounded` | |
| `CalculationProofs` | (no state) | `DaysAreBounded`, `CouponsLastTheirDays`, `MonthsAreWhole`, `SlaWarnsFirst`, `OnePromotionAtMost`, `DiscountsAreCovered`, `SupervisorIsAsked`, `GiftsAreCertified`, `InvoicedItemsStay`, `SettledBillIsSent`, `ListedIsStreamed`, `SellersHear` | on the inputs, below |

Why the properties are not inductive as they stand, and what the invariants add:

* `OrderBilling`.  `Typed` adds `WellFormed`: a handler in flight has an order, its
  snapshot a stored status; without it a commit could write the status "absent".  Distinct
  numbers need that every number given is below `nextNumber`, and that rows which are not
  stored have none.  `IsolationInv` says that an order with an unversioned handler has no
  other (`Alone`), that the snapshot of such a handler is the row (`AllInformed`), and that
  the certificates which an order in progress reserves are not redeemed and not reserved
  by another (`ReservedWhileOpen`).  `ReservationExclusive` itself needs `Isolated`: a
  stale kitchen write that reopens a cancelled order brings back reservations which were
  given to another order since.  The refinement of `Sales` adds `SalesInv`: an order in
  progress has no number and reserves the certificates of its content, and a collection
  recorded the use of its coupon (`RowsConsistent`); only paid orders hold certificates,
  each of its content (`HeldByPaid`); and the uses of a coupon are no fewer than the paid
  orders that count one, so that a cancellation never finds none left (`UsesCover`).  Each commit is then
  one operation of `Sales` on the row as it is, by a lemma per operation (`FillStep`,
  `CollectStep`, `CancelStep`, `VoidStep`, `WithdrawStep`); every other step changes
  nothing of it.  The accounting itself needs that no collection is forgotten, the
  refinement does not: it says instead what is lost when one is.
* `ShiftLedger`.  A row is locked by exactly the transaction that is past its wait
  (`LockHeld`); whoever holds it has seen the shift open (`LockedOpen`), hence nothing is
  collected in a closed one.  `PromptSnapshots`: the snapshot of a closing that did not
  wait still covers the shift, because everybody else needs the row that it holds.
* `AuditQueue`.  `Phases` relates drain, replay and shutdown; `Apart` says that an entry
  is in one of queue, batch and file, and there once; `Unwritten` that without faults
  nothing that waits has a row; `Replayed` that what a replay has behind it has one.  The
  refinement goes step by step: each action maps to the named step of `AuditLog`, or
  changes none of the four abstract variables.
* `SplitBilling`.  `SplitInv` is an operator on the values of the four variables, so that
  the proof of a commit speaks of the new values and not of primed expressions.  `Sound`
  says of each handler what its snapshot is worth as long as `fresh`; `UnitsApart` that no
  unit is in two parts, nor in a part and in the rest; `Whole` that they are what was
  ordered and not withdrawn; `Covered` that the uses count the
  accounts with the coupon; `Discounted` that what was granted and what is left make up
  the discount.  Without `DiscountKept` not even the type of the discount holds: what is
  left of it may exceed the coupon's after a cancellation.
  The refinement of `Bill` needs to know what a cancellation gives back.  The code finds
  the credit of a part by name and amount, so the one that it takes out may have been
  another part's.  `Books` therefore does not say which credit is whose: it says that
  there are an amount that each part took over and a one-to-one assignment of the credits
  to the parts that paid an amount, with equal names and amounts, and that the main
  account, the credits and the parts add up to what was ordered.  A credit that goes is
  exchanged with its namesake and the rest still fits.  A part that settles with a
  remainder may be found by its name alone, which is why that name must be its own
  (`CleanNames`); and the discount must never exceed what is due (`DiscountKept`), or the
  amount would be cut at zero.
* `Numbering`.  `Book` holds whatever overlaps: the numbers of each range are accounted for
  (`RangesAccounted`), it has not gone back behind its first one (`Begun`), a row that nobody
  made is blank (`Untouched`), and what an administrator in flight is to write was compared
  as far as the code does (`Asked`).  Each change of a row either takes it out of the account
  or keeps what was numbered with it within its limits (`Keeps`).  Two activations that
  overlap may leave two ranges in force, but no number of either is issued twice.  Under
  `SwitchesApart`, `Control` follows as well: at most one range is in force, for which one
  needs to know what whoever opens a range will end, a collection the range that it found
  (`OpeningsReplace`), an administrator all of them (`SwitchesReplace`).
* `Deliveries`.  A claimed delivery is reported, or the job is telling it, or about to
  give it back (`ClaimsAnswered`).
* `Tables`.  Handlers that seat are of different orders (`OneSeats`); what one read of its
  order is still so, whatever others write at the tables that both have (`ReadsCurrent`);
  an order sits where it was put even while it is moved (`Sitting`), and links and bills
  agree (`LinksOfBills`, `Configured`).  Two moves of one order, which `MovesApart` excludes,
  leave the links of both: the second deletes the links that it read and not those that the
  first made.
* `KitchenTickets`.  When the order is ready and owes an announcement, a ticket in flight
  will make it (`SomebodyAnnounces`): one that did not find the order ready, or that has
  already seen it become so.  Tickets that found it ready mark what is ready
  (`MarksSettled`), and an edit that may still commit has read what is there
  (`EditsInformed`).  `NoneBack` is a hypothesis on the behaviour and not on a constant,
  since it depends on how the writes of handlers interleave.
* `Backups`.  Snapshots have names of their own kind (`DumpsByKind`); the file that a
  restoration relies on is whole and not old (`SnapshotTaken`); a dump writes to a file
  that no other dump and no whole backup has (`FilesOfDumps`).
* `Accounts`.  What a handler or a token knows of a user is true or belongs to an older
  version (`Current`): so a revoked token stays refused, as versions only grow, for which
  one edit at a time is needed (`OneEdit`, `EditsSound`).  That an administrator remains
  needs less: edits may overlap and write stale versions, as long as no two that each take
  an administrator away are in flight together (`OneRemoval`); then there is another one for
  each that is in flight (`RosterInv`).  Two such edits do take both away, since the count is
  not repeated.
* `OrdersGateway`.  A socket is validated once at a time (`Turns`); how far its validation
  is says what was found out (`Found`): the session spoke for it, then the permission, then
  the room, then the adapter has it in that room alone.  A socket that nobody validates is in the one room
  of `socket.data` and may see it (`AtRest`), and an order is emitted when all are at rest.
  With two events at once `OneCheck` fails, and with it that the adapter and
  `socket.data` agree; the types hold nevertheless, from `GatewayShape` alone.
* `Lockout`.  Behind an open lock every failure was counted; behind a closed one those
  attempts fail that were in flight when it closed, and one of them closed it
  (`Exhausted`).

Calculations.  `CalculationProofs` instantiates `BusinessTime`, `OrderRules`, `Pricing`,
`Reports` and `Notices` and proves what holds for every input, with the constants that the
modules share (`Day`, `Lower`, `Unset`) left open:

* Days.  A zone changes its offset once, by any amount in either direction.  The bounds of
  a day, the last instant of a coupon and of a month are right if the clocks show that
  local time at exactly one instant (`ShownOnce`); the hypothesis is needed, since an hour
  that is skipped or repeated at midnight belongs to no bound or to two.
* `SlaWarnsFirst` and `OnePromotionAtMost` have no hypothesis on what a request or a saved
  configuration contains (but that `Unset` is no number).  The overlapping conditions by
  which a promotion is chosen are written as a chain in `Pricing`, as in the code: the
  proof of the latter failed for the arms of a CASE, of which TLA+ may take any.
* `GiftsAreCertified`, `InvoicedItemsStay` and `SettledBillIsSent` speak of any number of
  items, `InvoicedItemsStay` with the proof that the item found for another is one of the
  edit.  `ListedIsStreamed` and `SellersHear` assume of `Lower` only that a name in lower
  case stays as it is.

What a sum or a fold over a list amounts to (the price of a combo, the reconciliation of
payments, the sales report) is defined by recursion and stays with the `ASSUME`s.

Sums and numbers of elements.  The induction theorems of the library take an operator and
cannot be used by the provers at hand.  Where a property sums over sets (the discounts of
parts, the uses of a coupon), the lemmas about the sum are proved by the choice of a
smallest set that would lack them (`SmallestSet` in `SplitBillingProofs`, from the
well-foundedness of the subset order) or from the cardinality theorems.

Only model-checked, and why:

* `BacklogDrains` and `ShutdownEnds`: liveness under fairness is out of reach of the prover.
* `StaffTypeOK` and `HouseTypeOK`, which join the types of the areas that `MCStaff` and
  `MCHouse` compose; the theorems are about the areas.
* What the calculations with sums and folds are expected to do (the `ASSUME`s of
  section 3): they are evaluated over bounded inputs.
* The behaviours with overlaps that the hypotheses exclude; four of the five runs that
  end in a violation are among them (section 7).

## 6. What is not modelled

`PROJECT.json` says it for each component.

* Plain administration: products, customers, devices, kitchens, custom roles, promotions
  next to orders, extra days and zones of waiters, the list of hidden tickets.  Each
  operation is one read and one write of a row that no other step depends on.
* Pure transport and start-up: controllers, guards, DTO validation, mails, cloud copies.
* Data that no property tells apart: taxes, certificates inside a split bill, texts, how
  long locks last.
* Disk errors of the audit spool, and deadlocks between transactions: transactions are
  atomic in all modules but `ShiftLedger`, and a deadlock that PostgreSQL aborts is an
  error of the handler.
* `finalizeSplitParent` and `assignRoleToUser`, which nobody calls.
* Liveness outside `AuditQueue`: the other timers retry what they find, and what they
  promise is stated as safety (`AlertsAccounted`).

What the assumption constants exclude is not an omission of the models: the steps are
there, and each constant names a protection that the code lacks.  Besides the findings
below: a cancelled main account with a part that was paid meanwhile (`Isolated`), two
administrators that deactivate each other (`EditsApart`), a socket in two rooms
(`EventsApart`), an order at the tables of two moves of it (`MovesApart`), two ranges in
force (`SwitchesApart`), work lost between
the snapshot and the restoration (`Quiet`), two dumps in one file (`SecondsApart`), an
item deleted by a stale change of the whole order (`ChangesApart`), an announcement lost
to a stale ticket or screen (`NoneBack`).

## 7. Findings

Five runs end in a violation, each a disagreement between the code and what it says.
`PROJECT.json` quotes the lines.

1. A cancelled order is reopened by a stale kitchen write (`billing_reopened`).
2. A coupon is overbooked by a collection that brings it (`billing_overbooked`).
3. Audit entries are lost when they are spooled during a replay (`audit_overflow`).
4. A closing misses what committed while it waited (`shift_close_missed`).
5. Two parts of a bill that leave their discount to the server each get the whole
   discount of the coupon (`split_discount`).
