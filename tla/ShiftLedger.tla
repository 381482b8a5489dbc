----------------------------- MODULE ShiftLedger -----------------------------
(***************************************************************************)
(* The cash shifts: ShiftsService and its repository, the expenses of      *)
(* CashExpensesService, and of a collection of an order (module            *)
(* OrderBilling) what it does to the shift that collects.                  *)
(*                                                                         *)
(* Collections, expenses and closings are transactions that lock the Shift *)
(* row FOR UPDATE; here a transaction is more than one step, because what  *)
(* matters is which of them waits for which.  The first two run READ       *)
(* COMMITTED and see the row as it is once they hold the lock.  A closing  *)
(* runs SERIALIZABLE: it reads the state of the moment it first asked for  *)
(* the lock, and is rolled back if the row itself was updated since.       *)
(*                                                                         *)
(* Every order is worth one unit of cash.                                  *)
(***************************************************************************)
EXTENDS Integers, FiniteSets

CONSTANTS
  Orders,     \* orders
  Handlers,   \* the handlers that may be in flight at one time
  NoOrder,    \* no order
  Nobody,     \* no handler
  Amounts,    \* the amounts of expenses
  Cap,        \* petty cash policy: maxShiftTotal, 0 for none
  MaxShift,   \* bound of the exploration: shifts that may be opened
  MaxSpent    \* bound: the expenses of a shift

ASSUME LedgerAssumption ==
  /\ NoOrder \notin Orders /\ Nobody \notin Handlers
  /\ IsFiniteSet(Orders)
  /\ Amounts \subseteq Nat
  /\ Cap \in Nat /\ MaxShift \in Nat /\ MaxSpent \in Nat

VARIABLES
  shifts,   \* the Shift rows
  orders,   \* of an Order row, its status and shift
  spent,    \* per shift, the sum of its CashExpense rows
  lock,     \* per shift, the transaction that holds its row
  tx        \* the handlers in flight

vars == <<shifts, orders, spent, lock, tx>>

-----------------------------------------------------------------------------
(* Values *)

Shifts == 1..MaxShift

\* sales, expenses and kind are what the closing records.
ShiftRow == [st: {"absent", "open", "closed"}, sales: Nat, expenses: Nat,
             kind: {"none", "handover", "endOfDay"}]
NoShift == [st |-> "absent", sales |-> 0, expenses |-> 0, kind |-> "none"]

OrderRow == [st: {"absent", "open", "paid", "cancelled"}, shift: Shifts \cup {0}]

\* What a handler knows: the shift and the order it works on; for an expense its
\* amount and whether a PIN authorized it; for a closing its kind, the state it
\* reads, and whether another transaction held the row when it first asked.
Handler == [op: {"idle", "open", "collect", "void", "expense", "close"},
            phase: {"idle", "read", "waiting", "locked"},
            s: Shifts \cup {0}, o: Orders \cup {NoOrder},
            amount: Nat, auth: BOOLEAN,
            kind: {"none", "handover", "endOfDay"},
            snap: [sales: Nat, expenses: Nat, pending: BOOLEAN],
            waited: BOOLEAN]

Idle == [op |-> "idle", phase |-> "idle", s |-> 0, o |-> NoOrder, amount |-> 0,
         auth |-> FALSE, kind |-> "none",
         snap |-> [sales |-> 0, expenses |-> 0, pending |-> FALSE],
         waited |-> FALSE]

TypeOK ==
  /\ shifts \in [Shifts -> ShiftRow]
  /\ orders \in [Orders -> OrderRow]
  /\ spent \in [Shifts -> 0..MaxSpent]
  /\ lock \in [Shifts -> Handlers \cup {Nobody}]
  /\ tx \in [Handlers -> Handler]

OpenShifts == {s \in Shifts : shifts[s].st = "open"}
Collected(s) == {o \in Orders : orders[o].st = "paid" /\ orders[o].shift = s}
Pending == {o \in Orders : orders[o].st = "open"}

\* Fault: the expenses are taken from the sales.
NetPreview(s) == [sales |-> Cardinality(Collected(s)) - spent[s],
                  expenses |-> spent[s], pending |-> Pending # {}]

\* buildClosePreview
Preview(s) == [sales |-> Cardinality(Collected(s)), expenses |-> spent[s],
               pending |-> Pending # {}]

-----------------------------------------------------------------------------
(* Opening *)

BeginOpen(h) ==
  /\ tx[h] = Idle
  /\ OpenShifts = {}
  /\ tx' = [tx EXCEPT ![h] = [Idle EXCEPT !.op = "open", !.phase = "read"]]
  /\ UNCHANGED <<shifts, orders, spent, lock>>

\* Fault: there is no such index.
NoIndex == TRUE

\* The unique index Shift_only_one_open_idx.
IndexAllows == OpenShifts = {}

\* The row is inserted, or the index rejects it.
CommitOpen(h) ==
  /\ tx[h].op = "open"
  /\ IF IndexAllows
       THEN \E s \in Shifts :
              /\ shifts[s].st = "absent"
              /\ \A t \in 1..(s - 1) : shifts[t].st # "absent"
              /\ shifts' = [shifts EXCEPT ![s].st = "open"]
       ELSE shifts' = shifts
  /\ tx' = [tx EXCEPT ![h] = Idle]
  /\ UNCHANGED <<orders, spent, lock>>

-----------------------------------------------------------------------------
(* The lock of a Shift row *)

\* A transaction in h is over.
Done(h) ==
  /\ tx' = [tx EXCEPT ![h] = Idle]
  /\ lock' = [s \in Shifts |-> IF lock[s] = h THEN Nobody ELSE lock[s]]

\* Fault: the row is read without FOR UPDATE.
NotLocked(s) == TRUE

\* No transaction holds the row.
Free(s) == lock[s] = Nobody

\* Fault: the status that was read before the wait is trusted.
StatusNotRead(s) == TRUE

\* The status of the row, read again under the lock.
StillOpen(s) == shifts[s].st = "open"

\* SELECT ... FOR UPDATE returns.  A collection and an expense see the row as it
\* is now; a closing fails if it was updated since its snapshot.
Lock(h) ==
  LET s == tx[h].s IN
  /\ tx[h].phase = "waiting"
  /\ Free(s)
  /\ StillOpen(s)
  /\ lock' = [lock EXCEPT ![s] = h]
  /\ tx' = [tx EXCEPT ![h].phase = "locked"]
  /\ UNCHANGED <<shifts, orders, spent>>

\* Whatever goes wrong in a handler, its transaction is rolled back.
Abort(h) ==
  /\ tx[h] # Idle
  /\ Done(h)
  /\ UNCHANGED <<shifts, orders, spent>>

-----------------------------------------------------------------------------
(* Orders *)

CreateOrder(o) ==
  /\ orders[o].st = "absent"
  /\ orders' = [orders EXCEPT ![o].st = "open"]
  /\ UNCHANGED <<shifts, spent, lock, tx>>

\* requireActiveShiftId finds the open shift.  The transaction has locked the
\* Order row before: no other one works on it.
BeginCollect(h, o) ==
  /\ tx[h] = Idle
  /\ orders[o].st = "open"
  /\ \A g \in Handlers : tx[g].o # o
  /\ \E s \in OpenShifts :
       tx' = [tx EXCEPT ![h] = [Idle EXCEPT !.op = "collect", !.phase = "waiting",
                                            !.s = s, !.o = o]]
  /\ UNCHANGED <<shifts, orders, spent, lock>>

CommitCollect(h) ==
  /\ tx[h].op = "collect" /\ tx[h].phase = "locked"
  /\ orders' = [orders EXCEPT ![tx[h].o] = [st |-> "paid", shift |-> tx[h].s]]
  /\ Done(h)
  /\ UNCHANGED <<shifts, spent>>

\* The cancellation of a paid order requires its shift to be open, and then
\* commits without a look at it.
BeginVoid(h, o) ==
  /\ tx[h] = Idle
  /\ orders[o].st = "paid" /\ shifts[orders[o].shift].st = "open"
  /\ \A g \in Handlers : tx[g].o # o
  /\ tx' = [tx EXCEPT ![h] = [Idle EXCEPT !.op = "void", !.phase = "read",
                                          !.o = o]]
  /\ UNCHANGED <<shifts, orders, spent, lock>>

CommitVoid(h) ==
  /\ tx[h].op = "void"
  /\ orders' = [orders EXCEPT ![tx[h].o].st = "cancelled"]
  /\ Done(h)
  /\ UNCHANGED <<shifts, spent>>

-----------------------------------------------------------------------------
(* Expenses *)

\* CashExpensesService.create: above the cap a PIN is needed; the policy may ask
\* for one in other cases.
BeginExpense(h, a, auth) ==
  /\ tx[h] = Idle
  /\ \E s \in OpenShifts :
       /\ (Cap > 0 /\ spent[s] + a > Cap) => auth
       /\ tx' = [tx EXCEPT ![h] = [Idle EXCEPT !.op = "expense",
                                     !.phase = "waiting", !.s = s,
                                     !.amount = a, !.auth = auth]]
  /\ UNCHANGED <<shifts, orders, spent, lock>>

\* Fault: the total that was read before the lock decides alone.
CapNotRead(s, a) == TRUE

\* The total of the shift, read again under the lock.
BelowCap(s, a) == Cap > 0 => spent[s] + a <= Cap

\* The bound on the total of a shift is not the program's.
CommitExpense(h) ==
  LET s == tx[h].s
      a == tx[h].amount
  IN
  /\ tx[h].op = "expense" /\ tx[h].phase = "locked"
  /\ tx[h].auth \/ BelowCap(s, a)
  /\ spent[s] + a <= MaxSpent
  /\ spent' = [spent EXCEPT ![s] = @ + a]
  /\ Done(h)
  /\ UNCHANGED <<shifts, orders>>

-----------------------------------------------------------------------------
(* Closing *)

\* The transaction begins by asking for the row; its snapshot is taken before it
\* gets it, at once or after a wait.
BeginClose(h, s, kind) ==
  /\ tx[h] = Idle
  /\ shifts[s].st = "open"
  /\ tx' = [tx EXCEPT ![h] =
              [Idle EXCEPT !.op = "close", !.s = s, !.kind = kind,
                 !.snap = Preview(s),
                 !.phase = IF Free(s) THEN "locked" ELSE "waiting",
                 !.waited = ~Free(s)]]
  /\ lock' = IF Free(s) THEN [lock EXCEPT ![s] = h] ELSE lock
  /\ UNCHANGED <<shifts, orders, spent>>

\* An end of day requires that no order is pending.
MayClose(h) == tx[h].kind = "endOfDay" => ~tx[h].snap.pending

CommitClose(h) ==
  LET s == tx[h].s IN
  /\ tx[h].op = "close" /\ tx[h].phase = "locked"
  /\ MayClose(h)
  /\ shifts' = [shifts EXCEPT ![s] = [st |-> "closed", sales |-> tx[h].snap.sales,
                                      expenses |-> tx[h].snap.expenses,
                                      kind |-> tx[h].kind]]
  /\ Done(h)
  /\ UNCHANGED <<orders, spent>>

-----------------------------------------------------------------------------
Init ==
  /\ shifts = [s \in Shifts |-> NoShift]
  /\ orders = [o \in Orders |-> [st |-> "absent", shift |-> 0]]
  /\ spent = [s \in Shifts |-> 0]
  /\ lock = [s \in Shifts |-> Nobody]
  /\ tx = [h \in Handlers |-> Idle]

Begin(h) ==
  \/ BeginOpen(h)
  \/ \E o \in Orders : BeginCollect(h, o) \/ BeginVoid(h, o)
  \/ \E a \in Amounts, auth \in BOOLEAN : BeginExpense(h, a, auth)
  \/ \E s \in Shifts, kind \in {"handover", "endOfDay"} : BeginClose(h, s, kind)

Commit(h) ==
  \/ CommitOpen(h) \/ CommitCollect(h) \/ CommitVoid(h)
  \/ CommitExpense(h) \/ CommitClose(h)

Next ==
  \/ \E o \in Orders : CreateOrder(o)
  \/ \E h \in Handlers : Begin(h) \/ Lock(h) \/ Commit(h) \/ Abort(h)

Spec == Init /\ [][Next]_vars

-----------------------------------------------------------------------------
(* Properties *)

\* There is never more than one open shift, although open reads before it
\* inserts.
OneOpenShift == Cardinality(OpenShifts) <= 1

\* What a closing froze stays frozen: no collection and no expense that was on
\* its way enters a closed shift.
ClosedShiftFrozen ==
  [][\A s \in Shifts :
       shifts[s].st = "closed" =>
         /\ Collected(s)' \subseteq Collected(s)
         /\ spent'[s] = spent[s]
         /\ shifts'[s] = shifts[s]]_vars

\* Without a PIN no expense takes the total of its shift over the cap, however
\* many are registered at the same time.
CapRespected ==
  [][\A h \in Handlers, s \in Shifts :
       (/\ Cap > 0 /\ spent'[s] # spent[s]
        /\ tx[h].op = "expense" /\ tx'[h] = Idle /\ ~tx[h].auth)
         => spent'[s] <= Cap]_vars

\* The closing of s by h records every collection and the expenses.
Complete(s) ==
  /\ shifts'[s].sales >= Cardinality(Collected(s))
  /\ shifts'[s].expenses = spent[s]

\* A closing that did not have to wait for the row misses no collection and no
\* expense of the shift: the row is locked by each of them until it commits.
PromptCloseComplete ==
  [][\A h \in Handlers, s \in Shifts :
       (/\ shifts[s].st = "open" /\ shifts'[s].st = "closed"
        /\ tx[h].op = "close" /\ tx'[h] = Idle /\ ~tx[h].waited)
         => Complete(s)]_vars

\* "A paid order belongs to the shift that actually collected it": the totals
\* of a closing cover what the shift collected.
CloseComplete ==
  [][\A s \in Shifts :
       (shifts[s].st = "open" /\ shifts'[s].st = "closed") => Complete(s)]_vars
=============================================================================
