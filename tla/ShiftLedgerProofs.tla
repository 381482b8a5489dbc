---------------------------- MODULE ShiftLedgerProofs ----------------------------
(***************************************************************************)
(* Theorems about ShiftLedger that hold for every number of orders,        *)
(* handlers and shifts, for every cap and for all amounts.                 *)
(***************************************************************************)
EXTENDS ShiftLedger, FiniteSetTheorems, TLAPS

-----------------------------------------------------------------------------
(* The inductive invariant *)

\* What a handler in flight always is: one that has asked for the row of a shift, and no
\* other, waits for it or has it; one that works on an order has one.
FormedHandler(r) ==
  /\ r.phase \in {"waiting", "locked"} => r.op \in {"collect", "expense", "close"}
  /\ r.op \in {"collect", "expense", "close"} =>
       r.phase \in {"waiting", "locked"} /\ r.s \in Shifts
  /\ r.op \in {"collect", "void"} => r.o \in Orders

WellFormed == \A h \in Handlers : FormedHandler(tx[h])

\* A transaction that is past its wait holds the row, and no other row.
LockHeld ==
  \A h \in Handlers, s \in Shifts :
    lock[s] = h <=> tx[h].phase = "locked" /\ tx[h].s = s

\* Whoever holds the row of a shift has seen it open, and nobody else closes it.
LockedOpen ==
  \A h \in Handlers : tx[h].phase = "locked" => shifts[tx[h].s].st = "open"

SoleOpen ==
  \A s, t \in Shifts : (shifts[s].st = "open" /\ shifts[t].st = "open") => s = t

\* The snapshot of a closing that got the row at once still covers the shift: what was
\* collected since then is nothing, and some of it may have been cancelled.
SnapshotCovers(h) ==
  (tx[h].op = "close" /\ ~tx[h].waited) =>
    /\ tx[h].phase = "locked"
    /\ Cardinality(Collected(tx[h].s)) <= tx[h].snap.sales
    /\ spent[tx[h].s] = tx[h].snap.expenses

PromptSnapshots == \A h \in Handlers : SnapshotCovers(h)

LedgerInv ==
  TypeOK /\ WellFormed /\ LockHeld /\ LockedOpen /\ SoleOpen /\ PromptSnapshots

-----------------------------------------------------------------------------
(* Facts that the steps share *)

LEMMA IdleTyped == Idle \in Handler /\ FormedHandler(Idle) /\ Idle.op = "idle"
                   /\ Idle.phase = "idle"
  BY DEF Idle, Handler, FormedHandler

LEMMA CollectedFinite ==
  \A s : IsFiniteSet(Collected(s)) /\ Cardinality(Collected(s)) \in Nat
<1>1. IsFiniteSet(Orders)
  BY LedgerAssumption
<1>2. \A s : Collected(s) \in SUBSET Orders
  BY DEF Collected
<1> QED
  BY <1>1, <1>2, FS_Subset, FS_CardinalityType

\* Cancellations make what a shift collected less.
LEMMA CollectedShrinks ==
  ASSUME NEW s, Collected(s)' \subseteq Collected(s)
  PROVE  Cardinality(Collected(s)') <= Cardinality(Collected(s))
         /\ Cardinality(Collected(s)') \in Nat
<1>1. IsFiniteSet(Collected(s))
  BY CollectedFinite
<1>2. IsFiniteSet(Collected(s)') /\ Cardinality(Collected(s)') <= Cardinality(Collected(s))
  BY <1>1, FS_Subset
<1> QED
  BY <1>2, FS_CardinalityType

LEMMA PreviewTyped ==
  ASSUME TypeOK, NEW s \in Shifts
  PROVE  /\ Preview(s) \in [sales: Nat, expenses: Nat, pending: BOOLEAN]
         /\ Preview(s).sales = Cardinality(Collected(s)) /\ Preview(s).expenses = spent[s]
<1>1. Cardinality(Collected(s)) \in Nat /\ spent[s] \in Nat
  BY CollectedFinite, LedgerAssumption DEF TypeOK
<1>2. (Pending # {}) \in BOOLEAN
  OBVIOUS
<1> QED
  BY <1>1, <1>2 DEF Preview

\* A handler goes on, the rows stay as they are.
LEMMA BeginLemma ==
  ASSUME LedgerInv, NEW h \in Handlers, tx[h] = Idle,
         NEW next \in Handler, FormedHandler(next), next.phase # "locked",
         next.op = "close" => next.waited,
         tx' = [tx EXCEPT ![h] = next], UNCHANGED <<shifts, orders, spent, lock>>
  PROVE  LedgerInv'
<1>1. \A g \in Handlers : tx'[g] = IF g = h THEN next ELSE tx[g]
  BY DEF LedgerInv, TypeOK
<1>2. TypeOK'
  BY DEF LedgerInv, TypeOK
<1>3. WellFormed'
  BY <1>1 DEF LedgerInv, WellFormed
<1>4. LockHeld'
  BY <1>1, IdleTyped DEF LedgerInv, LockHeld
<1>5. LockedOpen' /\ SoleOpen'
  BY <1>1 DEF LedgerInv, LockedOpen, SoleOpen
<1>6. PromptSnapshots'
  <2>1. \A s : Collected(s)' = Collected(s)
    BY DEF Collected
  <2> QED
    BY <1>1, <2>1 DEF LedgerInv, PromptSnapshots, SnapshotCovers
<1> QED
  BY <1>2, <1>3, <1>4, <1>5, <1>6 DEF LedgerInv

\* A transaction ends: it holds nothing any more, the others what they held.
LEMMA DoneLemma ==
  ASSUME LedgerInv, NEW h \in Handlers, Done(h)
  PROVE  /\ tx' \in [Handlers -> Handler] /\ lock' \in [Shifts -> Handlers \cup {Nobody}]
         /\ WellFormed' /\ LockHeld'
         /\ \A g \in Handlers : tx'[g] = IF g = h THEN Idle ELSE tx[g]
<1>1. \A g \in Handlers : tx'[g] = IF g = h THEN Idle ELSE tx[g]
  BY DEF LedgerInv, TypeOK, Done
<1>2. \A s \in Shifts : lock'[s] = IF lock[s] = h THEN Nobody ELSE lock[s]
  BY DEF Done
<1>3. tx' \in [Handlers -> Handler] /\ lock' \in [Shifts -> Handlers \cup {Nobody}]
  BY IdleTyped DEF LedgerInv, TypeOK, Done
<1>4. WellFormed'
  BY <1>1, IdleTyped DEF LedgerInv, WellFormed
<1>5. LockHeld'
  BY <1>1, <1>2, IdleTyped, LedgerAssumption DEF LedgerInv, LockHeld
<1> QED
  BY <1>1, <1>3, <1>4, <1>5

-----------------------------------------------------------------------------
(* Each action keeps the invariant *)

LEMMA InitLedger == Init => LedgerInv
<1> SUFFICES ASSUME Init PROVE LedgerInv
  OBVIOUS
<1>1. TypeOK
  <2>1. NoShift \in ShiftRow
    BY DEF NoShift, ShiftRow
  <2>2. [st |-> "absent", shift |-> 0] \in OrderRow
    BY DEF OrderRow
  <2>3. 0 \in 0..MaxSpent
    BY LedgerAssumption
  <2> QED
    BY <2>1, <2>2, <2>3, IdleTyped DEF Init, TypeOK
<1>2. WellFormed /\ PromptSnapshots /\ LockedOpen
  BY IdleTyped DEF Init, WellFormed, PromptSnapshots, SnapshotCovers, LockedOpen
<1>3. LockHeld
  BY IdleTyped, LedgerAssumption DEF Init, LockHeld
<1>4. SoleOpen
  BY DEF Init, SoleOpen, NoShift
<1> QED
  BY <1>1, <1>2, <1>3, <1>4 DEF LedgerInv

LEMMA BeginOpenKeeps ==
  ASSUME LedgerInv, NEW h \in Handlers, BeginOpen(h)
  PROVE  LedgerInv'
<1> DEFINE next == [Idle EXCEPT !.op = "open", !.phase = "read"]
<1>1. next \in Handler /\ FormedHandler(next) /\ next.phase = "read" /\ next.op = "open"
  BY DEF Idle, Handler, FormedHandler
<1>2. tx' = [tx EXCEPT ![h] = next]
  BY DEF BeginOpen
<1> HIDE DEF next
<1> QED
  BY <1>1, <1>2, BeginLemma DEF BeginOpen

LEMMA BeginCollectKeeps ==
  ASSUME LedgerInv, NEW h \in Handlers, NEW o \in Orders, BeginCollect(h, o)
  PROVE  LedgerInv'
<1>1. PICK s \in OpenShifts :
        tx' = [tx EXCEPT ![h] = [Idle EXCEPT !.op = "collect", !.phase = "waiting",
                                             !.s = s, !.o = o]]
  BY DEF BeginCollect
<1> DEFINE next == [Idle EXCEPT !.op = "collect", !.phase = "waiting", !.s = s, !.o = o]
<1>2. s \in Shifts
  BY DEF OpenShifts
<1>3. next \in Handler /\ FormedHandler(next) /\ next.phase = "waiting"
      /\ next.op = "collect"
  BY <1>2 DEF Idle, Handler, FormedHandler
<1>4. tx' = [tx EXCEPT ![h] = next]
  BY <1>1
<1> HIDE DEF next
<1> QED
  BY <1>3, <1>4, BeginLemma DEF BeginCollect

LEMMA BeginVoidKeeps ==
  ASSUME LedgerInv, NEW h \in Handlers, NEW o \in Orders, BeginVoid(h, o)
  PROVE  LedgerInv'
<1> DEFINE next == [Idle EXCEPT !.op = "void", !.phase = "read", !.o = o]
<1>1. next \in Handler /\ FormedHandler(next) /\ next.phase = "read" /\ next.op = "void"
  BY DEF Idle, Handler, FormedHandler
<1>2. tx' = [tx EXCEPT ![h] = next]
  BY DEF BeginVoid
<1> HIDE DEF next
<1> QED
  BY <1>1, <1>2, BeginLemma DEF BeginVoid

LEMMA BeginExpenseKeeps ==
  ASSUME LedgerInv, NEW h \in Handlers, NEW a \in Amounts, NEW auth \in BOOLEAN,
         BeginExpense(h, a, auth)
  PROVE  LedgerInv'
<1>1. PICK s \in OpenShifts :
        tx' = [tx EXCEPT ![h] = [Idle EXCEPT !.op = "expense", !.phase = "waiting",
                                             !.s = s, !.amount = a, !.auth = auth]]
  BY DEF BeginExpense
<1> DEFINE next == [Idle EXCEPT !.op = "expense", !.phase = "waiting", !.s = s,
                                !.amount = a, !.auth = auth]
<1>2. s \in Shifts /\ a \in Nat
  BY LedgerAssumption DEF OpenShifts
<1>3. next \in Handler /\ FormedHandler(next) /\ next.phase = "waiting"
      /\ next.op = "expense"
  BY <1>2 DEF Idle, Handler, FormedHandler
<1>4. tx' = [tx EXCEPT ![h] = next]
  BY <1>1
<1> HIDE DEF next
<1> QED
  BY <1>3, <1>4, BeginLemma DEF BeginExpense

\* A closing that finds the row free has it with its snapshot; one that does not waits.
LEMMA BeginCloseKeeps ==
  ASSUME LedgerInv, NEW h \in Handlers, NEW s \in Shifts,
         NEW kind \in {"handover", "endOfDay"}, BeginClose(h, s, kind)
  PROVE  LedgerInv'
<1> DEFINE phase == IF Free(s) THEN "locked" ELSE "waiting"
           waited == ~Free(s)
           snap == Preview(s)
           next == [Idle EXCEPT !.op = "close", !.s = s, !.kind = kind, !.snap = snap,
                                !.phase = phase, !.waited = waited]
<1>1. phase \in {"waiting", "locked"} /\ waited \in BOOLEAN
  BY DEF Free
<1>2. snap \in [sales: Nat, expenses: Nat, pending: BOOLEAN]
      /\ snap.sales = Cardinality(Collected(s)) /\ snap.expenses = spent[s]
  BY PreviewTyped DEF LedgerInv
<1>3. next \in Handler /\ FormedHandler(next)
  <2> HIDE DEF phase, waited, snap
  <2>1. next \in Handler
    BY <1>1, <1>2 DEF Handler, Idle
  <2>2. next.op = "close" /\ next.phase = phase /\ next.s = s
    BY DEF Idle
  <2> HIDE DEF next
  <2> QED
    BY <1>1, <2>1, <2>2 DEF FormedHandler
<1>4. next.op = "close" /\ next.s = s /\ next.snap = snap /\ next.phase = phase
      /\ next.waited = waited
  <2> HIDE DEF phase, waited, snap
  <2> QED
    BY DEF Idle
<1>5. tx' = [tx EXCEPT ![h] = next]
  BY DEF BeginClose
<1> HIDE DEF next, snap
<1>6. CASE ~Free(s)
  <2>1. lock' = lock /\ next.phase # "locked" /\ next.waited
    BY <1>4, <1>6 DEF BeginClose
  <2> QED
    BY <1>3, <1>5, <2>1, BeginLemma DEF BeginClose
<1>7. CASE Free(s)
  <2>1. next.phase = "locked" /\ ~next.waited /\ lock' = [lock EXCEPT ![s] = h]
    BY <1>4, <1>7 DEF BeginClose
  <2>2. \A g \in Handlers : tx'[g] = IF g = h THEN next ELSE tx[g]
    BY <1>5 DEF LedgerInv, TypeOK
  <2>3. \A t \in Shifts : lock'[t] = IF t = s THEN h ELSE lock[t]
    BY <2>1 DEF LedgerInv, TypeOK
  <2>4. UNCHANGED <<shifts, orders, spent>> /\ tx[h] = Idle /\ shifts[s].st = "open"
    BY DEF BeginClose
  <2>5. TypeOK'
    BY <1>3, <1>5, <2>1, <2>4 DEF LedgerInv, TypeOK
  <2>6. WellFormed'
    BY <1>3, <2>2 DEF LedgerInv, WellFormed
  <2>7. LockHeld'
    BY <1>4, <1>7, <2>1, <2>2, <2>3, <2>4, IdleTyped, LedgerAssumption
       DEF LedgerInv, LockHeld, Free
  <2>8. LockedOpen' /\ SoleOpen'
    BY <1>4, <2>2, <2>4 DEF LedgerInv, LockedOpen, SoleOpen
  <2>9. PromptSnapshots'
    <3>1. \A t : Collected(t)' = Collected(t)
      BY <2>4 DEF Collected
    <3>2. SnapshotCovers(h)'
      <4>1. Cardinality(Collected(s)) <= Cardinality(Collected(s))
        BY CollectedFinite
      <4> QED
        BY <1>2, <1>4, <2>1, <2>2, <2>4, <3>1, <4>1 DEF SnapshotCovers
    <3>3. \A g \in Handlers : g # h => SnapshotCovers(g)'
      BY <2>2, <2>4, <3>1 DEF LedgerInv, PromptSnapshots, SnapshotCovers
    <3> QED
      BY <3>2, <3>3 DEF PromptSnapshots
  <2> QED
    BY <2>5, <2>6, <2>7, <2>8, <2>9 DEF LedgerInv
<1> QED
  BY <1>6, <1>7

\* The row is free and its shift still open when a waiting transaction gets it; a closing
\* that waited has been marked as such.
LEMMA LockKeeps ==
  ASSUME LedgerInv, NEW h \in Handlers, Lock(h)
  PROVE  LedgerInv'
<1> DEFINE s == tx[h].s
<1>1. tx[h] \in Handler /\ FormedHandler(tx[h]) /\ tx[h].phase = "waiting"
  BY DEF LedgerInv, TypeOK, WellFormed, Lock
<1>2. s \in Shifts
  BY <1>1 DEF FormedHandler
<1>3. /\ lock[s] = Nobody /\ shifts[s].st = "open"
      /\ lock' = [lock EXCEPT ![s] = h]
      /\ tx' = [tx EXCEPT ![h].phase = "locked"]
      /\ UNCHANGED <<shifts, orders, spent>>
  BY DEF Lock, Free, StillOpen
<1> DEFINE next == [tx[h] EXCEPT !.phase = "locked"]
<1>4. /\ next \in Handler /\ next.phase = "locked" /\ next.s = s /\ next.op = tx[h].op
      /\ next.o = tx[h].o /\ next.snap = tx[h].snap /\ next.waited = tx[h].waited
  BY <1>1 DEF Handler
<1>5. \A g \in Handlers : tx'[g] = IF g = h THEN next ELSE tx[g]
  BY <1>3 DEF LedgerInv, TypeOK
<1>6. \A t \in Shifts : lock'[t] = IF t = s THEN h ELSE lock[t]
  BY <1>3 DEF LedgerInv, TypeOK
<1>7. TypeOK'
  <2>1. tx' \in [Handlers -> Handler]
    BY <1>3, <1>4 DEF LedgerInv, TypeOK
  <2> QED
    BY <1>3, <2>1 DEF LedgerInv, TypeOK
<1> HIDE DEF next, s
<1>8. WellFormed'
  <2>1. FormedHandler(next)
    BY <1>1, <1>2, <1>4 DEF FormedHandler
  <2> QED
    BY <1>5, <2>1 DEF LedgerInv, WellFormed
<1>9. LockHeld'
  <2>1. \A g \in Handlers : ~(tx[g].phase = "locked" /\ tx[g].s = s)
    BY <1>2, <1>3, LedgerAssumption DEF LedgerInv, LockHeld
  <2>2. \A t \in Shifts : lock[t] # h
    BY <1>1 DEF LedgerInv, LockHeld
  <2> QED
    BY <1>2, <1>4, <1>5, <1>6, <2>1, <2>2 DEF LedgerInv, LockHeld
<1>10. LockedOpen' /\ SoleOpen'
  <2>1. LockedOpen'
    BY <1>3, <1>4, <1>5 DEF LedgerInv, LockedOpen
  <2> QED
    BY <1>3, <2>1 DEF LedgerInv, SoleOpen
<1>11. PromptSnapshots'
  <2>1. \A t : Collected(t)' = Collected(t)
    BY <1>3 DEF Collected
  <2>2. \A g \in Handlers : g # h => SnapshotCovers(g)'
    BY <1>3, <1>5, <2>1 DEF LedgerInv, PromptSnapshots, SnapshotCovers
  <2>3. next.op = "close" => next.waited
    BY <1>1, <1>4 DEF LedgerInv, PromptSnapshots, SnapshotCovers
  <2>4. SnapshotCovers(h)'
    BY <1>5, <2>3 DEF SnapshotCovers
  <2> QED
    BY <2>2, <2>4 DEF PromptSnapshots
<1> QED
  BY <1>7, <1>8, <1>9, <1>10, <1>11 DEF LedgerInv

\* A step leaves shift s open, its expenses as they are, and adds nothing to its sales.
Untouched(s) ==
  /\ shifts'[s].st = "open"
  /\ Collected(s)' \subseteq Collected(s)
  /\ spent'[s] = spent[s]

\* A transaction ends and the rows it wrote are typed: what is left to show is what those
\* rows are to the others.
LEMMA EndLemma ==
  ASSUME LedgerInv, NEW h \in Handlers, Done(h),
         shifts' \in [Shifts -> ShiftRow], orders' \in [Orders -> OrderRow],
         spent' \in [Shifts -> 0..MaxSpent],
         SoleOpen',
         \A g \in Handlers, s \in Shifts :
           (g # h /\ tx[g].phase = "locked" /\ tx[g].s = s) => Untouched(s)
  PROVE  LedgerInv'
<1>1. /\ tx' \in [Handlers -> Handler] /\ lock' \in [Shifts -> Handlers \cup {Nobody}]
      /\ WellFormed' /\ LockHeld'
      /\ \A g \in Handlers : tx'[g] = IF g = h THEN Idle ELSE tx[g]
  BY DoneLemma
<1>2. TypeOK'
  BY <1>1 DEF TypeOK
<1>3. \A g \in Handlers : tx[g].phase = "locked" => tx[g].s \in Shifts
  BY DEF LedgerInv, WellFormed, FormedHandler
<1>4. LockedOpen'
  BY <1>1, <1>3, IdleTyped DEF LockedOpen, Untouched
<1>5. ASSUME NEW g \in Handlers PROVE SnapshotCovers(g)'
  <2>1. CASE g = h
    BY <1>1, <2>1, IdleTyped DEF SnapshotCovers
  <2>2. CASE g # h
    <3>1. tx'[g] = tx[g]
      BY <1>1, <2>2
    <3>2. SUFFICES ASSUME tx[g].op = "close", ~tx[g].waited, NEW s, s = tx[g].s
                   PROVE  /\ tx[g].phase = "locked"
                          /\ Cardinality(Collected(s)') <= tx[g].snap.sales
                          /\ spent'[s] = tx[g].snap.expenses
      BY <3>1 DEF SnapshotCovers
    <3>3. /\ tx[g].phase = "locked"
          /\ Cardinality(Collected(s)) <= tx[g].snap.sales
          /\ spent[s] = tx[g].snap.expenses
      BY <3>2 DEF LedgerInv, PromptSnapshots, SnapshotCovers
    <3>4. Untouched(s)
      BY <1>3, <2>2, <3>2, <3>3
    <3>5. Cardinality(Collected(s)') <= Cardinality(Collected(s))
          /\ Cardinality(Collected(s)') \in Nat
      BY <3>4, CollectedShrinks DEF Untouched
    <3>6. tx[g].snap.sales \in Nat /\ Cardinality(Collected(s)) \in Nat
      BY CollectedFinite DEF LedgerInv, TypeOK, Handler
    <3> QED
      BY <3>3, <3>4, <3>5, <3>6 DEF Untouched
  <2> QED
    BY <2>1, <2>2
<1> QED
  BY <1>1, <1>2, <1>4, <1>5 DEF LedgerInv, PromptSnapshots

\* No two transactions hold the row of one shift.
LEMMA LockExcludes ==
  ASSUME LedgerInv, NEW g \in Handlers, NEW h \in Handlers, g # h,
         tx[g].phase = "locked", tx[h].phase = "locked"
  PROVE  tx[g].s # tx[h].s /\ tx[g].s \in Shifts /\ tx[h].s \in Shifts
<1>1. tx[g].s \in Shifts /\ tx[h].s \in Shifts
  BY DEF LedgerInv, WellFormed, FormedHandler
<1> QED
  BY <1>1 DEF LedgerInv, LockHeld

LEMMA AbortKeeps ==
  ASSUME LedgerInv, NEW h \in Handlers, Done(h), UNCHANGED <<shifts, orders, spent>>
  PROVE  LedgerInv'
<1>1. \A s : Collected(s)' = Collected(s)
  BY DEF Collected
<1>2. shifts \in [Shifts -> ShiftRow] /\ orders \in [Orders -> OrderRow]
      /\ spent \in [Shifts -> 0..MaxSpent] /\ SoleOpen /\ LockedOpen
  BY DEF LedgerInv, TypeOK
<1>3. SoleOpen'
  BY <1>2 DEF SoleOpen
<1>4. \A g \in Handlers, s \in Shifts :
        (g # h /\ tx[g].phase = "locked" /\ tx[g].s = s) => Untouched(s)
  BY <1>1, <1>2 DEF Untouched, LockedOpen
<1> QED
  BY <1>2, <1>3, <1>4, EndLemma

\* Only the shift whose row h has may have more collected than before.
LEMMA CommitCollectKeeps ==
  ASSUME LedgerInv, NEW h \in Handlers, CommitCollect(h)
  PROVE  LedgerInv'
<1> DEFINE s == tx[h].s
           o == tx[h].o
<1>1. tx[h].phase = "locked" /\ s \in Shifts /\ o \in Orders
  BY DEF LedgerInv, WellFormed, FormedHandler, CommitCollect
<1>2. orders' = [orders EXCEPT ![o] = [st |-> "paid", shift |-> s]]
      /\ UNCHANGED <<shifts, spent>> /\ Done(h)
  BY DEF CommitCollect
<1>3. orders \in [Orders -> OrderRow]
  BY DEF LedgerInv, TypeOK
<1>4. orders' \in [Orders -> OrderRow]
  BY <1>1, <1>2, <1>3 DEF OrderRow
<1>5. \A p \in Orders : orders'[p] = IF p = o THEN [st |-> "paid", shift |-> s] ELSE orders[p]
  BY <1>2, <1>3
<1>6. \A t : t # s => Collected(t)' \subseteq Collected(t)
  BY <1>5 DEF Collected
<1>7. \A g \in Handlers : (g # h /\ tx[g].phase = "locked") => tx[g].s # s
  BY <1>1, LockExcludes
<1>8. shifts \in [Shifts -> ShiftRow] /\ spent \in [Shifts -> 0..MaxSpent] /\ SoleOpen
      /\ LockedOpen
  BY DEF LedgerInv, TypeOK
<1> HIDE DEF s, o
<1>9. SoleOpen'
  BY <1>2, <1>8 DEF SoleOpen
<1>10. \A g \in Handlers, t \in Shifts :
        (g # h /\ tx[g].phase = "locked" /\ tx[g].s = t) => Untouched(t)
  BY <1>2, <1>6, <1>7, <1>8 DEF Untouched, LockedOpen
<1> QED
  BY <1>2, <1>4, <1>8, <1>9, <1>10, EndLemma

LEMMA CommitVoidKeeps ==
  ASSUME LedgerInv, NEW h \in Handlers, CommitVoid(h)
  PROVE  LedgerInv'
<1> DEFINE o == tx[h].o
<1>1. orders' = [orders EXCEPT ![o].st = "cancelled"] /\ UNCHANGED <<shifts, spent>>
      /\ Done(h)
  BY DEF CommitVoid
<1>2. orders \in [Orders -> OrderRow] /\ o \in Orders
  BY DEF LedgerInv, TypeOK, WellFormed, FormedHandler, CommitVoid
<1>3. orders' \in [Orders -> OrderRow]
  BY <1>1, <1>2 DEF OrderRow
<1>4. \A p \in Orders :
        orders'[p] = IF p = o THEN [orders[p] EXCEPT !.st = "cancelled"] ELSE orders[p]
  BY <1>1, <1>2
<1>5. \A p \in Orders : orders'[p].st = "paid" => orders'[p] = orders[p]
  BY <1>2, <1>4 DEF OrderRow
<1>6. \A t : Collected(t)' \subseteq Collected(t)
  BY <1>5 DEF Collected
<1>7. shifts \in [Shifts -> ShiftRow] /\ spent \in [Shifts -> 0..MaxSpent] /\ SoleOpen
      /\ LockedOpen
  BY DEF LedgerInv, TypeOK
<1> HIDE DEF o
<1>8. SoleOpen'
  BY <1>1, <1>7 DEF SoleOpen
<1>9. \A g \in Handlers, t \in Shifts :
        (g # h /\ tx[g].phase = "locked" /\ tx[g].s = t) => Untouched(t)
  BY <1>1, <1>6, <1>7 DEF Untouched, LockedOpen
<1> QED
  BY <1>1, <1>3, <1>7, <1>8, <1>9, EndLemma

\* The expenses of the shift whose row h has grow, and of no other.
LEMMA CommitExpenseKeeps ==
  ASSUME LedgerInv, NEW h \in Handlers, CommitExpense(h)
  PROVE  LedgerInv'
<1> DEFINE s == tx[h].s
           a == tx[h].amount
<1>1. tx[h].phase = "locked" /\ s \in Shifts /\ a \in Nat
  BY DEF LedgerInv, TypeOK, Handler, WellFormed, FormedHandler, CommitExpense
<1>2. spent' = [spent EXCEPT ![s] = @ + a] /\ spent[s] + a <= MaxSpent
      /\ UNCHANGED <<shifts, orders>> /\ Done(h)
  BY DEF CommitExpense
<1>3. spent \in [Shifts -> 0..MaxSpent]
  BY DEF LedgerInv, TypeOK
<1> HIDE DEF s, a
<1>4. spent[s] + a \in 0..MaxSpent
  BY <1>1, <1>2, <1>3, LedgerAssumption
<1>5. spent' \in [Shifts -> 0..MaxSpent]
  BY <1>1, <1>2, <1>3, <1>4
<1>6. \A t \in Shifts : t # s => spent'[t] = spent[t]
  BY <1>2, <1>3
<1>7. \A t : Collected(t)' = Collected(t)
  BY <1>2 DEF Collected
<1>8. \A g \in Handlers : (g # h /\ tx[g].phase = "locked") => tx[g].s # s /\ tx[g].s \in Shifts
  BY <1>1, LockExcludes DEF s
<1>9. shifts \in [Shifts -> ShiftRow] /\ orders \in [Orders -> OrderRow] /\ SoleOpen
      /\ LockedOpen
  BY DEF LedgerInv, TypeOK
<1>10. SoleOpen'
  BY <1>2, <1>9 DEF SoleOpen
<1>11. \A g \in Handlers, t \in Shifts :
        (g # h /\ tx[g].phase = "locked" /\ tx[g].s = t) => Untouched(t)
  BY <1>2, <1>6, <1>7, <1>8, <1>9 DEF Untouched, LockedOpen
<1> QED
  BY <1>2, <1>5, <1>9, <1>10, <1>11, EndLemma

\* The shift whose row h has is closed, which nobody else has.
LEMMA CommitCloseKeeps ==
  ASSUME LedgerInv, NEW h \in Handlers, CommitClose(h)
  PROVE  LedgerInv'
<1> DEFINE s == tx[h].s
           row == [st |-> "closed", sales |-> tx[h].snap.sales,
                   expenses |-> tx[h].snap.expenses, kind |-> tx[h].kind]
<1>1. tx[h].phase = "locked" /\ s \in Shifts /\ row \in ShiftRow /\ row.st = "closed"
  BY DEF LedgerInv, TypeOK, Handler, WellFormed, FormedHandler, CommitClose, ShiftRow
<1>2. shifts' = [shifts EXCEPT ![s] = row] /\ UNCHANGED <<orders, spent>> /\ Done(h)
  BY DEF CommitClose
<1>3. shifts \in [Shifts -> ShiftRow] /\ orders \in [Orders -> OrderRow]
      /\ spent \in [Shifts -> 0..MaxSpent] /\ SoleOpen /\ LockedOpen
  BY DEF LedgerInv, TypeOK
<1>4. \A g \in Handlers : (g # h /\ tx[g].phase = "locked") => tx[g].s # s /\ tx[g].s \in Shifts
  BY <1>1, LockExcludes DEF s
<1> HIDE DEF s, row
<1>5. shifts' \in [Shifts -> ShiftRow]
      /\ \A t \in Shifts : shifts'[t] = IF t = s THEN row ELSE shifts[t]
  BY <1>1, <1>2, <1>3
<1>6. \A t : Collected(t)' = Collected(t)
  BY <1>2 DEF Collected
<1>7. SoleOpen'
  BY <1>1, <1>3, <1>5 DEF SoleOpen
<1>8. \A g \in Handlers, t \in Shifts :
        (g # h /\ tx[g].phase = "locked" /\ tx[g].s = t) => Untouched(t)
  BY <1>2, <1>3, <1>4, <1>5, <1>6 DEF Untouched, LockedOpen
<1> QED
  BY <1>2, <1>3, <1>5, <1>7, <1>8, EndLemma

LEMMA CreateOrderKeeps ==
  ASSUME LedgerInv, NEW o \in Orders, CreateOrder(o)
  PROVE  LedgerInv'
<1>1. orders' = [orders EXCEPT ![o].st = "open"] /\ UNCHANGED <<shifts, spent, lock, tx>>
  BY DEF CreateOrder
<1>2. orders \in [Orders -> OrderRow]
  BY DEF LedgerInv, TypeOK
<1>3. orders' \in [Orders -> OrderRow]
  BY <1>1, <1>2 DEF OrderRow
<1>4. \A p \in Orders :
        orders'[p] = IF p = o THEN [orders[p] EXCEPT !.st = "open"] ELSE orders[p]
  BY <1>1, <1>2
<1>5. \A p \in Orders : orders'[p].st = "paid" => orders'[p] = orders[p]
  BY <1>2, <1>4 DEF OrderRow
<1>6. \A t : Collected(t)' \subseteq Collected(t)
  BY <1>5 DEF Collected
<1>7. TypeOK' /\ WellFormed' /\ LockHeld' /\ LockedOpen' /\ SoleOpen'
  BY <1>1, <1>3 DEF LedgerInv, TypeOK, WellFormed, LockHeld, LockedOpen, SoleOpen
<1>8. ASSUME NEW g \in Handlers, NEW s, s = tx[g].s, SnapshotCovers(g)
      PROVE  SnapshotCovers(g)'
  <2>1. Cardinality(Collected(s)') <= Cardinality(Collected(s))
        /\ Cardinality(Collected(s)') \in Nat /\ Cardinality(Collected(s)) \in Nat
    BY <1>6, CollectedShrinks, CollectedFinite
  <2>2. tx[g].snap.sales \in Nat
    BY DEF LedgerInv, TypeOK, Handler
  <2>3. (tx[g].op = "close" /\ ~tx[g].waited) =>
          Cardinality(Collected(s)) <= tx[g].snap.sales
    BY <1>8 DEF SnapshotCovers
  <2>4. (tx[g].op = "close" /\ ~tx[g].waited) =>
          Cardinality(Collected(s)') <= tx[g].snap.sales
    BY <2>1, <2>2, <2>3
  <2> QED
    BY <1>1, <1>8, <2>4 DEF SnapshotCovers
<1>9. PromptSnapshots'
  BY <1>8 DEF LedgerInv, PromptSnapshots
<1> QED
  BY <1>7, <1>9 DEF LedgerInv

\* The row is inserted only when no shift is open.
LEMMA CommitOpenKeeps ==
  ASSUME LedgerInv, NEW h \in Handlers, CommitOpen(h)
  PROVE  LedgerInv'
<1>1. tx[h].op = "open" /\ tx' = [tx EXCEPT ![h] = Idle] /\ UNCHANGED <<orders, spent, lock>>
  BY DEF CommitOpen
<1>2. tx[h].phase # "locked"
  BY <1>1 DEF LedgerInv, WellFormed, FormedHandler
<1>3. /\ shifts \in [Shifts -> ShiftRow] /\ tx \in [Handlers -> Handler]
      /\ lock \in [Shifts -> Handlers \cup {Nobody}]
  BY DEF LedgerInv, TypeOK
<1>4. Done(h)
  <2>1. \A s \in Shifts : lock[s] # h
    BY <1>2 DEF LedgerInv, LockHeld
  <2>2. lock = [s \in Shifts |-> lock[s]]
    BY <1>3
  <2>3. lock = [s \in Shifts |-> IF lock[s] = h THEN Nobody ELSE lock[s]]
    BY <2>1, <2>2
  <2> QED
    BY <1>1, <2>3 DEF Done
<1>5. CASE shifts' = shifts
  BY <1>1, <1>4, <1>5, AbortKeeps
<1>6. CASE IndexAllows /\ shifts' # shifts
  <2>1. PICK s \in Shifts : shifts[s].st = "absent"
                            /\ shifts' = [shifts EXCEPT ![s].st = "open"]
    BY <1>6 DEF CommitOpen
  <2>2. \A t \in Shifts : shifts[t].st # "open"
    BY <1>6 DEF IndexAllows, OpenShifts
  <2>3. shifts' \in [Shifts -> ShiftRow]
    BY <1>3, <2>1 DEF ShiftRow
  <2>4. \A t \in Shifts :
          shifts'[t] = IF t = s THEN [shifts[t] EXCEPT !.st = "open"] ELSE shifts[t]
    BY <1>3, <2>1
  <2>5. SoleOpen'
    BY <2>2, <2>4 DEF SoleOpen
  <2>6. \A g \in Handlers : tx[g].phase # "locked"
    BY <2>2 DEF LedgerInv, LockedOpen, WellFormed, FormedHandler
  <2>7. orders' \in [Orders -> OrderRow] /\ spent' \in [Shifts -> 0..MaxSpent]
    BY <1>1 DEF LedgerInv, TypeOK
  <2> QED
    BY <1>4, <2>3, <2>5, <2>6, <2>7, EndLemma
<1> QED
  BY <1>5, <1>6 DEF CommitOpen

\* Every step is one of the actions, whose parameters are in their sets.
LEMMA StepKeeps == LedgerInv /\ [Next]_vars => LedgerInv'
<1> SUFFICES ASSUME LedgerInv, [Next]_vars PROVE LedgerInv'
  OBVIOUS
<1>1. CASE UNCHANGED vars
  <2>1. \A s : Collected(s)' = Collected(s)
    BY <1>1 DEF Collected, vars
  <2> QED
    BY <1>1, <2>1 DEF vars, LedgerInv, TypeOK, WellFormed, LockHeld, LockedOpen, SoleOpen,
                      PromptSnapshots, SnapshotCovers
<1>2. ASSUME NEW o \in Orders, CreateOrder(o) PROVE LedgerInv'
  BY <1>2, CreateOrderKeeps
<1>3. ASSUME NEW h \in Handlers, Begin(h) PROVE LedgerInv'
  BY <1>3, BeginOpenKeeps, BeginCollectKeeps, BeginVoidKeeps, BeginExpenseKeeps,
     BeginCloseKeeps DEF Begin
<1>4. ASSUME NEW h \in Handlers, Lock(h) PROVE LedgerInv'
  BY <1>4, LockKeeps
<1>5. ASSUME NEW h \in Handlers, Commit(h) PROVE LedgerInv'
  BY <1>5, CommitOpenKeeps, CommitCollectKeeps, CommitVoidKeeps, CommitExpenseKeeps,
     CommitCloseKeeps DEF Commit
<1>6. ASSUME NEW h \in Handlers, Abort(h) PROVE LedgerInv'
  BY <1>6, AbortKeeps DEF Abort
<1> QED
  BY <1>1, <1>2, <1>3, <1>4, <1>5, <1>6 DEF Next

LEMMA AlwaysLedger == Spec => []LedgerInv
  BY InitLedger, StepKeeps, PTL DEF Spec

-----------------------------------------------------------------------------
(* Theorems *)

\* The rows and the handlers always have the values the code writes
\* (ShiftsService, PrismaShiftsRepository, CashExpensesService).
THEOREM LedgerTyped == Spec => []TypeOK
<1>1. LedgerInv => TypeOK
  BY DEF LedgerInv
<1> QED
  BY <1>1, AlwaysLedger, PTL

\* There is never more than one open shift, however many cashiers open one at the same time
\* (openShift and the index Shift_only_one_open_idx).
THEOREM OnlyOneShift == Spec => []OneOpenShift
<1>1. ASSUME LedgerInv PROVE OneOpenShift
  <2>1. CASE OpenShifts = {}
    BY <2>1, FS_EmptySet DEF OneOpenShift
  <2>2. CASE OpenShifts # {}
    <3>1. PICK s : s \in OpenShifts
      BY <2>2
    <3>2. OpenShifts = {s}
      BY <1>1, <3>1 DEF LedgerInv, SoleOpen, OpenShifts
    <3> QED
      BY <3>2, FS_Singleton DEF OneOpenShift
  <2> QED
    BY <2>1, <2>2
<1> QED
  BY <1>1, AlwaysLedger, PTL

\* Who changes the rows: the only writer of each, and what it knew.
LEMMA Writers ==
  ASSUME LedgerInv, [Next]_vars
  PROVE  /\ spent' # spent => \E h \in Handlers : CommitExpense(h)
         /\ orders' # orders => \/ \E h \in Handlers : CommitCollect(h) \/ CommitVoid(h)
                                \/ \E o \in Orders : CreateOrder(o)
         /\ shifts' # shifts => \E h \in Handlers : CommitOpen(h) \/ CommitClose(h)
<1>1. CASE UNCHANGED vars
  BY <1>1 DEF vars
<1>2. ASSUME NEW o \in Orders, CreateOrder(o) PROVE UNCHANGED <<shifts, spent>>
  BY <1>2 DEF CreateOrder
<1>3. ASSUME NEW h \in Handlers, Begin(h) PROVE UNCHANGED <<shifts, orders, spent>>
  BY <1>3 DEF Begin, BeginOpen, BeginCollect, BeginVoid, BeginExpense, BeginClose
<1>4. ASSUME NEW h \in Handlers, Lock(h) \/ Abort(h) PROVE UNCHANGED <<shifts, orders, spent>>
  BY <1>4 DEF Lock, Abort
<1>5. ASSUME NEW h \in Handlers
      PROVE  /\ CommitOpen(h) => UNCHANGED <<orders, spent>>
             /\ CommitCollect(h) => UNCHANGED <<shifts, spent>>
             /\ CommitVoid(h) => UNCHANGED <<shifts, spent>>
             /\ CommitExpense(h) => UNCHANGED <<shifts, orders>>
             /\ CommitClose(h) => UNCHANGED <<orders, spent>>
  BY DEF CommitOpen, CommitCollect, CommitVoid, CommitExpense, CommitClose
<1> QED
  BY <1>1, <1>2, <1>3, <1>4, <1>5 DEF Next, Commit

\* No collection and no expense that was on its way enters a closed shift, and nothing
\* rewrites what its closing recorded (the second look under the lock of collect, of
\* createExpense and of closeShift).
THEOREM ClosedStaysFrozen == Spec => ClosedShiftFrozen
<1>1. ASSUME LedgerInv, [Next]_vars, NEW s \in Shifts, shifts[s].st = "closed"
      PROVE  /\ Collected(s)' \subseteq Collected(s)
             /\ spent'[s] = spent[s]
             /\ shifts'[s] = shifts[s]
  <2>1. /\ shifts \in [Shifts -> ShiftRow] /\ orders \in [Orders -> OrderRow]
        /\ spent \in [Shifts -> 0..MaxSpent]
    BY <1>1 DEF LedgerInv, TypeOK
  <2>2. \A h \in Handlers : tx[h].phase = "locked" => tx[h].s # s
    BY <1>1 DEF LedgerInv, LockedOpen
  <2>3. shifts'[s] = shifts[s]
    <3>1. ASSUME NEW h \in Handlers, CommitClose(h) PROVE shifts'[s] = shifts[s]
      BY <2>1, <2>2, <3>1 DEF CommitClose
    <3>2. ASSUME NEW h \in Handlers, CommitOpen(h) PROVE shifts'[s] = shifts[s]
      BY <1>1, <2>1, <3>2 DEF CommitOpen
    <3> QED
      BY <1>1, <3>1, <3>2, Writers
  <2>4. spent'[s] = spent[s]
    <3>1. ASSUME NEW h \in Handlers, CommitExpense(h) PROVE spent'[s] = spent[s]
      BY <2>1, <2>2, <3>1 DEF CommitExpense
    <3> QED
      BY <1>1, <3>1, Writers
  <2>5. ASSUME NEW p \in Orders, orders'[p].st = "paid", orders'[p].shift = s
        PROVE  orders[p].st = "paid" /\ orders[p].shift = s
    <3>1. ASSUME NEW h \in Handlers, CommitCollect(h) PROVE orders'[p] = orders[p]
      <4>1. tx[h].s # s /\ tx[h].o \in Orders
        BY <1>1, <2>2, <3>1 DEF CommitCollect, LedgerInv, WellFormed, FormedHandler
      <4> QED
        BY <2>1, <2>5, <3>1, <4>1 DEF CommitCollect
    <3>2. ASSUME NEW h \in Handlers, CommitVoid(h) PROVE orders'[p] = orders[p]
      BY <2>1, <2>5, <3>2 DEF CommitVoid, OrderRow
    <3>3. ASSUME NEW o \in Orders, CreateOrder(o) PROVE orders'[p] = orders[p]
      BY <2>1, <2>5, <3>3 DEF CreateOrder, OrderRow
    <3> QED
      BY <1>1, <2>5, <3>1, <3>2, <3>3, Writers
  <2>6. Collected(s)' \subseteq Collected(s)
    BY <2>5 DEF Collected
  <2> QED
    BY <2>3, <2>4, <2>6
<1>2. LedgerInv /\ [Next]_vars =>
        [\A s \in Shifts :
           shifts[s].st = "closed" =>
             /\ Collected(s)' \subseteq Collected(s)
             /\ spent'[s] = spent[s]
             /\ shifts'[s] = shifts[s]]_vars
  BY <1>1
<1> QED
  BY <1>2, AlwaysLedger, PTL DEF Spec, ClosedShiftFrozen

\* Only the handler whose step this is comes to rest in it.
LEMMA OwnStep ==
  ASSUME LedgerInv, NEW g \in Handlers, NEW h \in Handlers, Done(g),
         tx[h].op # "idle", tx'[h] = Idle
  PROVE  g = h
<1>1. tx'[h] = IF h = g THEN Idle ELSE tx[h]
  BY DEF Done, LedgerInv, TypeOK
<1> QED
  BY <1>1, IdleTyped

\* Without a PIN no expense takes the total of its shift over the cap, however many are
\* registered at the same time (createExpense adds up again under the lock).
THEOREM CapAlwaysRespected == Spec => CapRespected
<1>1. ASSUME LedgerInv, [Next]_vars, NEW h \in Handlers, NEW s \in Shifts,
             Cap > 0, spent'[s] # spent[s], tx[h].op = "expense", tx'[h] = Idle,
             ~tx[h].auth
      PROVE  spent'[s] <= Cap
  <2>1. PICK g \in Handlers : CommitExpense(g)
    BY <1>1, Writers
  <2>2. g = h
    BY <1>1, <2>1, OwnStep DEF CommitExpense
  <2>3. spent' = [spent EXCEPT ![tx[h].s] = @ + tx[h].amount] /\ BelowCap(tx[h].s, tx[h].amount)
    BY <1>1, <2>1, <2>2 DEF CommitExpense
  <2>4. spent \in [Shifts -> 0..MaxSpent]
    BY <1>1 DEF LedgerInv, TypeOK
  <2>5. s = tx[h].s /\ spent'[s] = spent[s] + tx[h].amount
    BY <1>1, <2>3, <2>4
  <2> QED
    BY <1>1, <2>3, <2>5 DEF BelowCap
<1>2. LedgerInv /\ [Next]_vars =>
        [\A h \in Handlers, s \in Shifts :
           (/\ Cap > 0 /\ spent'[s] # spent[s]
            /\ tx[h].op = "expense" /\ tx'[h] = Idle /\ ~tx[h].auth)
             => spent'[s] <= Cap]_vars
  BY <1>1
<1> QED
  BY <1>2, AlwaysLedger, PTL DEF Spec, CapRespected

\* A closing that got the row without waiting records every collection and every expense
\* of its shift (closeShift under the lock of each of them).
THEOREM PromptClosesComplete == Spec => PromptCloseComplete
<1>1. ASSUME LedgerInv, [Next]_vars, NEW h \in Handlers, NEW s \in Shifts,
             shifts[s].st = "open", shifts'[s].st = "closed",
             tx[h].op = "close", tx'[h] = Idle, ~tx[h].waited
      PROVE  Complete(s)
  <2>1. shifts \in [Shifts -> ShiftRow] /\ tx[h].snap.sales \in Nat
    BY <1>1 DEF LedgerInv, TypeOK, Handler
  <2>2. PICK g \in Handlers : CommitOpen(g) \/ CommitClose(g)
    BY <1>1, Writers
  <2>3. ~CommitOpen(g)
    BY <1>1, <2>1 DEF CommitOpen, ShiftRow
  <2>4. CommitClose(g)
    BY <2>2, <2>3
  <2>5. g = h
    BY <1>1, <2>4, OwnStep DEF CommitClose
  <2>6. s = tx[h].s /\ shifts'[s].sales = tx[h].snap.sales
        /\ shifts'[s].expenses = tx[h].snap.expenses
    BY <1>1, <2>1, <2>4, <2>5 DEF CommitClose
  <2>7. /\ Cardinality(Collected(s)) <= tx[h].snap.sales
        /\ spent[s] = tx[h].snap.expenses
    BY <1>1, <2>6 DEF LedgerInv, PromptSnapshots, SnapshotCovers
  <2> QED
    BY <2>1, <2>6, <2>7, CollectedFinite DEF Complete
<1>2. LedgerInv /\ [Next]_vars =>
        [\A h \in Handlers, s \in Shifts :
           (/\ shifts[s].st = "open" /\ shifts'[s].st = "closed"
            /\ tx[h].op = "close" /\ tx'[h] = Idle /\ ~tx[h].waited)
             => Complete(s)]_vars
  BY <1>1
<1> QED
  BY <1>2, AlwaysLedger, PTL DEF Spec, PromptCloseComplete
=============================================================================
