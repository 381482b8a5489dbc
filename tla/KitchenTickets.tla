------------------------------- MODULE KitchenTickets -------------------------------
(***************************************************************************)
(* The kitchen side of an order in OrdersService: items that are sent to   *)
(* the kitchens in rounds, tickets that a kitchen marks, and the           *)
(* announcement that the order is ready.                                   *)
(*                                                                         *)
(* A ticket (updateStatus with sentAt) reads the order, writes the items   *)
(* of its round, each combo with a statement of its own, reads the order   *)
(* again and writes the status that it derives from the items.  A change   *)
(* of the whole order (updateStatus without sentAt) and an edit of the     *)
(* items (updateItems) read, and write everything later.                   *)
(***************************************************************************)
EXTENDS Naturals, FiniteSets

CONSTANTS
  Lines,          \* items of the order
  KitchensOf,     \* the kitchens that prepare an item; several for a combo
  Cooks,          \* handlers
  Marks,          \* the statuses that are set
  Rounds,         \* bound of the exploration: rounds that are sent
  Tickets,        \* what tickets name: a kitchen or none, an item or none
  ChangesApart    \* TRUE: a change of the whole order overlaps no other handler

Progress == {"pending", "preparing", "ready", "delivered"}
AllKitchens == UNION {KitchensOf[i] : i \in Lines}

\* A ticket that names no kitchen marks for all of them; one that names an item, for it alone.
Target == [at: {AllKitchens} \cup {{k} : k \in AllKitchens}, item: {{}} \cup {{i} : i \in Lines}]

ASSUME KitchenAssumption ==
  /\ IsFiniteSet(Lines) /\ Rounds \in Nat \ {0}
  /\ \A i \in Lines : KitchensOf[i] # {}
  /\ Marks \subseteq Progress
  /\ Tickets \subseteq Target
  /\ ChangesApart \in BOOLEAN

VARIABLES
  lines,      \* the OrderItem rows
  status,     \* Order.status
  work,       \* the handlers in flight
  round,      \* rounds that were sent
  owed        \* history: the items sent since the order was announced or a handler failed

kitchenVars == <<lines, status, work, round, owed>>

-----------------------------------------------------------------------------
\* sent is the round of sentAt, 0 for an item that is not there; parts are the statuses in
\* comboSelections, of a combo; st is kitchenStatus.  A row that was deleted does not come back.
Line == [sent: 0..Rounds, st: Progress \cup {"deleted"}, parts: [AllKitchens -> Progress]]
NoLine == [sent |-> 0, st |-> "pending", parts |-> [k \in AllKitchens |-> "pending"]]
Deleted == [NoLine EXCEPT !.st = "deleted"]
Combo(i) == Cardinality(KitchensOf[i]) > 1

Resting == [op |-> "none"]

\* A ticket that has items to write, as it read them.
Marking(w) ==
  /\ w.op = "ticket" /\ w.stage \in {"found", "items"}
  /\ w.was \in BOOLEAN /\ w.at \subseteq AllKitchens /\ w.to \in Marks
  /\ DOMAIN w.todo \subseteq Lines /\ \A i \in DOMAIN w.todo : w.todo[i] \in Line

KitchenTypeOK ==
  /\ lines \in [Lines -> Line] /\ status \in Progress
  /\ \A h \in Cooks : Marking(work[h]) \/ work[h] \in {Resting}
       \cup [op: {"ticket"}, stage: {"read"}, was: BOOLEAN, on: Target, round: 1..Rounds, to: Marks]
       \cup [op: {"ticket"}, stage: {"reloaded"}, now: Progress, announce: BOOLEAN]
       \cup [op: {"screen"}, shown: [Lines -> Line]]
       \cup [op: {"edit"}, shown: [Lines -> Line], there: SUBSET Lines, was: BOOLEAN, fresh: BOOLEAN]
       \cup [op: {"order"}, seen: [Lines -> Line]]
  /\ round \in 0..Rounds /\ owed \subseteq Lines

-----------------------------------------------------------------------------
Sent(ls) == {i \in Lines : ls[i].sent > 0}
All(ls, S) == \A i \in Sent(ls) : ls[i].st \in S
Some(ls, S) == \E i \in Sent(ls) : ls[i].st \in S

\* isReadyForPickup
Ready(ls) == Sent(ls) # {} /\ All(ls, {"ready", "delivered"})

\* deriveGlobalStatus, of an order that is not a delivery
Derived(ls) ==
  CASE Sent(ls) = {} \/ Some(ls, {"pending"}) -> "pending"
    [] ~Some(ls, {"pending"}) /\ Some(ls, {"preparing"}) -> "preparing"
    [] Sent(ls) # {} /\ All(ls, {"delivered"}) -> "delivered"
    [] Sent(ls) # {} /\ ~All(ls, {"delivered"}) /\ All(ls, {"ready", "delivered"}) -> "ready"

\* The status of a combo, from those of its parts.
Overall(i, parts) ==
  LET P == {parts[k] : k \in KitchensOf[i]} IN
  CASE P = {"delivered"} -> "delivered"
    [] P # {"delivered"} /\ P \subseteq {"ready", "delivered"} -> "ready"
    [] ~(P \subseteq {"ready", "delivered"}) /\ P \cap {"preparing", "ready"} # {} -> "preparing"
    [] OTHER -> "pending"

\* The items of a round that updateItemsKitchenStatus finds: one item whatever its kitchen,
\* or those of the kitchen and all combos.
Found(t, r) ==
  {i \in Sent(lines) : /\ lines[i].sent = r
                       /\ IF t.item # {} THEN i \in t.item
                          ELSE KitchensOf[i] \cap t.at # {} \/ Combo(i)}

\* An item that is marked, as it was read: of a combo, the parts of the kitchen.
Marked(line, i, at, to) ==
  LET parts == [k \in AllKitchens |-> IF k \in KitchensOf[i] \cap at THEN to ELSE line.parts[k]]
  IN
  IF Combo(i) THEN [line EXCEPT !.parts = parts, !.st = Overall(i, parts)]
  ELSE [line EXCEPT !.st = to]

\* Fault: an item that is handed over without waiting is not one that became ready.
WaitsReady(was, new) == Ready(new) /\ Some(new, {"ready"}) /\ ~was

BecameReady(was, new) == Ready(new) /\ ~was

Rest(h) == work' = [work EXCEPT ![h] = Resting]

\* Order.updatedAt is set by a write of the order, not by one of an item.
RestStale(h) ==
  work' = [g \in Cooks |-> IF g = h THEN Resting
                           ELSE IF work[g].op = "edit" THEN [work[g] EXCEPT !.fresh = FALSE]
                           ELSE work[g]]

Off(h) == work[h] = Resting
Changing == {h \in Cooks : work[h].op = "order"}

-----------------------------------------------------------------------------
(* Tickets *)

\* A ticket of a round that was sent.  That a cook names a kitchen of their own only lessens
\* what is asked for.
BeginTicket(h, t, r, to) ==
  /\ Off(h)
  /\ r <= round
  /\ ChangesApart => Changing = {}
  /\ work' = [work EXCEPT ![h] = [op |-> "ticket", stage |-> "read", was |-> Ready(lines),
                                  on |-> t, round |-> r, to |-> to]]
  /\ UNCHANGED <<lines, status, round, owed>>

\* updateItemsKitchenStatus reads the items of the ticket.
FindItems(h) ==
  LET w == work[h] IN
  /\ w.op = "ticket" /\ w.stage = "read"
  /\ work' = [work EXCEPT ![h] =
       [op |-> "ticket", stage |-> "found", was |-> w.was, at |-> w.on.at, to |-> w.to,
        todo |-> [i \in Found(w.on, w.round) |-> lines[i]]]]
  /\ UNCHANGED <<lines, status, round, owed>>

\* One statement writes those that are no combos, and are still there.
MarkPlain(h) ==
  LET w == work[h]
      plain == {i \in DOMAIN w.todo : ~Combo(i)}
  IN
  /\ w.op = "ticket" /\ w.stage = "found"
  /\ lines' = [i \in Lines |-> IF i \in plain \cap Sent(lines) THEN Marked(lines[i], i, w.at, w.to)
                               ELSE lines[i]]
  /\ work' = [work EXCEPT ![h].stage = "items",
                          ![h].todo = [i \in DOMAIN w.todo \ plain |-> w.todo[i]]]
  /\ UNCHANGED <<status, round, owed>>

\* A combo is written back with the parts that were read.
MarkCombo(h, i) ==
  LET w == work[h] IN
  /\ w.op = "ticket" /\ w.stage = "items" /\ i \in DOMAIN w.todo \cap Sent(lines)
  /\ LET new == Marked(w.todo[i], i, w.at, w.to) IN
       lines' = [lines EXCEPT ![i].parts = new.parts, ![i].st = new.st]
  /\ work' = [work EXCEPT ![h].todo = [j \in DOMAIN w.todo \ {i} |-> w.todo[j]]]
  /\ UNCHANGED <<status, round, owed>>

\* The order is read again.
Reload(h) ==
  LET w == work[h] IN
  /\ w.op = "ticket" /\ w.stage = "items" /\ DOMAIN w.todo = {}
  /\ work' = [work EXCEPT ![h] =
       [op |-> "ticket", stage |-> "reloaded", now |-> Derived(lines),
        announce |-> BecameReady(w.was, lines)]]
  /\ UNCHANGED <<lines, status, round, owed>>

\* updateOperationalStatus, and emitOrderReady
CommitTicket(h) ==
  LET w == work[h] IN
  /\ w.op = "ticket" /\ w.stage = "reloaded"
  /\ status' = w.now
  /\ owed' = IF w.announce THEN {} ELSE owed
  /\ RestStale(h)
  /\ UNCHANGED <<lines, round>>

-----------------------------------------------------------------------------
(* Other changes *)

BeginChange(h) ==
  /\ ChangesApart => \A g \in Cooks : work[g].op \in {"none", "screen"}
  /\ Off(h)
  /\ work' = [work EXCEPT ![h] = [op |-> "order", seen |-> lines]]
  /\ UNCHANGED <<lines, status, round, owed>>

\* updateStatus writes the items that it read, all with one status; the parts of combos
\* are left, and an item that came meanwhile is deleted.
CommitChange(h, to) ==
  LET seen == work[h].seen
      new == [i \in Lines |-> IF i \in Sent(seen) THEN [seen[i] EXCEPT !.st = to]
                              ELSE IF i \in Sent(lines) THEN Deleted
                              ELSE lines[i]]
  IN
  /\ work[h].op = "order" /\ Sent(seen) \subseteq Sent(lines)
  /\ lines' = new /\ status' = to
  /\ owed' = IF BecameReady(Ready(seen), new) THEN {} ELSE owed \cap Sent(new)
  /\ RestStale(h)
  /\ UNCHANGED round

\* A row that is to be written is gone: the handler fails.  What it marked before stays,
\* and need not be announced until more is sent.
FailWrite(h) ==
  LET w == work[h] IN
  /\ \/ w.op = "ticket" /\ w.stage = "items" /\ ~(DOMAIN w.todo \subseteq Sent(lines))
     \/ w.op = "order" /\ ~(Sent(w.seen) \subseteq Sent(lines))
  /\ Rest(h)
  /\ owed' = {}
  /\ UNCHANGED <<lines, status, round>>

\* A terminal shows the order; what others write later it may not see.
Show(h) ==
  /\ Off(h)
  /\ work' = [work EXCEPT ![h] = [op |-> "screen", shown |-> lines]]
  /\ UNCHANGED <<lines, status, round, owed>>

BeginEdit(h) ==
  /\ work[h].op = "screen"
  /\ ChangesApart => Changing = {}
  /\ work' = [work EXCEPT ![h] =
       [op |-> "edit", shown |-> work[h].shown, there |-> Sent(lines), was |-> Ready(lines),
        fresh |-> TRUE]]
  /\ UNCHANGED <<lines, status, round, owed>>

\* An item that is added: sent now, or one that the terminal shows and that is gone.  The
\* latter is not known by its id any more, and becomes an item again as it is shown.
Added(w, j) ==
  {[NoLine EXCEPT !.sent = round + 1]}
    \cup {w.shown[i] : i \in {i \in Sent(w.shown) \ w.there : KitchensOf[i] = KitchensOf[j]}}

\* updateItems under the lock of the order, if it was not written since it was read: items
\* are removed, those that the terminal does not show among them, others are added, and the
\* rest gets the status that the terminal shows.
CommitEdit(h) ==
  LET w == work[h] IN
  /\ w.op = "edit" /\ w.fresh
  /\ \E kept \in SUBSET (Sent(w.shown) \cap w.there), added \in SUBSET {i \in Lines : lines[i] = NoLine} :
     \E rows \in [added -> UNION {Added(w, j) : j \in added}] :
       LET new == [i \in Lines |->
                     IF i \in added THEN rows[i]
                     ELSE IF i \in kept THEN w.shown[i]
                     ELSE IF i \in Sent(lines) THEN Deleted
                     ELSE lines[i]]
           sends == \E j \in added : rows[j].sent = round + 1
       IN
       /\ \A j \in added : rows[j] \in Added(w, j)
       /\ sends => round < Rounds
       /\ round' = IF sends THEN round + 1 ELSE round
       /\ lines' = new /\ status' = Derived(new)
       /\ owed' = IF BecameReady(w.was, new) THEN {} ELSE (owed \cup added) \cap Sent(new)
  /\ RestStale(h)

\* Another terminal was first.
RefuseEdit(h) ==
  /\ work[h].op = "edit" /\ ~work[h].fresh
  /\ Rest(h)
  /\ UNCHANGED <<lines, status, round, owed>>

KitchenInit ==
  /\ lines = [i \in Lines |-> NoLine]
  /\ status = "pending" /\ round = 0 /\ owed = {}
  /\ work = [h \in Cooks |-> Resting]

KitchenNext ==
  \E h \in Cooks :
    \/ \E t \in Tickets, r \in 1..Rounds, to \in Marks : BeginTicket(h, t, r, to)
    \/ FindItems(h) \/ MarkPlain(h) \/ Reload(h) \/ CommitTicket(h)
    \/ \E i \in Lines : MarkCombo(h, i)
    \/ BeginChange(h) \/ FailWrite(h) \/ Show(h) \/ BeginEdit(h) \/ CommitEdit(h) \/ RefuseEdit(h)
    \/ \E to \in Marks : CommitChange(h, to)

KitchenSpec == KitchenInit /\ [][KitchenNext]_kitchenVars

-----------------------------------------------------------------------------
ReadyItems(ls) == {i \in Sent(ls) : ls[i].st \in {"ready", "delivered"}}

\* No ticket that was pressed before, nor an edit from a terminal that shows what was before,
\* takes an item back that was ready; only the one write of the whole order may.  And no
\* edit brings back an item that another terminal removed.
NoneBack ==
  /\ \/ ReadyItems(lines) \cap Sent(lines') \subseteq ReadyItems(lines')
     \/ \E h \in Cooks, to \in Marks : CommitChange(h, to)
  /\ \A h \in Cooks : BeginEdit(h) => Sent(work[h].shown) \subseteq Sent(lines)

\* When no handler is at work and all that was sent is ready, this was announced
\* (order.ready) after the last of it was sent: of several tickets the last one sees the
\* marks of all of them, also next to an edit of the items (updateStatus, updateItems).  This
\* is so while no write takes back what others did meanwhile (NoneBack).
ReadyAnnounced ==
  (\A h \in Cooks : Off(h)) /\ Ready(lines) => owed = {}
=============================================================================
