---------------------------------- MODULE Tables ----------------------------------
(***************************************************************************)
(* Tables and the orders that sit at them: MesasService (the tables that   *)
(* are configured, their state, reservations and the job that ends them)   *)
(* and OrderTableAssignmentsService, which moves an order.                 *)
(*                                                                         *)
(* Nothing locks a table or the links of an order: each operation reads,   *)
(* and writes later.  A link is deleted with its table, and a move does    *)
(* not touch the row of the order, so that a split that read the tables    *)
(* before does not notice it.  Each table is a floor of its own here.      *)
(***************************************************************************)
EXTENDS FiniteSets

CONSTANTS
  Mesas,          \* tables
  Checks,         \* orders
  Waiters,        \* handlers
  MovesApart      \* TRUE: one move or split of an order at a time, and none while tables
                  \* are configured

ASSUME TablesAssumption == MovesApart \in BOOLEAN

VARIABLES
  mesas,      \* the Mesa rows
  floors,     \* floors_config: the tables it lists
  links,      \* the OrderTable rows
  parts,      \* the paid part of an order, and whether the kitchen still has items of it
  hands,      \* what the handlers have read
  expiring,   \* the job that ends reservations: those it found
  seat        \* history: where an order was put last

tableVars == <<mesas, floors, links, parts, hands, expiring, seat>>

-----------------------------------------------------------------------------
Estado == {"DISPONIBLE", "OCUPADO", "RESERVADO"}
\* until: there is an expirationTime.  updateStatus leaves it as it was.
Mesa == [there: BOOLEAN, estado: Estado, until: BOOLEAN]
Gone == [there |-> FALSE, estado |-> "DISPONIBLE", until |-> FALSE]
New == [Gone EXCEPT !.there = TRUE]

Bills == Checks \X {"order", "part"}
Empty == [op |-> "none"]

TablesTypeOK ==
  /\ mesas \in [Mesas -> Mesa] /\ floors \subseteq Mesas
  /\ links \subseteq Bills \X Mesas
  /\ parts \in [Checks -> {"none", "cooking", "served"}]
  /\ \A h \in Waiters : hands[h] \in {Empty}
       \cup [op: {"reserve"}, mesa: Mesas]
       \cup [op: {"configure"}, floors: SUBSET Mesas, drop: SUBSET Mesas]
       \cup [op: {"move"}, check: Checks, to: SUBSET Mesas, with: SUBSET Bills,
             gone: SUBSET (Bills \X Mesas)]
       \cup [op: {"split"}, check: Checks, at: SUBSET Mesas]
  /\ expiring \subseteq Mesas
  /\ DOMAIN seat \subseteq Checks /\ \A c \in DOMAIN seat : seat[c] \subseteq Mesas

There == {m \in Mesas : mesas[m].there}
At(b) == {m \in Mesas : <<b, m>> \in links}
Open == DOMAIN seat
Lay(h) == hands' = [hands EXCEPT ![h] = Empty]

Seating == {h \in Waiters : hands[h].op \in {"configure", "move", "split"}}
\* Nobody else is at work on the tables, or on those of the order.
Apart(c) ==
  MovesApart => \A h \in Seating : hands[h].op # "configure" /\ hands[h].check # c

-----------------------------------------------------------------------------
(* Tables *)

\* updateStatus
SetStatus(m, e) ==
  /\ m \in There /\ mesas[m].estado # e
  /\ MovesApart => \A h \in Waiters : hands[h].op # "configure"
  /\ mesas' = [mesas EXCEPT ![m].estado = e]
  /\ UNCHANGED <<floors, links, parts, hands, expiring, seat>>

\* reserveMesa finds the table free; two handlers may.
BeginReserve(h, m) ==
  /\ hands[h] = Empty /\ m \in There /\ mesas[m].estado = "DISPONIBLE"
  /\ hands' = [hands EXCEPT ![h] = [op |-> "reserve", mesa |-> m]]
  /\ UNCHANGED <<mesas, floors, links, parts, expiring, seat>>

CommitReserve(h, until) ==
  /\ hands[h].op = "reserve"
  /\ mesas' = IF hands[h].mesa \in There
                THEN [mesas EXCEPT ![hands[h].mesa].estado = "RESERVADO",
                                   ![hands[h].mesa].until = until]
                ELSE mesas
  /\ Lay(h)
  /\ UNCHANGED <<floors, links, parts, expiring, seat>>

\* releaseMesa
ReleaseMesa(m) ==
  /\ m \in There /\ mesas[m] # New
  /\ mesas' = [mesas EXCEPT ![m] = New]
  /\ UNCHANGED <<floors, links, parts, hands, expiring, seat>>

\* handleExpiredReservations finds reservations that are over,
BeginExpiry ==
  /\ expiring = {}
  /\ \E due \in SUBSET {m \in There : mesas[m].estado = "RESERVADO" /\ mesas[m].until} :
       due # {} /\ expiring' = due
  /\ UNCHANGED <<mesas, floors, links, parts, hands, seat>>

\* and releases each, whatever became of it; one that is gone ends the job.
Expire(m) ==
  /\ m \in expiring
  /\ mesas' = IF m \in There THEN [mesas EXCEPT ![m] = New] ELSE mesas
  /\ expiring' = IF m \in There THEN expiring \ {m} ELSE {}
  /\ UNCHANGED <<floors, links, parts, hands, seat>>

\* updateFloorsConfig: tables of removed floors must be free and without a link.
BeginConfigure(h) ==
  /\ hands[h] = Empty /\ (MovesApart => Seating = {})
  /\ \E new \in SUBSET Mesas :
       LET drop == (floors \ new) \cap There IN
       /\ \A m \in drop : mesas[m].estado = "DISPONIBLE" /\ \A b \in Bills : m \notin At(b)
       /\ hands' = [hands EXCEPT ![h] = [op |-> "configure", floors |-> new, drop |-> drop]]
  /\ UNCHANGED <<mesas, floors, links, parts, expiring, seat>>

\* The links of a table are deleted with it.
CommitConfigure(h) ==
  LET new == hands[h].floors
      drop == hands[h].drop
  IN
  /\ hands[h].op = "configure"
  /\ mesas' = [m \in Mesas |-> IF m \in drop THEN Gone
                               ELSE IF m \in new /\ m \notin There THEN New
                               ELSE mesas[m]]
  /\ links' = {l \in links : l[2] \notin drop}
  /\ floors' = new
  /\ Lay(h)
  /\ UNCHANGED <<parts, expiring, seat>>

-----------------------------------------------------------------------------
(* Orders *)

Link(bs, ms) == bs \X ms

\* create, with its tables
OpenCheck(c, ms) ==
  /\ c \notin Open /\ ms \subseteq There /\ Apart(c)
  /\ links' = links \cup Link({<<c, "order">>}, ms)
  /\ seat' = [d \in Open \cup {c} |-> IF d = c THEN ms ELSE seat[d]]
  /\ UNCHANGED <<mesas, floors, parts, hands, expiring>>

\* Fault: the order alone moves.
OrderOnly(c) == {}

\* The paid parts that the kitchen has not delivered yet.
Following(c) == IF parts[c] = "cooking" THEN {<<c, "part">>} ELSE {}

\* replace reads them, and deletes the links that it sees.
BeginMove(h, c, ms) ==
  LET with == {<<c, "order">>} \cup Following(c) IN
  /\ hands[h] = Empty /\ c \in Open /\ ms # seat[c] /\ Apart(c)
  /\ hands' = [hands EXCEPT ![h] = [op |-> "move", check |-> c, to |-> ms, with |-> with,
                                   gone |-> {l \in links : l[1] \in with}]]
  /\ UNCHANGED <<mesas, floors, links, parts, expiring, seat>>

\* A table that is gone, or a link that another move made, refuses the move.
CommitMove(h) ==
  LET w == hands[h]
      rest == links \ w.gone
  IN
  /\ w.op = "move"
  /\ IF w.to \subseteq There /\ Link(w.with, w.to) \cap rest = {}
       THEN /\ links' = rest \cup Link(w.with, w.to)
            /\ seat' = [seat EXCEPT ![w.check] = w.to]
       ELSE UNCHANGED <<links, seat>>
  /\ Lay(h)
  /\ UNCHANGED <<mesas, floors, parts, expiring>>

\* splitCheckout reads the order with its tables,
BeginSplit(h, c) ==
  /\ hands[h] = Empty /\ c \in Open /\ parts[c] = "none" /\ Apart(c)
  /\ hands' = [hands EXCEPT ![h] = [op |-> "split", check |-> c, at |-> At(<<c, "order">>)]]
  /\ UNCHANGED <<mesas, floors, links, parts, expiring, seat>>

\* and gives them to the paid part.
CommitSplit(h) ==
  LET c == hands[h].check IN
  /\ hands[h].op = "split"
  /\ IF hands[h].at \subseteq There /\ parts[c] = "none"
       THEN /\ links' = links \cup Link({<<c, "part">>}, hands[h].at)
            /\ parts' = [parts EXCEPT ![c] = "cooking"]
       ELSE UNCHANGED <<links, parts>>
  /\ Lay(h)
  /\ UNCHANGED <<mesas, floors, expiring, seat>>

\* The kitchen delivers the items of the part.
Serve(c) ==
  /\ parts[c] = "cooking"
  /\ parts' = [parts EXCEPT ![c] = "served"]
  /\ UNCHANGED <<mesas, floors, links, hands, expiring, seat>>

TablesInit ==
  /\ floors = Mesas /\ mesas = [m \in Mesas |-> New]
  /\ links = {} /\ parts = [c \in Checks |-> "none"]
  /\ hands = [h \in Waiters |-> Empty]
  /\ expiring = {} /\ seat = [c \in {} |-> {}]

TablesNext ==
  \/ \E m \in Mesas : ReleaseMesa(m) \/ Expire(m) \/ \E e \in Estado : SetStatus(m, e)
  \/ BeginExpiry
  \/ \E h \in Waiters :
       \/ \E m \in Mesas : BeginReserve(h, m)
       \/ \E until \in BOOLEAN : CommitReserve(h, until)
       \/ BeginConfigure(h) \/ CommitConfigure(h)
       \/ \E c \in Checks : BeginSplit(h, c) \/ \E ms \in SUBSET Mesas : BeginMove(h, c, ms)
       \/ CommitMove(h) \/ CommitSplit(h)
  \/ \E c \in Checks : Serve(c) \/ \E ms \in SUBSET Mesas : OpenCheck(c, ms)

TablesSpec == TablesInit /\ [][TablesNext]_tableVars

-----------------------------------------------------------------------------
\* When no order is being moved or split, an order sits where it was put last, and so does a
\* paid part of it that the kitchen still works on, so that what is ready is brought to the
\* right table (replace, splitCheckout, updateFloorsConfig, which must not delete a table
\* that an order has); and the tables that there are are those that are configured.
Seated ==
  Seating = {} =>
    /\ \A c \in Open :
         /\ At(<<c, "order">>) = seat[c]
         /\ parts[c] = "cooking" => At(<<c, "part">>) = seat[c]
    /\ There = floors
=============================================================================
