------------------------------ MODULE OrdersGateway ------------------------------
(***************************************************************************)
(* The sockets that OrdersGateway keeps informed of orders.  A socket is   *)
(* in one room at most: the one of all orders, or the one of the kitchen   *)
(* its cook is assigned to on that day.  Before an event is emitted every  *)
(* tracked socket is validated again, all of them at the same time, and    *)
(* each validation waits for the database and for the adapter in between.  *)
(***************************************************************************)
EXTENDS Accounts

CONSTANTS
  Sockets, Owner,     \* the user that each socket belongs to
  Kitchens,
  Events,             \* orders that are synchronized
  Nobody,             \* no room, no kitchen
  EventsApart         \* TRUE: one event at a time

ASSUME GatewayAssumption ==
  /\ Owner \in [Sockets -> Users]
  /\ Nobody \notin Kitchens \cup {"orders"} /\ "orders" \notin Kitchens
  /\ EventsApart \in BOOLEAN /\ "connect" \notin Events

VARIABLES
  sockets,     \* the connections, and the Socket.IO adapter
  events,      \* the events that are handled
  checks,      \* the validation of a socket for an event, or when it connects
  assigned,    \* CookKitchenAssignment of the day
  working,     \* kitchens with isActive
  allowed      \* history: what spoke for a socket since its validation began

gatewayVars == <<sockets, events, checks, assigned, working, allowed>>

\* FULL_ORDERS_ROOM, and a room per kitchen.
Rooms == Kitchens \cup {"orders"}

\* rooms is what the adapter knows, joined what socket.data.joinedRoom says.
Socket == [on: BOOLEAN, ver: Versions, role: AnyRole, rooms: SUBSET Rooms,
           joined: Rooms \cup {Nobody}]
Off == [on |-> FALSE, ver |-> 0, role |-> "admin", rooms |-> {}, joined |-> Nobody]

Check == [at: {"none", "read", "permission", "kitchen", "move", "left", "joined"},
          room: Rooms \cup {Nobody}]
NoCheck == [at |-> "none", room |-> Nobody]
Checkers == Events \cup {"connect"}

GatewayTypeOK ==
  /\ sockets \in [Sockets -> Socket]
  /\ events \in [Events -> {"idle", "checking"}]
  /\ checks \in [Checkers -> [Sockets -> Check]]
  /\ assigned \in [Users -> Kitchens \cup {Nobody}]
  /\ working \subseteq Kitchens
  /\ allowed \in [Sockets -> SUBSET (Rooms \cup {Nobody, "session", "permission"})]

\* getAssignedKitchenIdForDate
KitchenOf(u) == IF assigned[u] \in working THEN assigned[u] ELSE Nobody

\* The room of a user with this role.
Target(u, role) ==
  CASE role = "cook" -> KitchenOf(u)
    [] role = "driver" -> Nobody
    [] OTHER -> "orders"

\* What authenticate asks of the user, and of its role.
GoodSession(s) == Active(Owner[s]) /\ users[Owner[s]].ver = sockets[s].ver
MayRead(s) == "read" \in grants[users[Owner[s]].role]

\* What speaks for the socket now; it is read piece by piece.
Entitled(s) ==
  {Target(Owner[s], users[Owner[s]].role)}
    \cup (IF GoodSession(s) THEN {"session"} ELSE {})
    \cup (IF MayRead(s) THEN {"permission"} ELSE {})

\* The history: it begins anew for the sockets in who.
Remember(who) ==
  allowed' = [s \in Sockets |-> (IF s \in who THEN {} ELSE allowed[s]) \cup Entitled(s)']

SetCheck(c, s, at, room) == checks' = [checks EXCEPT ![c][s] = [at |-> at, room |-> room]]
Moves(s, rooms, joined) ==
  sockets' = [sockets EXCEPT ![s].rooms = rooms, ![s].joined = joined]

-----------------------------------------------------------------------------
(* Connections *)

Tracked == {s \in Sockets : sockets[s].on}
Quiet(s) == \A c \in Checkers : checks[c][s].at = "none"

\* A client brings a token that is good at this time.
Connect(s) ==
  /\ ~sockets[s].on /\ Quiet(s)
  /\ Active(Owner[s])
  /\ sockets' = [sockets EXCEPT ![s] = [Off EXCEPT !.ver = users[Owner[s]].ver]]
  /\ SetCheck("connect", s, "read", Nobody)
  /\ UNCHANGED <<events, assigned, working, accountVars>>
  /\ Remember({s})

\* What is still done to a socket that is gone has no effect.
Drop(s) ==
  /\ sockets' = [sockets EXCEPT ![s] = Off]
  /\ checks' = [c \in Checkers |-> [checks[c] EXCEPT ![s] = NoCheck]]

\* The client goes away.
Disconnect(s) ==
  /\ sockets[s].on
  /\ Drop(s)
  /\ UNCHANGED <<events, assigned, working, accountVars>>
  /\ Remember({})

-----------------------------------------------------------------------------
(* Validation: authenticate and reconcileAuthorizedRooms *)

Finished(c, s) == SetCheck(c, s, "none", Nobody)

\* findById: the session is good, and the role is the one of this read.
Authenticate(c, s) ==
  /\ checks[c][s].at = "read"
  /\ IF GoodSession(s)
       THEN /\ SetCheck(c, s, "permission", Nobody)
            /\ sockets' = [sockets EXCEPT ![s].role = users[Owner[s]].role]
       ELSE Drop(s)
  /\ UNCHANGED <<events, assigned, working, accountVars>>
  /\ Remember({})

\* authorizationForUser: the permission is read afterwards, and the session not again.
Authorize(c, s) ==
  /\ checks[c][s].at = "permission"
  /\ IF MayRead(s)
       THEN SetCheck(c, s, "kitchen", Nobody) /\ UNCHANGED sockets
       ELSE Drop(s)
  /\ UNCHANGED <<events, assigned, working, accountVars>>
  /\ Remember({})

ReadKitchen(c, s) ==
  /\ checks[c][s].at = "kitchen"
  /\ SetCheck(c, s, "move", Target(Owner[s], sockets[s].role))
  /\ UNCHANGED <<sockets, events, assigned, working, accountVars>>
  /\ Remember({})

\* The socket is in another room.
Misplaced(s, room) == sockets[s].joined \notin {Nobody, room}

\* It is in its room, and when it connects it is tracked from now on.
Settled(c, s) ==
  /\ checks[c][s].at = "move" /\ sockets[s].joined = checks[c][s].room
  /\ Finished(c, s)
  /\ sockets' = [sockets EXCEPT ![s].on = @ \/ c = "connect"]
  /\ UNCHANGED <<events, assigned, working, accountVars>>
  /\ Remember({})

Leave(c, s) ==
  LET room == checks[c][s].room IN
  /\ checks[c][s].at = "move" /\ sockets[s].joined # room
  /\ Misplaced(s, room)
  /\ Moves(s, sockets[s].rooms \ {sockets[s].joined}, sockets[s].joined)
  /\ SetCheck(c, s, "left", room)
  /\ UNCHANGED <<events, assigned, working, accountVars>>
  /\ Remember({})

\* socket.data follows what the adapter did, after an await.
Join(c, s) ==
  LET room == checks[c][s].room
      left == checks[c][s].at = "left"
  IN
  /\ \/ left
     \/ checks[c][s].at = "move" /\ sockets[s].joined # room /\ ~Misplaced(s, room)
  /\ Moves(s, sockets[s].rooms \cup ({room} \ {Nobody}),
           IF left THEN Nobody ELSE sockets[s].joined)
  /\ SetCheck(c, s, "joined", room)
  /\ UNCHANGED <<events, assigned, working, accountVars>>
  /\ Remember({})

Joined(c, s) ==
  /\ checks[c][s].at = "joined"
  /\ Finished(c, s)
  /\ sockets' = [sockets EXCEPT ![s].joined = checks[c][s].room,
                                ![s].on = @ \/ c = "connect"]
  /\ UNCHANGED <<events, assigned, working, accountVars>>
  /\ Remember({})

-----------------------------------------------------------------------------
(* handleOrderSynchronized *)

\* revalidateConnectedSockets
Synchronize(e) ==
  /\ events[e] = "idle"
  /\ EventsApart => \A f \in Events : events[f] = "idle"
  /\ events' = [events EXCEPT ![e] = "checking"]
  /\ checks' = [checks EXCEPT ![e] =
       [s \in Sockets |-> IF s \in Tracked THEN [at |-> "read", room |-> Nobody] ELSE NoCheck]]
  /\ UNCHANGED <<sockets, assigned, working, accountVars>>
  /\ Remember(Tracked)

\* Fault: nobody waits for the validations.
NotAwaited(e) == TRUE

AllValidated(e) == \A s \in Sockets : checks[e][s].at = "none"

\* The order is sent to the rooms.
Emit(e) ==
  /\ events[e] = "checking"
  /\ AllValidated(e)
  /\ events' = [events EXCEPT ![e] = "idle"]
  /\ UNCHANGED <<sockets, checks, assigned, working, accountVars>>
  /\ Remember({})

-----------------------------------------------------------------------------
(* Meanwhile *)

\* updateCookAssignments deletes the assignments, then writes the new ones.
Unassign(u) ==
  /\ assigned[u] # Nobody
  /\ assigned' = [assigned EXCEPT ![u] = Nobody]
  /\ UNCHANGED <<sockets, events, checks, working, accountVars>>
  /\ Remember({})

Assign(u) ==
  /\ users[u].role = "cook" /\ assigned[u] = Nobody
  /\ \E k \in Kitchens : assigned' = [assigned EXCEPT ![u] = k]
  /\ UNCHANGED <<sockets, events, checks, working, accountVars>>
  /\ Remember({})

\* update of KitchensService
SwitchKitchen(k) ==
  /\ working' = IF k \in working THEN working \ {k} ELSE working \cup {k}
  /\ UNCHANGED <<sockets, events, checks, assigned, accountVars>>
  /\ Remember({})

\* Accounts of sockets are made, sessions end, permissions change.
Personnel ==
  /\ (\E u \in {Owner[s] : s \in Sockets} : Create(u) \/ Logout(u)) \/ (\E r \in Roles : UpdateRole(r))
  /\ UNCHANGED <<sockets, events, checks, assigned, working>>
  /\ Remember({})

GatewayInit ==
  /\ sockets = [s \in Sockets |-> Off]
  /\ events = [e \in Events |-> "idle"]
  /\ checks = [c \in Checkers |-> [s \in Sockets |-> NoCheck]]
  /\ assigned = [u \in Users |-> Nobody] /\ working = Kitchens
  /\ allowed = [s \in Sockets |-> {}]

Validate(c, s) ==
  Authenticate(c, s) \/ Authorize(c, s) \/ ReadKitchen(c, s)
  \/ Leave(c, s) \/ Join(c, s) \/ Joined(c, s) \/ Settled(c, s)

GatewayNext ==
  \/ \E s \in Sockets : Connect(s) \/ Disconnect(s) \/ \E c \in Checkers : Validate(c, s)
  \/ \E e \in Events : Synchronize(e) \/ Emit(e)
  \/ \E u \in Users : Unassign(u) \/ Assign(u)
  \/ \E k \in Kitchens : SwitchKitchen(k)
  \/ Personnel

GatewaySpec ==
  GatewayInit /\ AccountsInit /\ [][GatewayNext]_<<gatewayVars, accountVars>>

-----------------------------------------------------------------------------
\* An order is sent only to sockets whose session was good, whose role had the permission
\* and whose room was theirs, each at some moment since they were validated for it, or
\* connected, though the three are read one after the other: a session, a permission or an
\* assignment that ended before has no effect any more, however the validations of the
\* sockets wait for one another (handleOrderSynchronized, authenticate).
MaySee(s) ==
  sockets[s].rooms # {} => sockets[s].rooms \cup {"session", "permission"} \subseteq allowed[s]
DeliveredToEntitled == [][\A e \in Events : Emit(e) => \A s \in Tracked : MaySee(s)]_gatewayVars
=============================================================================
