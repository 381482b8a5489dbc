------------------------------- MODULE Notices -------------------------------
(***************************************************************************)
(* Who is told that an order is ready or that an invoice was cancelled,    *)
(* and who is shown, sent, and may mark or delete what was stored for it   *)
(* (NotificationsService, its controller, OrderNotificationsListener).     *)
(* A name is one of several spellings; Lower gives the one in lower case.  *)
(***************************************************************************)
EXTENDS Integers, Sequences, SequencesExt

CONSTANTS Lower,  \* the spelling of each name in lower case
          Unset   \* no name, no date

Personal == {"MOTORIZADO", "CAJERO", "MESERO"}

Notice(role, target) == [role |-> role, target |-> target]

-----------------------------------------------------------------------------
(* Told *)

\* handleOrderReadyEvent: the roles that are told, one after the other; a creation that
\* fails ends it.  The driver is the account of the driver of a delivery, or Unset.
OrderReady(seller, delivery, driver) ==
  <<Notice("CAJERO", seller), Notice("CAJERO_PRINCIPAL", Unset), Notice("ADMIN", Unset),
    Notice("MESERO", seller)>>
  \o (IF delivery THEN <<Notice("DESPACHADOR", Unset)>> ELSE <<>>)
  \o (IF delivery /\ driver # Unset /\ driver.active /\ driver.role = "MOTORIZADO"
        THEN <<Notice("MOTORIZADO", driver.name)>> ELSE <<>>)

\* handleOrderCancelledEvent
Mailed(accounts) == {u \in accounts : u.role = "ADMIN" /\ u.active /\ u.mail}

-----------------------------------------------------------------------------
(* Shown, sent, changed *)

\* getRecentForRole: the newest of these, up to a limit.
Listed(n, role, name) ==
  /\ n.role = role
  /\ CASE role = "CAJERO_PRINCIPAL" -> TRUE
       [] role = "MOTORIZADO" -> n.target = name
       [] role \in {"CAJERO", "MESERO"} -> n.target \in {name, Lower[name]}
       [] OTHER -> n.target \in {Unset, name}

RecentFor(notices, role, name, limit) ==
  LET listed == SelectSeq(Reverse(notices), LAMBDA n : Listed(n, role, name)) IN
  SubSeq(listed, 1, IF Len(listed) < limit THEN Len(listed) ELSE limit)

\* buildAudienceFilter, for markAsReadForUser and deleteNotificationForUser.
MayChange(n, role, name) ==
  \/ role \in {"CAJERO_PRINCIPAL", "ADMIN"}
  \/ /\ n.role = role
     /\ n.target \in IF role \in Personal THEN {name, Lower[name]} ELSE {Unset, name}

\* validateStreamSubscriber: the account that a stream is sent for, as the database has it
\* when the notice is stored, or Unset when the stream ends.
Subscriber(token, accounts, now) ==
  LET mine == {u \in accounts : u.id = token.id /\ u.active} IN
  IF \/ token.expires # Unset /\ now >= token.expires
     \/ ~\E u \in mine : token.version \in {Unset, u.version}
    THEN Unset ELSE CHOOSE u \in mine : TRUE

\* NotificationsController.stream
Streamed(n, role, name) ==
  /\ n.role = role
  /\ IF n.target = Unset THEN role \notin Personal ELSE Lower[n.target] = Lower[name]
=============================================================================
