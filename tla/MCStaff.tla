------------------------------ MODULE MCStaff ------------------------------
(***************************************************************************)
(* Small instances for TLC of what guards the access of the staff.  A run  *)
(* explores one area, chosen at the start: the accounts, the sockets next  *)
(* to logouts and changes of permissions, or the locks.                    *)
(***************************************************************************)
EXTENDS OrdersGateway, Lockout, Sequences, TLC

CONSTANTS a, b, h1, h2, s1, s2, k1, k2, e1

MCUsers == {a, b}
MCHandlers == {h1, h2}
MCRoles == {"cook"}
MCPerms == {"read", "manage"}
MCDefault == {"read", "manage"}
MCSelections == {{}, {"manage"}}
Ask(cred, role, active) == [cred |-> cred, role |-> role, active |-> active]
MCChanges == {Ask(TRUE, Same, Same), Ask(FALSE, "cook", Same), Ask(FALSE, "admin", "on"),
              Ask(FALSE, Same, "on"), Ask(FALSE, Same, "off")}

MCSockets == {s1, s2}
MCOwner == (s1 :> a) @@ (s2 :> b)
MCLockUsers == {b}
MCKitchens == {k1, k2}
MCEvents == {e1}

VARIABLE area
staffVars == <<accountVars, gatewayVars, lockVars, area>>

Init ==
  /\ area \in {"accounts", "gateway", "locks"}
  /\ AccountsInit /\ GatewayInit /\ LockoutInit

Next ==
  /\ \/ area = "accounts" /\ AccountsNext /\ UNCHANGED <<gatewayVars, lockVars>>
     \/ area = "gateway" /\ GatewayNext /\ UNCHANGED lockVars
     \/ area = "locks" /\ LockoutNext /\ UNCHANGED <<accountVars, gatewayVars>>
  /\ UNCHANGED area

Spec == Init /\ [][Next]_staffVars

StaffTypeOK == AccountsTypeOK /\ GatewayTypeOK /\ LockoutTypeOK

Symmetric == Permutations(MCHandlers) \cup Permutations(MCKitchens)

-----------------------------------------------------------------------------
(* The audience of Notices, over two spellings of one name and another name. *)

Spellings == [n \in {"ana", "Ana", "eva"} |-> IF n = "Ana" THEN "ana" ELSE n]
N == INSTANCE Notices WITH Lower <- Spellings, Unset <- Nobody

StaffRoles == {"ADMIN", "CAJERO_PRINCIPAL", "CAJERO", "MESERO", "MOTORIZADO", "DESPACHADOR"}
Drivers == {Nobody} \cup [name: DOMAIN Spellings, active: BOOLEAN, role: {"MOTORIZADO", "MESERO"}]
ReadyNotices ==
  {N!OrderReady(seller, delivery, driver) :
     seller \in DOMAIN Spellings \cup {Nobody}, delivery \in BOOLEAN, driver \in Drivers}
InSeq(n, notices) == \E k \in DOMAIN notices : notices[k] = n

\* Of an order that is ready, the stream sends a user what the list shows him, and he may
\* mark and delete it; the list leaves out only what is stored under a spelling that is
\* neither his nor, but for a driver, in lower case (getRecentForRole, buildAudienceFilter,
\* NotificationsController.stream).
ASSUME AudienceAgrees ==
  \A notices \in ReadyNotices, role \in StaffRoles, name \in DOMAIN Spellings :
    /\ \A k \in DOMAIN notices :
         LET n == notices[k] IN
         /\ N!Listed(n, role, name) => N!Streamed(n, role, name) /\ N!MayChange(n, role, name)
         /\ (/\ N!Streamed(n, role, name)
             /\ n.target \in {Nobody, name} \/ (role # "MOTORIZADO" /\ n.target = Spellings[name]))
              => N!Listed(n, role, name)
    /\ Len(N!RecentFor(notices, role, name, 50)) <= 1

\* Whoever sold an order hears that it is ready, whatever his role at a till or a table; the
\* dispatch hears of deliveries alone, and a driver only while his account rides
\* (handleOrderReadyEvent).
ASSUME SellerHears ==
  \A seller \in DOMAIN Spellings, delivery \in BOOLEAN, driver \in Drivers :
    LET notices == N!OrderReady(seller, delivery, driver)
        Hears(role, name) == \E k \in DOMAIN notices : N!Streamed(notices[k], role, name)
    IN /\ \A role \in {"ADMIN", "CAJERO_PRINCIPAL"}, name \in DOMAIN Spellings : Hears(role, name)
       /\ \A role \in {"CAJERO", "MESERO"}, name \in DOMAIN Spellings :
            Hears(role, name) <=> Spellings[name] = Spellings[seller]
       /\ Hears("DESPACHADOR", "eva") <=> delivery
       /\ (\E name \in DOMAIN Spellings : Hears("MOTORIZADO", name))
            => delivery /\ driver.active /\ driver.role = "MOTORIZADO"

StoredAccounts == [id: {1}, active: BOOLEAN, version: 1..2, role: {"ADMIN", "CAJERO"}, name: {"ana"},
                   mail: BOOLEAN]
Tokens == [id: {1, 2}, version: {1, Nobody}, expires: {5, Nobody}]

\* A stream goes on for an account that is active, with a token that has neither expired nor
\* been revoked, and for nobody else; an administrator who may be sent a stream and has an
\* address is told of cancelled invoices (validateStreamSubscriber, handleOrderCancelledEvent).
ASSUME StreamsEnd ==
  \A u \in StoredAccounts, held \in Tokens, now \in 4..5 :
    LET sent == N!Subscriber(held, {u}, now) IN
    /\ (sent # Nobody) <=> /\ u.active /\ held.id = u.id
                           /\ held.expires = Nobody \/ now < held.expires
                           /\ held.version = Nobody \/ held.version = u.version
    /\ sent # Nobody /\ u.role = "ADMIN" /\ u.mail => sent \in N!Mailed({u})
=============================================================================
