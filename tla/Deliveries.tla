-------------------------------- MODULE Deliveries --------------------------------
(***************************************************************************)
(* Deliveries that are late: OrdersService.startDelivery, and the job of   *)
(* NotificationsService that looks each minute for deliveries that are too *)
(* long under way, claims one after the other in the database, and then    *)
(* writes a notification for each role at the same time (Promise.all).     *)
(*                                                                         *)
(* The first notification that fails releases the claim, so that the job   *)
(* comes back to the order, while the others are still being written.      *)
(* Texts, the limit and the switch of the alerts are left out; so are      *)
(* reading and deleting notifications, which touch nothing else.           *)
(***************************************************************************)
EXTENDS FiniteSets

CONSTANTS
  Parcels,        \* orders that are deliveries
  Alerted,        \* the roles to be told
  Starters        \* handlers of startDelivery

VARIABLES
  route,      \* how far a delivery is: deliveryStartedAt, deliveredAt and the clock
  claim,      \* deliverySlaAlertedAt is set
  starting,   \* the order that a handler is to start
  watch,      \* the job: checkingDeliverySlas, and where it is
  writing,    \* notifications that are being written
  told,       \* history: those written since the delivery was started
  lost        \* history: claims that a stop or a failed release left behind

deliveryVars == <<route, claim, starting, watch, writing, told, lost>>

-----------------------------------------------------------------------------
\* under way for longer than the limit is late; paid, cancelled or delivered is over
Ways == {"waiting", "underway", "late", "over"}
Idle == [step |-> "idle"]
Nothing == [on |-> FALSE]

DeliveriesTypeOK ==
  /\ route \in [Parcels -> Ways] /\ claim \in [Parcels -> BOOLEAN]
  /\ starting \in [Starters -> {Nothing} \cup [on: {TRUE}, order: Parcels]]
  /\ watch \in {Idle} \cup [step: {"claim"}, todo: SUBSET Parcels]
       \cup [step: {"tell", "release"}, todo: SUBSET Parcels, order: Parcels]
  /\ writing \subseteq Parcels \X Alerted /\ told \subseteq Parcels \X Alerted
  /\ lost \subseteq Parcels

Of(d) == {d} \X Alerted

-----------------------------------------------------------------------------
(* The order *)

\* startDelivery reads the order, which nobody started yet.
BeginStart(s, d) ==
  /\ starting[s] = Nothing /\ route[d] = "waiting"
  /\ starting' = [starting EXCEPT ![s] = [on |-> TRUE, order |-> d]]
  /\ UNCHANGED <<route, claim, watch, writing, told, lost>>

\* The write is not guarded: of two handlers the second starts the delivery again.
CommitStart(s) ==
  LET d == starting[s].order IN
  /\ starting[s].on
  /\ route' = [route EXCEPT ![d] = IF @ = "over" THEN @ ELSE "underway"]
  /\ claim' = [claim EXCEPT ![d] = FALSE]
  /\ starting' = [starting EXCEPT ![s] = Nothing]
  /\ told' = told \ Of(d) /\ lost' = lost \ {d}
  /\ UNCHANGED <<watch, writing>>

\* updateStatus: delivered, paid or cancelled
Finish(d) ==
  /\ route[d] # "over"
  /\ route' = [route EXCEPT ![d] = "over"]
  /\ UNCHANGED <<claim, starting, watch, writing, told, lost>>

Late(d) ==
  /\ route[d] = "underway"
  /\ route' = [route EXCEPT ![d] = "late"]
  /\ UNCHANGED <<claim, starting, watch, writing, told, lost>>

-----------------------------------------------------------------------------
(* The job *)

\* A run that finds another one at work returns.
Check ==
  /\ watch = Idle
  /\ LET overdue == {d \in Parcels : route[d] = "late" /\ ~claim[d]} IN
       /\ overdue # {}
       /\ watch' = [step |-> "claim", todo |-> overdue]
  /\ UNCHANGED <<route, claim, starting, writing, told, lost>>

\* The claim is a conditional update; whether the order is still late is not asked again.
Claim(d) ==
  /\ watch.step = "claim" /\ d \in watch.todo
  /\ ~claim[d]
  /\ claim' = [claim EXCEPT ![d] = TRUE]
  /\ watch' = [step |-> "tell", todo |-> watch.todo \ {d}, order |-> d]
  /\ writing' = writing \cup Of(d)
  /\ UNCHANGED <<route, starting, told, lost>>

\* createNotification
Write(n) ==
  /\ n \in writing
  /\ writing' = writing \ {n} /\ told' = told \cup {n}
  /\ UNCHANGED <<route, claim, starting, watch, lost>>

\* The first that fails ends Promise.all.
FailToWrite(n) ==
  /\ n \in writing
  /\ writing' = writing \ {n}
  /\ watch' = IF watch.step = "tell" /\ n[1] = watch.order
                THEN [watch EXCEPT !.step = "release"] ELSE watch
  /\ UNCHANGED <<route, claim, starting, told, lost>>

AllTold ==
  /\ watch.step = "tell" /\ writing \cap Of(watch.order) = {}
  /\ watch' = [step |-> "claim", todo |-> watch.todo]
  /\ UNCHANGED <<route, claim, starting, writing, told, lost>>

\* Fault: the claim is left as it is.
Kept(d) == claim[d]

Released(d) == FALSE

\* The job ends with the error; what is left of its list waits for the next run.
Release ==
  /\ watch.step = "release"
  /\ claim' = [claim EXCEPT ![watch.order] = Released(watch.order)]
  /\ watch' = Idle
  /\ UNCHANGED <<route, starting, writing, told, lost>>

FailRelease ==
  /\ watch.step = "release"
  /\ lost' = IF claim[watch.order] THEN lost \cup {watch.order} ELSE lost
  /\ watch' = Idle
  /\ UNCHANGED <<route, claim, starting, writing, told>>

EndCheck ==
  /\ watch.step = "claim" /\ \A d \in watch.todo : claim[d]
  /\ watch' = Idle
  /\ UNCHANGED <<route, claim, starting, writing, told, lost>>

\* The process stops; what the database was given stays.
StopHouse ==
  /\ watch # Idle \/ writing # {} \/ \E s \in Starters : starting[s].on
  /\ watch' = Idle /\ writing' = {} /\ starting' = [s \in Starters |-> Nothing]
  /\ lost' = lost \cup {d \in Parcels : claim[d] /\ ~(Of(d) \subseteq told)}
  /\ UNCHANGED <<route, claim, told>>

DeliveriesInit ==
  /\ route = [d \in Parcels |-> "waiting"] /\ claim = [d \in Parcels |-> FALSE]
  /\ starting = [s \in Starters |-> Nothing]
  /\ watch = Idle /\ writing = {} /\ told = {} /\ lost = {}

DeliveriesNext ==
  \/ \E s \in Starters : CommitStart(s) \/ \E d \in Parcels : BeginStart(s, d)
  \/ \E d \in Parcels : Finish(d) \/ Late(d) \/ Claim(d)
  \/ \E n \in Parcels \X Alerted : Write(n) \/ FailToWrite(n)
  \/ Check \/ AllTold \/ Release \/ FailRelease \/ EndCheck \/ StopHouse

DeliveriesSpec == DeliveriesInit /\ [][DeliveriesNext]_deliveryVars

-----------------------------------------------------------------------------
\* When nothing is being written and the job rests, a delivery that is claimed, and so never
\* looked at again, was reported to every role since it was started: a failure gives it back
\* whatever had been written by then (checkOverdueDeliveries).  Only a stop of the process,
\* or a release that fails too, loses an alert.
AlertsAccounted ==
  watch = Idle /\ writing = {} =>
    \A d \in Parcels \ lost : claim[d] => Of(d) \subseteq told
=============================================================================
