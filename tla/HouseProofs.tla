------------------------------ MODULE HouseProofs ------------------------------
(***************************************************************************)
(* Theorems about what runs around the orders, for every number of orders, *)
(* items, roles, tables, files and handlers: the alerts of late            *)
(* deliveries, the tables that orders sit at, the announcement of orders   *)
(* that are ready, and the backups.                                        *)
(***************************************************************************)
EXTENDS Deliveries, Tables, KitchenTickets, Backups, TLAPS

-----------------------------------------------------------------------------
(* Deliveries: the inductive invariant *)

\* What is claimed was told, is being told, or is about to be given back.
Reported(d) == Of(d) \subseteq told
BeingTold(d) == watch.step = "tell" /\ watch.order = d /\ Of(d) \subseteq told \cup writing
BeingReleased(d) == watch.step = "release" /\ watch.order = d

ClaimsAnswered ==
  \A d \in Parcels \ lost : claim[d] => Reported(d) \/ BeingTold(d) \/ BeingReleased(d)

DeliveriesInv == DeliveriesTypeOK /\ ClaimsAnswered

\* The job, by where it is.
LEMMA WatchShape ==
  ASSUME DeliveriesTypeOK
  PROVE  /\ watch = Idle \/ watch.step \in {"claim", "tell", "release"}
         /\ watch = Idle => watch.step = "idle"
         /\ watch.step = "claim" =>
              /\ watch \in [step: {"claim"}, todo: SUBSET Parcels] /\ watch.todo \subseteq Parcels
         /\ watch.step \in {"tell", "release"} =>
              /\ watch \in [step: {"tell", "release"}, todo: SUBSET Parcels, order: Parcels]
              /\ watch.todo \subseteq Parcels /\ watch.order \in Parcels
  BY DEF DeliveriesTypeOK, Idle

\* The records of the deliveries are of the kinds that their handlers write.
LEMMA DeliveriesTypes ==
  ASSUME DeliveriesTypeOK, [DeliveriesNext]_deliveryVars
  PROVE  DeliveriesTypeOK'
<1> USE DEF DeliveriesTypeOK
<1>s. CASE UNCHANGED deliveryVars
  BY <1>s DEF deliveryVars
<1>1. CASE \E s \in Starters, d \in Parcels : BeginStart(s, d)
  <2>1. PICK s \in Starters, d \in Parcels : BeginStart(s, d)
    BY <1>1
  <2> DEFINE task == [on |-> TRUE, order |-> d]
  <2>2. task \in [on: {TRUE}, order: Parcels]
    OBVIOUS
  <2>3. starting' = [starting EXCEPT ![s] = task]
    BY <2>1 DEF BeginStart
  <2> HIDE DEF task
  <2>4. starting' \in [Starters -> {Nothing} \cup [on: {TRUE}, order: Parcels]]
    BY <2>2, <2>3
  <2> QED
    BY <2>1, <2>4 DEF BeginStart
<1>2. CASE \E s \in Starters : CommitStart(s)
  <2>1. PICK s \in Starters : CommitStart(s)
    BY <1>2
  <2>2. starting[s] \in [on: {TRUE}, order: Parcels]
    <3>1. starting[s] \in {Nothing} \cup [on: {TRUE}, order: Parcels] /\ starting[s].on
      BY <2>1 DEF CommitStart
    <3>2. ~Nothing.on
      BY DEF Nothing
    <3> QED
      BY <3>1, <3>2
  <2>3. starting[s].order \in Parcels
    BY <2>2
  <2>4. route' \in [Parcels -> Ways] /\ claim' \in [Parcels -> BOOLEAN]
    BY <2>1, <2>3 DEF CommitStart, Ways
  <2>5. starting' \in [Starters -> {Nothing} \cup [on: {TRUE}, order: Parcels]]
    BY <2>1 DEF CommitStart
  <2> QED
    BY <2>1, <2>4, <2>5 DEF CommitStart
<1>3. CASE \E d \in Parcels : Finish(d) \/ Late(d)
  BY <1>3 DEF Finish, Late, Ways
<1>4. CASE \E d \in Parcels : Claim(d)
  <2>1. PICK d \in Parcels : Claim(d)
    BY <1>4
  <2>2. watch.todo \subseteq Parcels
    BY <2>1, WatchShape DEF Claim
  <2>3. watch' \in [step: {"tell", "release"}, todo: SUBSET Parcels, order: Parcels]
    BY <2>1, <2>2 DEF Claim
  <2>4. writing' \subseteq Parcels \X Alerted
    BY <2>1 DEF Claim, Of
  <2>5. claim' \in [Parcels -> BOOLEAN]
    BY <2>1 DEF Claim
  <2> QED
    BY <2>1, <2>3, <2>4, <2>5 DEF Claim
<1>5. CASE \E n \in Parcels \X Alerted : Write(n)
  BY <1>5 DEF Write
<1>6. CASE \E n \in Parcels \X Alerted : FailToWrite(n)
  <2>1. PICK n \in Parcels \X Alerted : FailToWrite(n)
    BY <1>6
  <2>2. watch' = watch \/ watch' \in [step: {"tell", "release"}, todo: SUBSET Parcels, order: Parcels]
    BY <2>1, WatchShape DEF FailToWrite
  <2> QED
    BY <2>1, <2>2 DEF FailToWrite
<1>7. CASE Check
  BY <1>7 DEF Check
<1>8. CASE AllTold
  BY <1>8, WatchShape DEF AllTold
<1>9. CASE Release
  <2>1. watch.order \in Parcels
    BY <1>9, WatchShape DEF Release
  <2> QED
    BY <1>9, <2>1 DEF Release, Released
<1>10. CASE FailRelease
  <2>1. watch.order \in Parcels
    BY <1>10, WatchShape DEF FailRelease
  <2> QED
    BY <1>10, <2>1 DEF FailRelease
<1>11. CASE EndCheck
  BY <1>11 DEF EndCheck
<1>12. CASE StopHouse
  BY <1>12 DEF StopHouse
<1> QED
  BY <1>s, <1>1, <1>2, <1>3, <1>4, <1>5, <1>6, <1>7, <1>8, <1>9, <1>10, <1>11, <1>12
     DEF DeliveriesNext

\* No step leaves a claim behind that nobody answers, but for those that a stop or a failed
\* release loses.
LEMMA ClaimsStayAnswered ==
  ASSUME DeliveriesInv, [DeliveriesNext]_deliveryVars
  PROVE  ClaimsAnswered'
<1> USE DEF DeliveriesInv
<1> SUFFICES ASSUME NEW d \in Parcels, d \notin lost', claim'[d]
             PROVE  Reported(d)' \/ BeingTold(d)' \/ BeingReleased(d)'
  BY DEF ClaimsAnswered
<1>c. claim \in [Parcels -> BOOLEAN] /\ lost \subseteq Parcels
  BY DEF DeliveriesTypeOK
<1>a. ASSUME d \notin lost, claim[d]
      PROVE  Reported(d) \/ BeingTold(d) \/ BeingReleased(d)
  BY <1>a DEF ClaimsAnswered
<1> USE DEF Reported, BeingTold, BeingReleased
<1>s. CASE UNCHANGED <<claim, watch, writing, told, lost>>
  BY <1>s, <1>a
<1>2. CASE \E s \in Starters : CommitStart(s)
  <2>1. PICK s \in Starters : CommitStart(s)
    BY <1>2
  <2>2. d # starting[s].order /\ claim[d] /\ d \notin lost
    BY <2>1, <1>c DEF CommitStart
  <2>3. Of(d) \cap Of(starting[s].order) = {}
    BY <2>2 DEF Of
  <2> QED
    BY <2>1, <2>2, <2>3, <1>a DEF CommitStart
<1>4. CASE \E e \in Parcels : Claim(e)
  <2>1. PICK e \in Parcels : Claim(e)
    BY <1>4
  <2>2. CASE d = e
    BY <2>1, <2>2 DEF Claim
  <2>3. CASE d # e
    BY <2>1, <2>3, <1>a, <1>c DEF Claim
  <2> QED
    BY <2>2, <2>3
<1>5. CASE \E n \in Parcels \X Alerted : Write(n)
  BY <1>5, <1>a DEF Write
<1>6. CASE \E n \in Parcels \X Alerted : FailToWrite(n)
  <2>1. PICK n \in Parcels \X Alerted : FailToWrite(n)
    BY <1>6
  <2>2. CASE watch.step = "tell" /\ n[1] = watch.order
    <3>1. watch'.step = "release" /\ watch'.order = watch.order
      BY <2>1, <2>2, WatchShape DEF FailToWrite
    <3> QED
      BY <3>1, <2>1, <2>2, <1>a DEF FailToWrite
  <2>3. CASE ~(watch.step = "tell" /\ n[1] = watch.order)
    <3>1. BeingTold(d) => n \notin Of(d)
      BY <2>3 DEF Of
    <3> QED
      BY <3>1, <2>1, <2>3, <1>a DEF FailToWrite
  <2> QED
    BY <2>2, <2>3
<1>7. CASE Check
  BY <1>7, <1>a, WatchShape DEF Check
<1>8. CASE AllTold
  <2>1. BeingTold(d) => Of(d) \subseteq told
    BY <1>8 DEF AllTold
  <2> QED
    BY <1>8, <2>1, <1>a DEF AllTold
<1>9. CASE Release
  BY <1>9, <1>a, <1>c, WatchShape DEF Release, Released
<1>10. CASE FailRelease
  BY <1>10, <1>a DEF FailRelease
<1>11. CASE EndCheck
  BY <1>11, <1>a DEF EndCheck
<1>12. CASE StopHouse
  BY <1>12, <1>a DEF StopHouse
<1> QED
  BY <1>s, <1>2, <1>4, <1>5, <1>6, <1>7, <1>8, <1>9, <1>10, <1>11, <1>12
     DEF DeliveriesNext, deliveryVars, BeginStart, Finish, Late

LEMMA DeliveriesInductive == DeliveriesSpec => []DeliveriesInv
<1>1. DeliveriesInit => DeliveriesInv
  BY DEF DeliveriesInit, DeliveriesInv, DeliveriesTypeOK, ClaimsAnswered, Ways
<1>2. DeliveriesInv /\ [DeliveriesNext]_deliveryVars => DeliveriesInv'
  BY DeliveriesTypes, ClaimsStayAnswered DEF DeliveriesInv
<1> QED
  BY <1>1, <1>2, PTL DEF DeliveriesSpec

\* The records of deliveries are well formed, whatever is started, late, told or stopped.
THEOREM DeliveriesTyped == DeliveriesSpec => []DeliveriesTypeOK
<1>1. DeliveriesInv => DeliveriesTypeOK
  BY DEF DeliveriesInv
<1> QED
  BY <1>1, DeliveriesInductive, PTL

\* A delivery that is claimed and not lost by a stop was reported to every role, however the
\* notifications fail and whoever starts the delivery again meanwhile.
THEOREM AlertsReachEveryone == DeliveriesSpec => []AlertsAccounted
<1>1. DeliveriesInv => AlertsAccounted
  BY WatchShape DEF DeliveriesInv, ClaimsAnswered, AlertsAccounted, Reported, BeingTold,
                    BeingReleased
<1> QED
  BY <1>1, DeliveriesInductive, PTL

-----------------------------------------------------------------------------
(* Tables: the inductive invariant *)

\* Handlers that seat orders at the same time seat different ones, and none configures.
OneSeats ==
  \A g, h \in Seating : g # h =>
    /\ hands[g].op # "configure" /\ hands[h].op # "configure"
    /\ hands[g].check # hands[h].check

\* A bill has links when it is there, and none before.
LinksOfBills ==
  \A c \in Checks :
    /\ c \notin Open => At(<<c, "order">>) = {} /\ parts[c] = "none"
    /\ parts[c] = "none" => At(<<c, "part">>) = {}

\* An order sits where it was put, whether or not a handler is at work.
Sitting ==
  \A c \in Open :
    /\ At(<<c, "order">>) = seat[c]
    /\ parts[c] = "cooking" => At(<<c, "part">>) = seat[c]

Configured == There = floors

\* What a handler read is still so.
DropsFree(w) ==
  /\ w.drop = There \ w.floors
  /\ \A l \in links : l[2] \notin w.drop
MovesWhole(w) ==
  /\ w.check \in Open
  /\ <<w.check, "order">> \in w.with
  /\ w.with \subseteq {<<w.check, "order">>, <<w.check, "part">>}
  /\ parts[w.check] = "cooking" => <<w.check, "part">> \in w.with
  /\ parts[w.check] = "none" => <<w.check, "part">> \notin w.with
  /\ w.gone = {l \in links : l[1] \in w.with}
SplitsThere(w) == w.check \in Open /\ w.at = At(<<w.check, "order">>)

ReadsCurrent ==
  \A h \in Waiters :
    /\ hands[h].op = "configure" => DropsFree(hands[h])
    /\ hands[h].op = "move" => MovesWhole(hands[h])
    /\ hands[h].op = "split" => SplitsThere(hands[h])

TablesInv ==
  /\ TablesTypeOK /\ hands = [h \in Waiters |-> hands[h]]
  /\ OneSeats /\ LinksOfBills /\ Sitting /\ Configured /\ ReadsCurrent

-----------------------------------------------------------------------------
(* Tables: the types *)

\* What a handler holds.
Hand ==
  {Empty} \cup [op: {"reserve"}, mesa: Mesas]
    \cup [op: {"configure"}, floors: SUBSET Mesas, drop: SUBSET Mesas]
    \cup [op: {"move"}, check: Checks, to: SUBSET Mesas, with: SUBSET Bills,
          gone: SUBSET (Bills \X Mesas)]
    \cup [op: {"split"}, check: Checks, at: SUBSET Mesas]

Hands == hands = [h \in Waiters |-> hands[h]] /\ \A h \in Waiters : hands[h] \in Hand

LEMMA HandsTyped ==
  ASSUME TablesTypeOK, hands = [h \in Waiters |-> hands[h]]
  PROVE  Hands
  BY DEF TablesTypeOK, Hands, Hand

LEMMA HandKinds ==
  ASSUME NEW w, w \in Hand
  PROVE  /\ w.op \in {"none", "reserve", "configure", "move", "split"}
         /\ w.op = "reserve" => w.mesa \in Mesas
         /\ w.op = "configure" => w.floors \subseteq Mesas /\ w.drop \subseteq Mesas
         /\ w.op = "move" => w.check \in Checks /\ w.to \subseteq Mesas /\ w.with \subseteq Bills
                             /\ w.gone \subseteq Bills \X Mesas
         /\ w.op = "split" => w.check \in Checks /\ w.at \subseteq Mesas
  BY DEF Hand, Empty

\* A handler takes up or lays down its task.
LEMMA HandWritten ==
  ASSUME Hands, NEW h \in Waiters, NEW w, w \in Hand, hands' = [hands EXCEPT ![h] = w]
  PROVE  /\ Hands' /\ hands'[h] = w
         /\ \A g \in Waiters : g # h => hands'[g] = hands[g]
  <1>1. \A g \in Waiters : hands'[g] = IF g = h THEN w ELSE hands[g]
    BY DEF Hands
  <1>2. hands' = [g \in Waiters |-> hands'[g]]
    BY DEF Hands
  <1> QED
    BY <1>1, <1>2 DEF Hands

LEMMA EmptyHand == Empty \in Hand /\ Empty.op = "none"
  BY DEF Hand, Empty

LEMMA LayDown ==
  ASSUME Hands, NEW h \in Waiters, Lay(h)
  PROVE  /\ Hands' /\ hands'[h].op = "none"
         /\ \A g \in Waiters : g # h => hands'[g] = hands[g]
  BY HandWritten, EmptyHand DEF Lay

\* The tables of the house, their links and the parts, apart from what handlers hold.
Furniture ==
  /\ mesas \in [Mesas -> Mesa] /\ floors \subseteq Mesas
  /\ links \subseteq Bills \X Mesas
  /\ parts \in [Checks -> {"none", "cooking", "served"}]
  /\ expiring \subseteq Mesas
  /\ DOMAIN seat \subseteq Checks /\ \A c \in DOMAIN seat : seat[c] \subseteq Mesas

LEMMA TypesApart == TablesTypeOK /\ hands = [h \in Waiters |-> hands[h]] <=> Furniture /\ Hands
  BY DEF TablesTypeOK, Furniture, Hands, Hand

LEMMA Rows ==
  /\ New \in Mesa /\ Gone \in Mesa /\ New.there /\ ~Gone.there
  /\ \A b \in Checks : <<b, "order">> \in Bills /\ <<b, "part">> \in Bills
  BY DEF New, Gone, Mesa, Estado, Bills

\* Tables, links and handlers are well formed after each step.
LEMMA TablesTypes ==
  ASSUME Furniture, Hands, [TablesNext]_tableVars
  PROVE  Furniture' /\ Hands'
<1> USE DEF Furniture
<1>s. CASE UNCHANGED tableVars
  BY <1>s DEF tableVars, Hands
<1>1. ASSUME NEW m \in Mesas, ReleaseMesa(m) \/ Expire(m) \/ \E e \in Estado : SetStatus(m, e)
      PROVE  Furniture' /\ Hands'
  <2>1. CASE ReleaseMesa(m)
    BY <2>1, Rows DEF ReleaseMesa, Hands
  <2>2. CASE Expire(m)
    BY <2>2, Rows DEF Expire, Hands
  <2>3. CASE \E e \in Estado : SetStatus(m, e)
    <3>1. PICK e \in Estado : SetStatus(m, e)
      BY <2>3
    <3>2. mesas' \in [Mesas -> Mesa]
      BY <3>1 DEF SetStatus, Mesa
    <3> QED
      BY <3>1, <3>2 DEF SetStatus, Hands
  <2> QED
    BY <1>1, <2>1, <2>2, <2>3
<1>2. CASE BeginExpiry
  BY <1>2 DEF BeginExpiry, Hands, There
<1>3. ASSUME NEW h \in Waiters, NEW m \in Mesas, BeginReserve(h, m)
      PROVE  Furniture' /\ Hands'
  <2>1. [op |-> "reserve", mesa |-> m] \in Hand
    BY DEF Hand
  <2> QED
    BY <1>3, <2>1, HandWritten DEF BeginReserve
<1>4. ASSUME NEW h \in Waiters, NEW until \in BOOLEAN, CommitReserve(h, until)
      PROVE  Furniture' /\ Hands'
  <2>1. hands[h].mesa \in Mesas
    BY <1>4, HandKinds DEF CommitReserve, Hands
  <2>2. mesas' \in [Mesas -> Mesa]
    BY <1>4, <2>1 DEF CommitReserve, Mesa, Estado
  <2> QED
    BY <1>4, <2>2, LayDown DEF CommitReserve
<1>5. ASSUME NEW h \in Waiters, BeginConfigure(h)
      PROVE  Furniture' /\ Hands'
  <2>1. PICK new \in SUBSET Mesas :
          hands' = [hands EXCEPT ![h] = [op |-> "configure", floors |-> new,
                                        drop |-> (floors \ new) \cap There]]
    BY <1>5 DEF BeginConfigure
  <2>2. [op |-> "configure", floors |-> new, drop |-> (floors \ new) \cap There] \in Hand
    BY DEF Hand
  <2> QED
    BY <1>5, <2>1, <2>2, HandWritten DEF BeginConfigure
<1>6. ASSUME NEW h \in Waiters, CommitConfigure(h)
      PROVE  Furniture' /\ Hands'
  <2>1. hands[h].floors \subseteq Mesas
    BY <1>6, HandKinds DEF CommitConfigure, Hands
  <2>2. mesas' \in [Mesas -> Mesa] /\ links' \subseteq Bills \X Mesas
    BY <1>6, Rows DEF CommitConfigure
  <2> QED
    BY <1>6, <2>1, <2>2, LayDown DEF CommitConfigure
<1>7. ASSUME NEW h \in Waiters, NEW c \in Checks, BeginSplit(h, c)
      PROVE  Furniture' /\ Hands'
  <2>1. [op |-> "split", check |-> c, at |-> At(<<c, "order">>)] \in Hand
    BY DEF Hand, At
  <2> QED
    BY <1>7, <2>1, HandWritten DEF BeginSplit
<1>8. ASSUME NEW h \in Waiters, NEW c \in Checks, NEW ms \in SUBSET Mesas, BeginMove(h, c, ms)
      PROVE  Furniture' /\ Hands'
  <2> DEFINE with == {<<c, "order">>} \cup Following(c)
             gone == {l \in links : l[1] \in with}
  <2>1. with \subseteq Bills /\ gone \subseteq Bills \X Mesas
    BY Rows DEF Following
  <2>2. hands' = [hands EXCEPT ![h] = [op |-> "move", check |-> c, to |-> ms, with |-> with,
                                      gone |-> gone]]
    BY <1>8 DEF BeginMove
  <2> HIDE DEF with, gone
  <2>3. [op |-> "move", check |-> c, to |-> ms, with |-> with, gone |-> gone] \in Hand
    BY <2>1 DEF Hand
  <2> QED
    BY <1>8, <2>2, <2>3, HandWritten DEF BeginMove
<1>9. ASSUME NEW h \in Waiters, CommitMove(h)
      PROVE  Furniture' /\ Hands'
  <2>1. /\ hands[h].check \in Checks /\ hands[h].to \subseteq Mesas
        /\ hands[h].with \subseteq Bills
    BY <1>9, HandKinds DEF CommitMove, Hands
  <2>2. links' \subseteq Bills \X Mesas
    BY <1>9, <2>1 DEF CommitMove, Link
  <2>3. DOMAIN seat' \subseteq Checks /\ \A c \in DOMAIN seat' : seat'[c] \subseteq Mesas
    BY <1>9, <2>1 DEF CommitMove
  <2> QED
    BY <1>9, <2>2, <2>3, LayDown DEF CommitMove
<1>10. ASSUME NEW h \in Waiters, CommitSplit(h)
       PROVE  Furniture' /\ Hands'
  <2>1. hands[h].check \in Checks /\ hands[h].at \subseteq Mesas
    BY <1>10, HandKinds DEF CommitSplit, Hands
  <2>2. links' \subseteq Bills \X Mesas
    <3>1. {<<hands[h].check, "part">>} \X hands[h].at \subseteq Bills \X Mesas
      BY <2>1, Rows
    <3>2. links' = links \/ links' = links \cup ({<<hands[h].check, "part">>} \X hands[h].at)
      BY <1>10 DEF CommitSplit, Link
    <3> QED
      BY <3>1, <3>2
  <2>3. parts' \in [Checks -> {"none", "cooking", "served"}]
    BY <1>10, <2>1 DEF CommitSplit
  <2> QED
    BY <1>10, <2>2, <2>3, LayDown DEF CommitSplit
<1>11. ASSUME NEW c \in Checks, Serve(c)
       PROVE  Furniture' /\ Hands'
  BY <1>11 DEF Serve, Hands
<1>12. ASSUME NEW c \in Checks, NEW ms \in SUBSET Mesas, OpenCheck(c, ms)
       PROVE  Furniture' /\ Hands'
  <2>1. links' \subseteq Bills \X Mesas
    BY <1>12, Rows DEF OpenCheck, Link
  <2>2. /\ DOMAIN seat' = Open \cup {c}
        /\ \A d \in Open \cup {c} : seat'[d] = IF d = c THEN ms ELSE seat[d]
    BY <1>12 DEF OpenCheck
  <2> QED
    BY <1>12, <2>1, <2>2 DEF OpenCheck, Open, Hands
<1> QED
  BY <1>s, <1>1, <1>2, <1>3, <1>4, <1>5, <1>6, <1>7, <1>8, <1>9, <1>10, <1>11, <1>12
     DEF TablesNext

-----------------------------------------------------------------------------
(* Tables: the steps *)

SeatsKept == OneSeats /\ LinksOfBills /\ Sitting /\ Configured /\ ReadsCurrent

LEMMA InvParts == TablesInv <=> Furniture /\ Hands /\ SeatsKept
  BY TypesApart DEF TablesInv, SeatsKept

\* A step that moves no order and no table, and begins nothing of the kind.
LEMMA NothingMoved ==
  ASSUME SeatsKept, UNCHANGED <<links, parts, seat, floors>>, There' = There,
         \A g \in Waiters : hands'[g] = hands[g] \/ hands'[g].op \in {"none", "reserve"}
  PROVE  SeatsKept'
<1>1. LinksOfBills' /\ Sitting' /\ Configured'
  BY DEF SeatsKept, LinksOfBills, Sitting, Configured, Open, At
<1>2. OneSeats'
  BY DEF SeatsKept, OneSeats, Seating
<1>3. ReadsCurrent'
  <2> SUFFICES ASSUME NEW g \in Waiters
               PROVE  /\ hands'[g].op = "configure" => DropsFree(hands[g])'
                      /\ hands'[g].op = "move" => MovesWhole(hands[g])'
                      /\ hands'[g].op = "split" => SplitsThere(hands[g])'
    BY DEF ReadsCurrent
  <2>1. CASE hands'[g] = hands[g]
    BY <2>1 DEF SeatsKept, ReadsCurrent, DropsFree, MovesWhole, SplitsThere, At, Open
  <2>2. CASE hands'[g].op \in {"none", "reserve"}
    BY <2>2
  <2> QED
    BY <2>1, <2>2
<1> QED
  BY <1>1, <1>2, <1>3 DEF SeatsKept

\* When nobody seats anybody, nothing that was read can be stale.
LEMMA NobodySeats ==
  ASSUME Seating' = {}
  PROVE  OneSeats' /\ ReadsCurrent'
  BY DEF Seating, OneSeats, ReadsCurrent

\* The links of the other orders are left alone.
LinksApart(c) ==
  \A d \in Checks \ {c} : \A l : l[1] \in {<<d, "order">>, <<d, "part">>} =>
                                  (l \in links' <=> l \in links)

\* What a handler writes of one order is not what others have read.
LEMMA OthersSeat ==
  ASSUME SeatsKept, NEW c,
         \A g \in Waiters :
           \/ /\ hands'[g] = hands[g]
              /\ g \in Seating => hands[g].op # "configure" /\ hands[g].check # c
           \/ hands'[g].op = "none",
         \A d \in Checks \ {c} : At(<<d, "order">>)' = At(<<d, "order">>) /\ parts'[d] = parts[d],
         LinksApart(c),
         Open \subseteq Checks, Open \subseteq Open'
  PROVE  OneSeats' /\ ReadsCurrent'
<1>1. OneSeats'
  BY DEF SeatsKept, OneSeats, Seating
<1>2. ReadsCurrent'
  <2> SUFFICES ASSUME NEW g \in Waiters, hands'[g].op \in {"configure", "move", "split"}
               PROVE  /\ hands'[g].op = "configure" => DropsFree(hands[g])'
                      /\ hands'[g].op = "move" => MovesWhole(hands[g])'
                      /\ hands'[g].op = "split" => SplitsThere(hands[g])'
    BY DEF ReadsCurrent
  <2>1. /\ hands'[g] = hands[g] /\ hands[g].op \in {"move", "split"} /\ hands[g].check # c
    BY DEF Seating
  <2>2. CASE hands[g].op = "move"
    <3>1. MovesWhole(hands[g])
      BY <2>2 DEF SeatsKept, ReadsCurrent
    <3>2. hands[g].check \in Checks \ {c} /\ hands[g].check \in Open'
      BY <2>1, <3>1 DEF MovesWhole
    <3>3. \A l : l[1] \in hands[g].with => (l \in links' <=> l \in links)
      BY <3>1, <3>2 DEF MovesWhole, LinksApart
    <3>4. hands[g].gone = {l \in links' : l[1] \in hands[g].with}
      BY <3>1, <3>3 DEF MovesWhole
    <3>5. parts'[hands[g].check] = parts[hands[g].check]
      BY <3>2
    <3>6. MovesWhole(hands[g])'
      <4> DEFINE k == hands[g]
      <4>1. hands'[g] = k
        BY <2>1
      <4> QED
        BY <4>1, <3>1, <3>2, <3>4, <3>5 DEF MovesWhole
    <3> QED
      BY <2>1, <2>2, <3>6
  <2>3. CASE hands[g].op = "split"
    BY <2>1, <2>3 DEF SeatsKept, ReadsCurrent, SplitsThere
  <2> QED
    BY <2>1, <2>2, <2>3
<1> QED
  BY <1>1, <1>2

\* Who configures is alone.
LEMMA LastSeats ==
  ASSUME SeatsKept, Hands, NEW h \in Seating, hands[h].op = "configure", Lay(h)
  PROVE  Seating' = {}
  <1>1. h \in Waiters /\ \A g \in Waiters : g # h => hands[g].op \notin {"configure", "move", "split"}
    BY DEF SeatsKept, OneSeats, Seating
  <1> QED
    BY <1>1, LayDown DEF Seating

\* Who seats an order lays down the task; the others seat other orders.
LEMMA SeatDone ==
  ASSUME SeatsKept, Hands, NEW h \in Seating, hands[h].op # "configure", Lay(h)
  PROVE  \A g \in Waiters :
           \/ /\ hands'[g] = hands[g]
              /\ g \in Seating => hands[g].op # "configure" /\ hands[g].check # hands[h].check
           \/ hands'[g].op = "none"
  BY LayDown DEF SeatsKept, OneSeats, Seating

\* A handler that begins read what is so, next to others that seat other orders.
LEMMA FirstSeats ==
  ASSUME SeatsKept, NEW h \in Waiters, \A g \in Waiters : g # h => hands'[g] = hands[g],
         UNCHANGED <<mesas, floors, links, parts, seat>>,
         hands'[h].op = "configure" => Seating = {},
         hands'[h].op \in {"move", "split"} =>
           \A g \in Seating : hands[g].op # "configure" /\ hands[g].check # hands'[h].check,
         /\ hands'[h].op = "configure" => DropsFree(hands[h])'
         /\ hands'[h].op = "move" => MovesWhole(hands[h])'
         /\ hands'[h].op = "split" => SplitsThere(hands[h])'
  PROVE  OneSeats' /\ ReadsCurrent'
  <1>2. OneSeats'
    BY DEF SeatsKept, OneSeats, Seating
  <1>3. ReadsCurrent'
    <2> SUFFICES ASSUME NEW g \in Waiters
                 PROVE  /\ hands'[g].op = "configure" => DropsFree(hands[g])'
                        /\ hands'[g].op = "move" => MovesWhole(hands[g])'
                        /\ hands'[g].op = "split" => SplitsThere(hands[g])'
      BY DEF ReadsCurrent
    <2>1. CASE g = h
      BY <2>1
    <2>2. CASE g # h
      BY <2>2 DEF SeatsKept, ReadsCurrent, DropsFree, MovesWhole, SplitsThere, At, Open, There
    <2> QED
      BY <2>1, <2>2
  <1> QED
    BY <1>2, <1>3

\* Tables change their state, and none comes or goes.
LEMMA TablesOnly ==
  ASSUME TablesInv,
         \/ \E m \in Mesas : ReleaseMesa(m) \/ Expire(m) \/ \E e \in Estado : SetStatus(m, e)
         \/ BeginExpiry
         \/ \E h \in Waiters : \/ \E m \in Mesas : BeginReserve(h, m)
                               \/ \E until \in BOOLEAN : CommitReserve(h, until)
  PROVE  SeatsKept'
<1> USE InvParts
<1>0. mesas \in [Mesas -> Mesa] /\ Hands
  BY DEF Furniture
<1>1. ASSUME There' = There, UNCHANGED <<links, parts, seat, floors, hands>>
      PROVE  SeatsKept'
  BY <1>1, NothingMoved
<1>2. ASSUME NEW m \in Mesas, ReleaseMesa(m)
      PROVE  SeatsKept'
  <2>1. There' = There
    BY <1>0, <1>2, Rows DEF ReleaseMesa, There
  <2> QED
    BY <1>1, <1>2, <2>1 DEF ReleaseMesa
<1>3. ASSUME NEW m \in Mesas, Expire(m)
      PROVE  SeatsKept'
  <2>1. There' = There
    BY <1>0, <1>3, Rows DEF Expire, There
  <2> QED
    BY <1>1, <1>3, <2>1 DEF Expire
<1>4. ASSUME NEW m \in Mesas, NEW e \in Estado, SetStatus(m, e)
      PROVE  SeatsKept'
  <2>1. There' = There
    BY <1>0, <1>4 DEF SetStatus, There, Mesa
  <2> QED
    BY <1>1, <1>4, <2>1 DEF SetStatus
<1>5. CASE BeginExpiry
  BY <1>1, <1>5 DEF BeginExpiry, There
<1>6. ASSUME NEW h \in Waiters, NEW m \in Mesas, BeginReserve(h, m)
      PROVE  SeatsKept'
  <2>1. [op |-> "reserve", mesa |-> m] \in Hand /\ [op |-> "reserve", mesa |-> m].op = "reserve"
    BY DEF Hand
  <2>2. \A g \in Waiters : hands'[g] = hands[g] \/ hands'[g].op = "reserve"
    BY <1>0, <1>6, <2>1, HandWritten DEF BeginReserve
  <2> QED
    BY <1>6, <2>2, NothingMoved DEF BeginReserve, There
<1>7. ASSUME NEW h \in Waiters, NEW until \in BOOLEAN, CommitReserve(h, until)
      PROVE  SeatsKept'
  <2>1. There' = There
    BY <1>0, <1>7 DEF CommitReserve, There, Mesa
  <2>2. \A g \in Waiters : hands'[g] = hands[g] \/ hands'[g].op = "none"
    BY <1>0, <1>7, LayDown DEF CommitReserve
  <2> QED
    BY <1>7, <2>1, <2>2, NothingMoved DEF CommitReserve
<1> QED
  BY <1>2, <1>3, <1>4, <1>5, <1>6, <1>7

\* A table that has an order is not taken away, and the tables are those that are configured.
LEMMA ConfigureKeeps ==
  ASSUME MovesApart, TablesInv, NEW h \in Waiters, BeginConfigure(h) \/ CommitConfigure(h)
  PROVE  SeatsKept'
<1> USE InvParts
<1>1. CASE BeginConfigure(h)
  <2>1. Seating = {} /\ UNCHANGED <<mesas, floors, links, parts, seat>>
    BY <1>1 DEF BeginConfigure
  <2>2. PICK new \in SUBSET Mesas :
          /\ \A m \in (floors \ new) \cap There : \A b \in Bills : m \notin At(b)
          /\ hands' = [hands EXCEPT ![h] = [op |-> "configure", floors |-> new,
                                           drop |-> (floors \ new) \cap There]]
    BY <1>1 DEF BeginConfigure
  <2>3. [op |-> "configure", floors |-> new, drop |-> (floors \ new) \cap There] \in Hand
    BY DEF Hand, Furniture
  <2>4. /\ \A g \in Waiters : g # h => hands'[g] = hands[g]
        /\ hands'[h] = [op |-> "configure", floors |-> new, drop |-> (floors \ new) \cap There]
    BY <2>2, <2>3, HandWritten
  <2>5. There' = There /\ floors = There
    BY <2>1 DEF There, SeatsKept, Configured
  <2>6. DropsFree(hands[h])'
    <3>1. \A l \in links : l[1] \in Bills /\ l[2] \in Mesas /\ l = <<l[1], l[2]>>
      BY DEF Furniture
    <3>2. \A l \in links : l[2] \notin (floors \ new) \cap There
      BY <2>2, <3>1 DEF At
    <3> QED
      BY <2>1, <2>4, <2>5, <3>2 DEF DropsFree
  <2>7. OneSeats' /\ ReadsCurrent'
    BY <2>1, <2>4, <2>6, FirstSeats
  <2>8. LinksOfBills' /\ Sitting' /\ Configured'
    BY <2>1, <2>5 DEF SeatsKept, LinksOfBills, Sitting, Configured, Open, At
  <2> QED
    BY <2>7, <2>8 DEF SeatsKept
<1>2. CASE CommitConfigure(h)
  <2> DEFINE new == hands[h].floors
             drop == hands[h].drop
  <2>1. h \in Seating /\ Seating' = {}
    BY <1>2, LastSeats DEF CommitConfigure, Seating, SeatsKept
  <2>2. drop = There \ new /\ (\A l \in links : l[2] \notin drop) /\ new \subseteq Mesas
    BY <1>2, HandKinds DEF CommitConfigure, SeatsKept, ReadsCurrent, DropsFree, Hands
  <2>3. links' = links /\ UNCHANGED <<parts, seat>> /\ floors' = new
    BY <1>2, <2>2 DEF CommitConfigure
  <2>4. There' = new
    <3>1. \A m \in Mesas : mesas'[m] = IF m \in drop THEN Gone
                                       ELSE IF m \in new /\ m \notin There THEN New ELSE mesas[m]
      BY <1>2 DEF CommitConfigure
    <3>2. \A m \in Mesas : mesas'[m].there <=> m \in new
      BY <3>1, <2>2, Rows DEF There
    <3> QED
      BY <3>2, <2>2 DEF There
  <2>5. LinksOfBills' /\ Sitting' /\ Configured'
    BY <2>3, <2>4 DEF SeatsKept, LinksOfBills, Sitting, Configured, Open, At
  <2> QED
    BY <2>1, <2>5, NobodySeats DEF SeatsKept
<1> QED
  BY <1>1, <1>2

\* An order moves with the part that is still cooking.
LEMMA MoveKeeps ==
  ASSUME MovesApart, TablesInv, NEW h \in Waiters,
         CommitMove(h) \/ \E c \in Checks, ms \in SUBSET Mesas : BeginMove(h, c, ms)
  PROVE  SeatsKept'
<1> USE InvParts
<1>1. ASSUME NEW c \in Checks, NEW ms \in SUBSET Mesas, BeginMove(h, c, ms)
      PROVE  SeatsKept'
  <2> DEFINE with == {<<c, "order">>} \cup Following(c)
             gone == {l \in links : l[1] \in with}
             w == [op |-> "move", check |-> c, to |-> ms, with |-> with, gone |-> gone]
  <2>1. /\ \A g \in Seating : hands[g].op # "configure" /\ hands[g].check # c
        /\ UNCHANGED <<mesas, floors, links, parts, seat>> /\ c \in Open
        /\ hands' = [hands EXCEPT ![h] = w]
    BY <1>1 DEF BeginMove, Apart
  <2>2. w \in Hand
    <3>1. with \subseteq Bills /\ gone \subseteq Bills \X Mesas
      BY Rows DEF Following, Furniture
    <3> HIDE DEF with, gone
    <3> QED
      BY <3>1 DEF Hand
  <2>3. with \subseteq {<<c, "order">>, <<c, "part">>} /\ <<c, "order">> \in with
        /\ (parts[c] = "cooking" <=> <<c, "part">> \in with)
    BY DEF Following
  <2>4. w.op = "move" /\ w.check = c /\ w.with = with /\ w.gone = gone
    OBVIOUS
  <2>5. gone = {l \in links : l[1] \in with}
    OBVIOUS
  <2> HIDE DEF w, gone, with
  <2>6. (\A g \in Waiters : g # h => hands'[g] = hands[g]) /\ hands'[h] = w
    BY <2>1, <2>2, HandWritten
  <2>7. MovesWhole(hands[h])'
    BY <2>1, <2>3, <2>4, <2>5, <2>6 DEF MovesWhole, Open
  <2>8. OneSeats' /\ ReadsCurrent'
    BY <2>1, <2>4, <2>6, <2>7, FirstSeats
  <2>9. LinksOfBills' /\ Sitting' /\ Configured'
    BY <2>1 DEF SeatsKept, LinksOfBills, Sitting, Configured, Open, At, There
  <2> QED
    BY <2>8, <2>9 DEF SeatsKept
<1>2. CASE CommitMove(h)
  <2> DEFINE w == hands[h]
             c == w.check
  <2>1. /\ \A g \in Waiters :
             \/ /\ hands'[g] = hands[g]
                /\ g \in Seating => hands[g].op # "configure" /\ hands[g].check # c
             \/ hands'[g].op = "none"
    BY <1>2, SeatDone DEF CommitMove, Seating
  <2>2. /\ c \in Open /\ <<c, "order">> \in w.with
        /\ w.with \subseteq {<<c, "order">>, <<c, "part">>}
        /\ parts[c] = "cooking" => <<c, "part">> \in w.with
        /\ parts[c] = "none" => <<c, "part">> \notin w.with
        /\ w.gone = {l \in links : l[1] \in w.with}
    BY <1>2 DEF CommitMove, SeatsKept, ReadsCurrent, MovesWhole
  <2>3. w.to \subseteq Mesas
    BY <1>2, HandKinds DEF CommitMove, Hands
  <2>4. Configured' /\ UNCHANGED parts
    BY <1>2 DEF CommitMove, SeatsKept, Configured, There
  <2>5. CASE UNCHANGED <<links, seat>>
    <3>1. LinksOfBills' /\ Sitting'
      BY <2>4, <2>5 DEF SeatsKept, LinksOfBills, Sitting, Open, At
    <3>2. OneSeats' /\ ReadsCurrent'
      BY <2>1, <2>4, <2>5, OthersSeat DEF At, Open, LinksApart, Furniture
    <3> QED
      BY <2>4, <3>1, <3>2 DEF SeatsKept
  <2>6. CASE /\ links' = (links \ w.gone) \cup Link(w.with, w.to)
             /\ seat' = [seat EXCEPT ![c] = w.to]
    <3>1. \A b : At(b)' = IF b \in w.with THEN w.to ELSE At(b)
      <4> SUFFICES ASSUME NEW b
                   PROVE  At(b)' = IF b \in w.with THEN w.to ELSE At(b)
        OBVIOUS
      <4>1. \A m \in Mesas : <<b, m>> \in links' <=>
              (<<b, m>> \in links /\ b \notin w.with) \/ (b \in w.with /\ m \in w.to)
        BY <2>2, <2>6 DEF Link
      <4> QED
        BY <4>1, <2>3 DEF At
    <3>2. DOMAIN seat' = DOMAIN seat /\ \A d \in DOMAIN seat : seat'[d] = IF d = c THEN w.to ELSE seat[d]
      BY <2>6
    <3>3. LinksOfBills'
      <4> SUFFICES ASSUME NEW d \in Checks
                   PROVE  /\ d \notin Open' => At(<<d, "order">>)' = {} /\ parts'[d] = "none"
                          /\ parts'[d] = "none" => At(<<d, "part">>)' = {}
        BY DEF LinksOfBills
      <4>1. Open' = Open
        BY <3>2 DEF Open
      <4>2. d # c => <<d, "order">> \notin w.with /\ <<d, "part">> \notin w.with
        BY <2>2
      <4> QED
        BY <4>1, <4>2, <3>1, <2>2, <2>4 DEF SeatsKept, LinksOfBills
    <3>4. Sitting'
      <4> SUFFICES ASSUME NEW d \in Open'
                   PROVE  /\ At(<<d, "order">>)' = seat'[d]
                          /\ parts'[d] = "cooking" => At(<<d, "part">>)' = seat'[d]
        BY DEF Sitting
      <4>1. Open' = Open /\ seat'[d] = IF d = c THEN w.to ELSE seat[d]
        BY <3>2 DEF Open
      <4>2. d # c => <<d, "order">> \notin w.with /\ <<d, "part">> \notin w.with
        BY <2>2
      <4> QED
        BY <4>1, <4>2, <3>1, <2>2, <2>4 DEF SeatsKept, Sitting
    <3>5. \A d \in Checks \ {c} : At(<<d, "order">>)' = At(<<d, "order">>) /\ parts'[d] = parts[d]
      <4>1. \A d \in Checks \ {c} : <<d, "order">> \notin w.with
        BY <2>2
      <4> QED
        BY <2>4, <3>1, <4>1
    <3>7. LinksApart(c)
      <4> SUFFICES ASSUME NEW d \in Checks \ {c}, NEW l, l[1] \in {<<d, "order">>, <<d, "part">>}
                   PROVE  l \in links' <=> l \in links
        BY DEF LinksApart
      <4>1. l[1] \notin w.with
        BY <2>2
      <4>2. \A k \in Link(w.with, w.to) : k[1] \in w.with
        BY DEF Link
      <4> QED
        BY <2>2, <2>6, <4>1, <4>2
    <3>6. OneSeats' /\ ReadsCurrent'
      BY <2>1, <3>2, <3>5, <3>7, OthersSeat DEF Open, Furniture
    <3> QED
      BY <2>4, <3>3, <3>4, <3>6 DEF SeatsKept
  <2> QED
    BY <1>2, <2>5, <2>6 DEF CommitMove
<1> QED
  BY <1>1, <1>2

\* A paid part gets the tables of its order.
LEMMA SplitKeeps ==
  ASSUME MovesApart, TablesInv, NEW h \in Waiters,
         CommitSplit(h) \/ \E c \in Checks : BeginSplit(h, c)
  PROVE  SeatsKept'
<1> USE InvParts
<1>1. ASSUME NEW c \in Checks, BeginSplit(h, c)
      PROVE  SeatsKept'
  <2> DEFINE w == [op |-> "split", check |-> c, at |-> At(<<c, "order">>)]
  <2>1. /\ \A g \in Seating : hands[g].op # "configure" /\ hands[g].check # c
        /\ UNCHANGED <<mesas, floors, links, parts, seat>> /\ c \in Open
        /\ hands' = [hands EXCEPT ![h] = w]
    BY <1>1 DEF BeginSplit, Apart
  <2>2. w \in Hand /\ w.op = "split" /\ w.check = c /\ w.at = At(<<c, "order">>)
    BY DEF Hand, At
  <2> HIDE DEF w
  <2>3. (\A g \in Waiters : g # h => hands'[g] = hands[g]) /\ hands'[h] = w
    BY <2>1, <2>2, HandWritten
  <2>4. SplitsThere(hands[h])'
    BY <2>1, <2>2, <2>3 DEF SplitsThere, Open, At
  <2>5. OneSeats' /\ ReadsCurrent'
    BY <2>1, <2>2, <2>3, <2>4, FirstSeats
  <2>6. LinksOfBills' /\ Sitting' /\ Configured'
    BY <2>1 DEF SeatsKept, LinksOfBills, Sitting, Configured, Open, At, There
  <2> QED
    BY <2>5, <2>6 DEF SeatsKept
<1>2. CASE CommitSplit(h)
  <2> DEFINE c == hands[h].check
  <2>1. /\ \A g \in Waiters :
             \/ /\ hands'[g] = hands[g]
                /\ g \in Seating => hands[g].op # "configure" /\ hands[g].check # c
             \/ hands'[g].op = "none"
    BY <1>2, SeatDone DEF CommitSplit, Seating
  <2>2. c \in Open /\ hands[h].at = At(<<c, "order">>) /\ At(<<c, "order">>) = seat[c]
    BY <1>2 DEF CommitSplit, SeatsKept, ReadsCurrent, SplitsThere, Sitting
  <2>3. Configured' /\ UNCHANGED seat
    BY <1>2 DEF CommitSplit, SeatsKept, Configured, There
  <2>4. CASE UNCHANGED <<links, parts>>
    <3>1. LinksOfBills' /\ Sitting'
      BY <2>3, <2>4 DEF SeatsKept, LinksOfBills, Sitting, Open, At
    <3>2. OneSeats' /\ ReadsCurrent'
      BY <2>1, <2>3, <2>4, OthersSeat DEF At, Open, LinksApart, Furniture
    <3> QED
      BY <2>3, <3>1, <3>2 DEF SeatsKept
  <2>5. CASE /\ parts[c] = "none"
             /\ links' = links \cup Link({<<c, "part">>}, hands[h].at)
             /\ parts' = [parts EXCEPT ![c] = "cooking"]
    <3>1. c \in Checks /\ parts \in [Checks -> {"none", "cooking", "served"}]
      BY <2>2 DEF Furniture, Open
    <3>2. At(<<c, "part">>) = {}
      BY <2>5, <3>1 DEF SeatsKept, LinksOfBills
    <3>3. \A b : At(b)' = IF b = <<c, "part">> THEN seat[c] ELSE At(b)
      <4> SUFFICES ASSUME NEW b
                   PROVE  At(b)' = IF b = <<c, "part">> THEN seat[c] ELSE At(b)
        OBVIOUS
      <4>1. \A m \in Mesas : <<b, m>> \in links' <=>
              <<b, m>> \in links \/ (b = <<c, "part">> /\ m \in seat[c])
        BY <2>2, <2>5 DEF Link
      <4>2. seat[c] \subseteq Mesas
        BY <2>2 DEF At
      <4>3. b = <<c, "part">> => \A m \in Mesas : <<b, m>> \notin links
        BY <3>2 DEF At
      <4> QED
        BY <4>1, <4>2, <4>3 DEF At
    <3>4. \A d \in Checks : parts'[d] = IF d = c THEN "cooking" ELSE parts[d]
      BY <2>5, <3>1
    <3>5. LinksOfBills'
      <4> SUFFICES ASSUME NEW d \in Checks
                   PROVE  /\ d \notin Open' => At(<<d, "order">>)' = {} /\ parts'[d] = "none"
                          /\ parts'[d] = "none" => At(<<d, "part">>)' = {}
        BY DEF LinksOfBills
      <4>1. Open' = Open /\ At(<<d, "order">>)' = At(<<d, "order">>)
        BY <2>3, <3>3 DEF Open
      <4>2. d # c => At(<<d, "part">>)' = At(<<d, "part">>) /\ parts'[d] = parts[d]
        BY <3>3, <3>4
      <4> QED
        BY <4>1, <4>2, <3>4, <2>2 DEF SeatsKept, LinksOfBills
    <3>6. Sitting'
      <4> SUFFICES ASSUME NEW d \in Open'
                   PROVE  /\ At(<<d, "order">>)' = seat'[d]
                          /\ parts'[d] = "cooking" => At(<<d, "part">>)' = seat'[d]
        BY DEF Sitting
      <4>1. d \in Open /\ d \in Checks /\ At(<<d, "order">>)' = At(<<d, "order">>) /\ seat' = seat
        BY <2>3, <3>3 DEF Open, Furniture
      <4>2. d # c => At(<<d, "part">>)' = At(<<d, "part">>) /\ parts'[d] = parts[d]
        BY <3>3, <3>4, <4>1
      <4> QED
        BY <4>1, <4>2, <3>3 DEF SeatsKept, Sitting
    <3>7. \A l : l \in links' /\ l \notin links => l[1] = <<c, "part">>
      BY <2>5 DEF Link
    <3>8. \A d \in Checks \ {c} : At(<<d, "order">>)' = At(<<d, "order">>) /\ parts'[d] = parts[d]
      BY <3>3, <3>4
    <3>10. LinksApart(c)
      <4> SUFFICES ASSUME NEW d \in Checks \ {c}, NEW l, l[1] \in {<<d, "order">>, <<d, "part">>}
                   PROVE  l \in links' <=> l \in links
        BY DEF LinksApart
      <4>1. l[1] # <<c, "part">>
        OBVIOUS
      <4> QED
        BY <2>5, <3>7, <4>1
    <3>9. OneSeats' /\ ReadsCurrent'
      BY <2>1, <2>3, <3>8, <3>10, OthersSeat DEF Open, Furniture
    <3> QED
      BY <2>3, <3>5, <3>6, <3>9 DEF SeatsKept
  <2> QED
    BY <1>2, <2>4, <2>5 DEF CommitSplit
<1> QED
  BY <1>1, <1>2

\* An order is opened where it sits, and a part that is served may be left behind.
LEMMA OrdersKeep ==
  ASSUME MovesApart, TablesInv, NEW c \in Checks,
         Serve(c) \/ \E ms \in SUBSET Mesas : OpenCheck(c, ms)
  PROVE  SeatsKept'
<1> USE InvParts
<1>1. CASE Serve(c)
  <2>1. /\ \A d \in Checks : parts'[d] = IF d = c THEN "served" ELSE parts[d]
        /\ parts[c] = "cooking" /\ UNCHANGED <<mesas, floors, links, hands, seat>>
    BY <1>1 DEF Serve, Furniture
  <2>2. LinksOfBills' /\ Configured'
    BY <2>1 DEF SeatsKept, LinksOfBills, Configured, Open, At, There
  <2>3. Sitting'
    BY <2>1 DEF SeatsKept, Sitting, Open, At, Furniture
  <2>4. OneSeats'
    BY <2>1 DEF SeatsKept, OneSeats, Seating
  <2>5. ReadsCurrent'
    <3> SUFFICES ASSUME NEW g \in Waiters
                 PROVE  /\ hands'[g].op = "configure" => DropsFree(hands[g])'
                        /\ hands'[g].op = "move" => MovesWhole(hands[g])'
                        /\ hands'[g].op = "split" => SplitsThere(hands[g])'
      BY DEF ReadsCurrent
    <3>1. CASE hands[g].op = "move"
      <4>1. MovesWhole(hands[g]) /\ hands[g].check \in Checks
        BY <3>1, HandKinds DEF SeatsKept, ReadsCurrent, Hands
      <4>2. MovesWhole(hands[g])'
        BY <2>1, <4>1 DEF MovesWhole, Open
      <4> QED
        BY <2>1, <3>1, <4>2
    <3>2. CASE hands[g].op # "move"
      BY <2>1, <3>2 DEF SeatsKept, ReadsCurrent, DropsFree, SplitsThere, At, Open, There
    <3> QED
      BY <3>1, <3>2
  <2> QED
    BY <2>2, <2>3, <2>4, <2>5 DEF SeatsKept
<1>2. ASSUME NEW ms \in SUBSET Mesas, OpenCheck(c, ms)
      PROVE  SeatsKept'
  <2>1. /\ c \notin Open /\ UNCHANGED <<mesas, floors, parts, hands>>
        /\ \A g \in Seating : hands[g].op # "configure" /\ hands[g].check # c
        /\ links' = links \cup Link({<<c, "order">>}, ms)
    BY <1>2 DEF OpenCheck, Apart
  <2>2. Open' = Open \cup {c} /\ \A d \in Open' : seat'[d] = IF d = c THEN ms ELSE seat[d]
    BY <1>2 DEF OpenCheck, Open
  <2>3. At(<<c, "order">>) = {} /\ parts[c] = "none"
    BY <2>1 DEF SeatsKept, LinksOfBills
  <2>4. \A b : At(b)' = IF b = <<c, "order">> THEN ms ELSE At(b)
    <3> SUFFICES ASSUME NEW b
                 PROVE  At(b)' = IF b = <<c, "order">> THEN ms ELSE At(b)
      OBVIOUS
    <3>1. \A m \in Mesas : <<b, m>> \in links' <=>
            <<b, m>> \in links \/ (b = <<c, "order">> /\ m \in ms)
      BY <2>1 DEF Link
    <3>2. b = <<c, "order">> => \A m \in Mesas : <<b, m>> \notin links
      BY <2>3 DEF At
    <3> QED
      BY <3>1, <3>2 DEF At
  <2>5. LinksOfBills'
    <3> SUFFICES ASSUME NEW d \in Checks
                 PROVE  /\ d \notin Open' => At(<<d, "order">>)' = {} /\ parts'[d] = "none"
                        /\ parts'[d] = "none" => At(<<d, "part">>)' = {}
      BY DEF LinksOfBills
    <3>1. At(<<d, "part">>)' = At(<<d, "part">>)
      BY <2>4
    <3>2. d # c => At(<<d, "order">>)' = At(<<d, "order">>)
      BY <2>4
    <3> QED
      BY <2>1, <2>2, <3>1, <3>2 DEF SeatsKept, LinksOfBills
  <2>6. Sitting'
    <3> SUFFICES ASSUME NEW d \in Open'
                 PROVE  /\ At(<<d, "order">>)' = seat'[d]
                        /\ parts'[d] = "cooking" => At(<<d, "part">>)' = seat'[d]
      BY DEF Sitting
    <3>1. At(<<d, "part">>)' = At(<<d, "part">>)
      BY <2>4
    <3>2. d # c => At(<<d, "order">>)' = At(<<d, "order">>) /\ d \in Open
      BY <2>2, <2>4
    <3> QED
      BY <2>1, <2>2, <2>3, <2>4, <3>1, <3>2 DEF SeatsKept, Sitting
  <2>9. \A l : l \in links' /\ l \notin links => l[1] = <<c, "order">>
    BY <2>1 DEF Link
  <2>10. /\ \A d \in Checks \ {c} : At(<<d, "order">>)' = At(<<d, "order">>) /\ parts'[d] = parts[d]
         /\ LinksApart(c)
    BY <2>1, <2>4, <2>9 DEF LinksApart
  <2>7. OneSeats' /\ ReadsCurrent'
    BY <2>1, <2>2, <2>10, OthersSeat DEF Open, Furniture
  <2>8. Configured'
    BY <2>1 DEF SeatsKept, Configured, There
  <2> QED
    BY <2>5, <2>6, <2>7, <2>8 DEF SeatsKept
<1> QED
  BY <1>1, <1>2

LEMMA TablesKept ==
  ASSUME MovesApart, TablesInv, [TablesNext]_tableVars
  PROVE  TablesInv'
<1>1. Furniture' /\ Hands'
  BY InvParts, TablesTypes
<1>2. CASE UNCHANGED tableVars
  <2>1. UNCHANGED <<mesas, links, parts, seat, floors, hands>> /\ There' = There
    BY <1>2 DEF tableVars, There
  <2>2. SeatsKept'
    BY <2>1, InvParts, NothingMoved
  <2> QED
    BY <1>1, <2>2 DEF TablesInv, SeatsKept, TablesTypeOK, Furniture, Hands, Hand
<1>3. CASE TablesNext
  <2>1. SeatsKept'
    <3>1. CASE \/ \E m \in Mesas : ReleaseMesa(m) \/ Expire(m) \/ \E e \in Estado : SetStatus(m, e)
               \/ BeginExpiry
               \/ \E h \in Waiters : \/ \E m \in Mesas : BeginReserve(h, m)
                                     \/ \E until \in BOOLEAN : CommitReserve(h, until)
      BY <3>1, TablesOnly
    <3>2. CASE \E h \in Waiters : BeginConfigure(h) \/ CommitConfigure(h)
      BY <3>2, ConfigureKeeps
    <3>3. CASE \E h \in Waiters :
                 CommitMove(h) \/ \E c \in Checks, ms \in SUBSET Mesas : BeginMove(h, c, ms)
      BY <3>3, MoveKeeps
    <3>4. CASE \E h \in Waiters : CommitSplit(h) \/ \E c \in Checks : BeginSplit(h, c)
      BY <3>4, SplitKeeps
    <3>5. CASE \E c \in Checks : Serve(c) \/ \E ms \in SUBSET Mesas : OpenCheck(c, ms)
      BY <3>5, OrdersKeep
    <3> QED
      BY <1>3, <3>1, <3>2, <3>3, <3>4, <3>5 DEF TablesNext
  <2> QED
    BY <1>1, <2>1 DEF TablesInv, SeatsKept, TablesTypeOK, Furniture, Hands, Hand
<1> QED
  BY <1>2, <1>3

LEMMA TablesInductive ==
  ASSUME MovesApart
  PROVE  TablesSpec => []TablesInv
<1>1. TablesInit => TablesInv
  <2> SUFFICES ASSUME TablesInit
               PROVE  TablesInv
    OBVIOUS
  <2> USE DEF TablesInit
  <2>1. Furniture
    BY Rows DEF Furniture
  <2>2. Hands /\ Seating = {}
    BY EmptyHand DEF Hands, Seating
  <2>3. OneSeats /\ ReadsCurrent
    BY EmptyHand DEF OneSeats, ReadsCurrent, Seating
  <2>4. LinksOfBills /\ Sitting /\ Configured
    BY Rows DEF LinksOfBills, Sitting, Configured, There, At, Open
  <2> QED
    BY <2>1, <2>2, <2>3, <2>4, InvParts DEF SeatsKept
<1>2. TablesInv /\ [TablesNext]_tableVars => TablesInv'
  BY TablesKept
<1> QED
  BY <1>1, <1>2, PTL DEF TablesSpec

\* The records of tables, links and handlers are well formed, whatever overlaps.
THEOREM TablesTyped == TablesSpec => []TablesTypeOK
<1>1. TablesInit => Furniture /\ Hands
  BY Rows, EmptyHand DEF TablesInit, Furniture, Hands
<1>2. (Furniture /\ Hands) /\ [TablesNext]_tableVars => (Furniture /\ Hands)'
  BY TablesTypes
<1>3. Furniture /\ Hands => TablesTypeOK
  BY TypesApart
<1> QED
  BY <1>1, <1>2, <1>3, PTL DEF TablesSpec

\* Moves and splits of different orders, and new orders, overlap as they like, and change the
\* links of tables that they share.  Where no two of them are of one order, and tables are
\* configured apart from them, an order and the part of it that is still cooking sit where the
\* order was put last, and the tables are those that are configured.
THEOREM OrdersAreSeated ==
  ASSUME MovesApart
  PROVE  TablesSpec => []Seated
<1>1. TablesInv => Seated
  BY DEF TablesInv, Sitting, Configured, Seated
<1> QED
  BY <1>1, TablesInductive, PTL

-----------------------------------------------------------------------------
(* Kitchen tickets: the types *)

Todo == UNION {[S -> Line] : S \in SUBSET Lines}

ReadRow == [op: {"ticket"}, stage: {"read"}, was: BOOLEAN, on: Target, round: 1..Rounds,
            to: Marks]
ItemsRow == [op: {"ticket"}, stage: {"found", "items"}, was: BOOLEAN, at: SUBSET AllKitchens,
             to: Marks, todo: Todo]
ReloadedRow == [op: {"ticket"}, stage: {"reloaded"}, now: Progress, announce: BOOLEAN]
ScreenRow == [op: {"screen"}, shown: [Lines -> Line]]
EditRow == [op: {"edit"}, shown: [Lines -> Line], there: SUBSET Lines, was: BOOLEAN,
            fresh: BOOLEAN]
OrderRow == [op: {"order"}, seen: [Lines -> Line]]
TicketRow == ReadRow \cup ItemsRow \cup ReloadedRow
CookRow == {Resting} \cup TicketRow \cup ScreenRow \cup EditRow \cup OrderRow

\* Whatever was sent and is still there has a status of its own.
Statuses(ls) == \A i \in Lines : ls[i].sent > 0 => ls[i].st \in Progress

Shown(w) == (w.op \in {"screen", "edit"} => Statuses(w.shown))
            /\ (w.op = "order" => Statuses(w.seen))

KitchenShape ==
  /\ lines \in [Lines -> Line] /\ Statuses(lines) /\ status \in Progress
  /\ work \in [Cooks -> CookRow] /\ \A h \in Cooks : Shown(work[h])
  /\ round \in 0..Rounds /\ owed \subseteq Lines

LEMMA LineKinds ==
  /\ NoLine \in Line /\ NoLine.sent = 0 /\ NoLine.st = "pending"
  /\ Deleted \in Line /\ Deleted.sent = 0 /\ Deleted.st = "deleted"
  /\ \A l \in Line : l.sent \in 0..Rounds /\ l.st \in Progress \cup {"deleted"}
                     /\ l.parts \in [AllKitchens -> Progress]
<1>1. NoLine \in Line
  BY KitchenAssumption DEF Line, NoLine, Progress
<1>2. Deleted \in Line /\ Deleted.sent = 0 /\ Deleted.st = "deleted"
  BY <1>1 DEF Line, NoLine, Deleted
<1> QED
  BY <1>1, <1>2 DEF Line, NoLine

\* An item that is sent.
LEMMA LineSent ==
  \A n \in 0..Rounds : /\ [NoLine EXCEPT !.sent = n] \in Line
                       /\ [NoLine EXCEPT !.sent = n].sent = n
                       /\ [NoLine EXCEPT !.sent = n].st = "pending"
<1>1. NoLine \in Line /\ NoLine.st = "pending"
  BY LineKinds
<1> QED
  BY <1>1 DEF Line

LEMMA OverallIs ==
  \A i \in Lines : \A marks : Overall(i, marks) \in Progress
  BY DEF Overall, Progress

LEMMA MarkedIs ==
  ASSUME NEW l \in Line, NEW i \in Lines, NEW at, NEW to \in Marks
  PROVE  /\ Marked(l, i, at, to) \in Line /\ Marked(l, i, at, to).sent = l.sent
         /\ Marked(l, i, at, to).st \in Progress
<1> DEFINE marks == [k \in AllKitchens |-> IF k \in KitchensOf[i] \cap at THEN to ELSE l.parts[k]]
<1>1. to \in Progress
  BY KitchenAssumption
<1>2. marks \in [AllKitchens -> Progress]
  <2>1. l.parts \in [AllKitchens -> Progress]
    BY DEF Line
  <2> QED
    BY <1>1, <2>1
<1>3. Overall(i, marks) \in Progress
  BY OverallIs
<1> HIDE DEF marks
<1>4. Marked(l, i, at, to) =
        IF Combo(i) THEN [l EXCEPT !.parts = marks, !.st = Overall(i, marks)]
        ELSE [l EXCEPT !.st = to]
  BY DEF Marked, marks
<1> DEFINE st == Overall(i, marks)
<1> HIDE DEF st
<1>5. st \in Progress
  BY <1>3 DEF st
<1>6. CASE Combo(i)
  <2>1. Marked(l, i, at, to) = [l EXCEPT !.parts = marks, !.st = st]
    BY <1>4, <1>6 DEF st
  <2> QED
    BY <1>2, <1>5, <2>1 DEF Line
<1>7. CASE ~Combo(i)
  BY <1>1, <1>4, <1>7 DEF Line
<1> QED
  BY <1>6, <1>7

LEMMA DerivedIs ==
  ASSUME NEW ls, Statuses(ls)
  PROVE  Derived(ls) \in Progress
<1>1. \A i \in Sent(ls) : ls[i].st \in Progress
  BY DEF Sent, Statuses
<1>2. CASE Sent(ls) = {} \/ Some(ls, {"pending"})
  BY <1>2 DEF Derived, Progress, Some, All
<1>3. CASE Sent(ls) # {} /\ ~Some(ls, {"pending"}) /\ Some(ls, {"preparing"})
  BY <1>3 DEF Derived, Progress, Some, All
<1>4. CASE Sent(ls) # {} /\ ~Some(ls, {"pending"}) /\ ~Some(ls, {"preparing"})
  <2>1. All(ls, {"ready", "delivered"})
    BY <1>1, <1>4 DEF All, Some, Progress
  <2> HIDE DEF Some, All
  <2> QED
    BY <1>4, <2>1 DEF Derived, Progress
<1> QED
  BY <1>2, <1>3, <1>4

LEMMA CookKinds ==
  /\ Resting \in CookRow /\ Resting.op = "none"
  /\ \A w \in CookRow : w.op \in {"none", "ticket", "screen", "edit", "order"}
  /\ \A w \in CookRow : w.op = "none" => w = Resting
  /\ \A w \in CookRow : w.op = "screen" => w \in ScreenRow
  /\ \A w \in CookRow : w.op = "edit" => w \in EditRow
  /\ \A w \in CookRow : w.op = "order" => w \in OrderRow
  /\ \A w \in CookRow : w.op = "ticket" => w \in TicketRow
  /\ \A w \in TicketRow : w.stage \in {"read", "found", "items", "reloaded"}
  /\ \A w \in TicketRow : w.stage = "read" => w \in ReadRow
  /\ \A w \in TicketRow : w.stage \in {"found", "items"} => w \in ItemsRow
  /\ \A w \in TicketRow : w.stage = "reloaded" => w \in ReloadedRow
  BY DEF CookRow, TicketRow, Resting, ReadRow, ItemsRow, ReloadedRow, ScreenRow, EditRow, OrderRow

LEMMA TodoIs ==
  /\ \A f \in Todo : DOMAIN f \subseteq Lines /\ \A i \in DOMAIN f : f[i] \in Line
  /\ \A S \in SUBSET Lines : \A f \in [S -> Line] : f \in Todo
  BY DEF Todo

LEMMA CookWrites ==
  /\ \A was \in BOOLEAN, t \in Target, r \in 1..Rounds, to \in Marks :
       [op |-> "ticket", stage |-> "read", was |-> was, on |-> t, round |-> r, to |-> to]
         \in ReadRow
  /\ \A was \in BOOLEAN, at \in SUBSET AllKitchens, to \in Marks, todo \in Todo :
       [op |-> "ticket", stage |-> "found", was |-> was, at |-> at, to |-> to, todo |-> todo]
         \in ItemsRow
  /\ \A now \in Progress, a \in BOOLEAN :
       [op |-> "ticket", stage |-> "reloaded", now |-> now, announce |-> a] \in ReloadedRow
  /\ \A shown \in [Lines -> Line] : [op |-> "screen", shown |-> shown] \in ScreenRow
  /\ \A seen \in [Lines -> Line] : [op |-> "order", seen |-> seen] \in OrderRow
  /\ \A shown \in [Lines -> Line], there \in SUBSET Lines, was \in BOOLEAN :
       [op |-> "edit", shown |-> shown, there |-> there, was |-> was, fresh |-> TRUE] \in EditRow
  BY DEF ReadRow, ItemsRow, ReloadedRow, ScreenRow, OrderRow, EditRow

\* An edit that came too late, a combo that was written.
LEMMA CookChanges ==
  /\ \A w \in EditRow : LET v == [w EXCEPT !.fresh = FALSE] IN
       v \in EditRow /\ ~v.fresh /\ v.op = w.op /\ v.shown = w.shown
  /\ \A w \in ItemsRow, todo \in Todo : LET v == [w EXCEPT !.todo = todo] IN
       v \in ItemsRow /\ v.todo = todo /\ v.op = w.op /\ v.was = w.was /\ v.stage = w.stage
  BY DEF EditRow, ItemsRow

\* The items that are no combos were written.
LEMMA PlainWritten ==
  \A w \in ItemsRow, todo \in Todo : LET v == [w EXCEPT !.stage = "items", !.todo = todo] IN
    v \in ItemsRow /\ v.todo = todo /\ v.op = w.op /\ v.was = w.was /\ v.stage = "items"
  BY DEF ItemsRow

\* The rows of the handlers after a write of the order.
LEMMA StaleWrites ==
  ASSUME work \in [Cooks -> CookRow], NEW h \in Cooks, RestStale(h)
  PROVE  /\ work' \in [Cooks -> CookRow] /\ work'[h] = Resting
         /\ \A g \in Cooks : g # h =>
              IF work[g].op = "edit"
              THEN /\ ~work'[g].fresh /\ work'[g].op = "edit"
                   /\ work'[g].shown = work[g].shown
              ELSE work'[g] = work[g]
<1>1. \A g \in Cooks : work[g] \in CookRow /\ (work[g].op = "edit" => work[g] \in EditRow)
  BY CookKinds
<1>2. \A g \in Cooks : work[g].op = "edit" =>
        LET v == [work[g] EXCEPT !.fresh = FALSE] IN
        v \in EditRow /\ ~v.fresh /\ v.op = "edit" /\ v.shown = work[g].shown
  BY <1>1, CookChanges
<1>3. EditRow \subseteq CookRow /\ Resting \in CookRow
  BY DEF CookRow
<1> QED
  BY <1>1, <1>2, <1>3 DEF RestStale

LEMMA RestWrites ==
  ASSUME work \in [Cooks -> CookRow], NEW h \in Cooks, Rest(h)
  PROVE  /\ work' \in [Cooks -> CookRow] /\ work'[h] = Resting
         /\ \A g \in Cooks : g # h => work'[g] = work[g]
  BY CookKinds DEF Rest

\* What a handler writes of its own.
LEMMA OwnWrites ==
  ASSUME work \in [Cooks -> CookRow], NEW h \in Cooks, NEW w \in CookRow,
         work' = [work EXCEPT ![h] = w]
  PROVE  /\ work' \in [Cooks -> CookRow] /\ work'[h] = w
         /\ \A g \in Cooks : g # h => work'[g] = work[g]
  OBVIOUS

\* The ticket of a handler, by how far it is.
LEMMA TicketAt ==
  ASSUME work \in [Cooks -> CookRow], NEW h \in Cooks, work[h].op = "ticket"
  PROVE  /\ work[h].stage = "read" => work[h] \in ReadRow
         /\ work[h].stage \in {"found", "items"} => work[h] \in ItemsRow
         /\ work[h].stage = "reloaded" => work[h] \in ReloadedRow
  BY CookKinds

\* What a ticket finds.
LEMMA FindWrites ==
  ASSUME KitchenShape, NEW h \in Cooks, FindItems(h)
  PROVE  /\ work'[h] \in ItemsRow /\ work'[h].was = work[h].was /\ work'[h].stage = "found"
         /\ DOMAIN work'[h].todo \subseteq {i \in Lines : lines[i].sent = work[h].round /\ lines[i].sent > 0}
         /\ work' \in [Cooks -> CookRow] /\ \A g \in Cooks : g # h => work'[g] = work[g]
<1> DEFINE w == work[h]
           found == Found(w.on, w.round)
           todo == [i \in found |-> lines[i]]
<1>1. w \in ReadRow
  BY TicketAt DEF FindItems, KitchenShape
<1>2. w.was \in BOOLEAN /\ w.on \in Target /\ w.to \in Marks
  BY <1>1 DEF ReadRow
<1>3. w.on.at \in SUBSET AllKitchens
  BY <1>2 DEF Target
<1>4. found \subseteq {i \in Lines : lines[i].sent = w.round /\ lines[i].sent > 0}
  BY DEF Found, Sent
<1>5. todo \in Todo /\ DOMAIN todo = found
  BY <1>4, TodoIs DEF KitchenShape
<1> DEFINE v == [op |-> "ticket", stage |-> "found", was |-> w.was, at |-> w.on.at, to |-> w.to,
                 todo |-> todo]
<1>6. work' = [work EXCEPT ![h] = v]
  BY DEF FindItems
<1> HIDE DEF found, todo
<1>7. v \in ItemsRow /\ v.was = w.was /\ v.stage = "found" /\ v.todo = todo
  BY <1>2, <1>3, <1>5, CookWrites
<1> HIDE DEF v
<1>8. v \in CookRow
  BY <1>7 DEF CookRow, TicketRow
<1>9. /\ work' \in [Cooks -> CookRow] /\ work'[h] = v
      /\ \A g \in Cooks : g # h => work'[g] = work[g]
  BY <1>6, <1>8, OwnWrites DEF KitchenShape
<1> QED
  BY <1>4, <1>5, <1>7, <1>9

LEMMA MarkPlainWrites ==
  ASSUME KitchenShape, NEW h \in Cooks, MarkPlain(h)
  PROVE  /\ lines' \in [Lines -> Line] /\ Statuses(lines')
         /\ \A i \in Lines : lines'[i].sent = lines[i].sent
         /\ \A i \in Lines : lines'[i] # lines[i] => i \in DOMAIN work[h].todo \cap Sent(lines)
         /\ work[h] \in ItemsRow /\ work'[h] \in ItemsRow /\ work'[h].was = work[h].was
         /\ work'[h].stage = "items" /\ DOMAIN work'[h].todo \subseteq DOMAIN work[h].todo
         /\ work' \in [Cooks -> CookRow] /\ \A g \in Cooks : g # h => work'[g] = work[g]
<1> DEFINE w == work[h]
           plain == {i \in DOMAIN w.todo : ~Combo(i)}
           rest == [i \in DOMAIN w.todo \ plain |-> w.todo[i]]
<1>1. w \in ItemsRow
  BY TicketAt DEF MarkPlain, KitchenShape
<1>2. w.todo \in Todo /\ w.to \in Marks
  BY <1>1 DEF ItemsRow
<1>3. DOMAIN w.todo \subseteq Lines /\ \A i \in DOMAIN w.todo : w.todo[i] \in Line
  BY <1>2, TodoIs
<1>4. lines' = [i \in Lines |-> IF i \in plain \cap Sent(lines) THEN Marked(lines[i], i, w.at, w.to)
                               ELSE lines[i]]
  BY DEF MarkPlain
<1>5. \A i \in Lines : /\ Marked(lines[i], i, w.at, w.to) \in Line
                       /\ Marked(lines[i], i, w.at, w.to).sent = lines[i].sent
                       /\ Marked(lines[i], i, w.at, w.to).st \in Progress
  BY <1>2, MarkedIs DEF KitchenShape
<1>6. rest \in Todo /\ DOMAIN rest = DOMAIN w.todo \ plain
  BY <1>3, TodoIs
<1>7. work' = [work EXCEPT ![h] = [w EXCEPT !.stage = "items", !.todo = rest]]
  BY DEF MarkPlain, KitchenShape
<1>8. plain \subseteq DOMAIN w.todo
  OBVIOUS
<1> HIDE DEF plain, rest
<1> DEFINE v == [w EXCEPT !.stage = "items", !.todo = rest]
<1>9. v \in ItemsRow /\ v.was = w.was /\ v.stage = "items" /\ v.todo = rest
  BY <1>1, <1>6, PlainWritten
<1> HIDE DEF v
<1>10. v \in CookRow
  BY <1>9 DEF CookRow, TicketRow
<1>11. work' = [work EXCEPT ![h] = v]
  BY <1>7 DEF v
<1>12. /\ work' \in [Cooks -> CookRow] /\ work'[h] = v
       /\ \A g \in Cooks : g # h => work'[g] = work[g]
  BY <1>10, <1>11, OwnWrites DEF KitchenShape
<1>13. /\ lines' \in [Lines -> Line] /\ Statuses(lines')
       /\ \A i \in Lines : lines'[i].sent = lines[i].sent
       /\ \A i \in Lines : lines'[i] # lines[i] => i \in plain \cap Sent(lines)
  BY <1>4, <1>5 DEF Statuses, KitchenShape
<1> QED
  BY <1>1, <1>6, <1>8, <1>9, <1>12, <1>13

LEMMA MarkComboWrites ==
  ASSUME KitchenShape, NEW h \in Cooks, NEW i \in Lines, MarkCombo(h, i)
  PROVE  /\ lines' \in [Lines -> Line] /\ Statuses(lines')
         /\ \A j \in Lines : lines'[j].sent = lines[j].sent
         /\ \A j \in Lines : lines'[j] # lines[j] => j \in DOMAIN work[h].todo \cap Sent(lines)
         /\ work[h] \in ItemsRow /\ work'[h] \in ItemsRow /\ work'[h].was = work[h].was
         /\ work'[h].stage = "items" /\ DOMAIN work'[h].todo \subseteq DOMAIN work[h].todo
         /\ work' \in [Cooks -> CookRow] /\ \A g \in Cooks : g # h => work'[g] = work[g]
<1> DEFINE w == work[h]
           new == Marked(w.todo[i], i, w.at, w.to)
           rest == [j \in DOMAIN w.todo \ {i} |-> w.todo[j]]
<1>1. w \in ItemsRow
  BY TicketAt DEF MarkCombo, KitchenShape
<1>2. w.todo \in Todo /\ w.to \in Marks /\ w.stage = "items"
  BY <1>1 DEF ItemsRow, MarkCombo
<1>3. DOMAIN w.todo \subseteq Lines /\ \A j \in DOMAIN w.todo : w.todo[j] \in Line
  BY <1>2, TodoIs
<1>4. i \in DOMAIN w.todo \cap Sent(lines)
  BY DEF MarkCombo
<1>5. new \in Line /\ new.st \in Progress
  BY <1>2, <1>3, <1>4, MarkedIs
<1>6. rest \in Todo /\ DOMAIN rest = DOMAIN w.todo \ {i}
  BY <1>3, TodoIs
<1>7. lines' = [lines EXCEPT ![i].parts = new.parts, ![i].st = new.st]
  BY DEF MarkCombo
<1>8. work' = [work EXCEPT ![h] = [w EXCEPT !.todo = rest]]
  BY DEF MarkCombo
<1> HIDE DEF new, rest
<1> DEFINE v == [w EXCEPT !.todo = rest]
<1>9. v \in ItemsRow /\ v.was = w.was /\ v.todo = rest /\ v.stage = "items"
  <2>1. v \in ItemsRow /\ v.was = w.was /\ v.todo = rest /\ v.stage = w.stage
    BY <1>1, <1>6, CookChanges
  <2> QED
    BY <1>2, <2>1
<1> HIDE DEF v
<1>10. v \in CookRow
  BY <1>9 DEF CookRow, TicketRow
<1>11. work' = [work EXCEPT ![h] = v]
  BY <1>8 DEF v
<1>12. /\ work' \in [Cooks -> CookRow] /\ work'[h] = v
       /\ \A g \in Cooks : g # h => work'[g] = work[g]
  BY <1>10, <1>11, OwnWrites DEF KitchenShape
<1> DEFINE line == [lines[i] EXCEPT !.parts = new.parts, !.st = new.st]
<1>13. line \in Line /\ line.sent = lines[i].sent /\ line.st \in Progress
  <2>1. new.parts \in [AllKitchens -> Progress] /\ lines[i] \in Line
    BY <1>5, LineKinds DEF KitchenShape
  <2> QED
    BY <1>5, <2>1 DEF Line
<1>14. lines' = [lines EXCEPT ![i] = line]
  BY <1>7 DEF KitchenShape
<1> HIDE DEF line
<1>15. /\ lines' \in [Lines -> Line] /\ Statuses(lines')
       /\ \A j \in Lines : lines'[j].sent = lines[j].sent
       /\ \A j \in Lines : lines'[j] # lines[j] => j = i
  BY <1>13, <1>14 DEF Statuses, KitchenShape
<1> QED
  BY <1>1, <1>4, <1>6, <1>9, <1>12, <1>15

-----------------------------------------------------------------------------
(* Kitchen tickets: the invariant *)

RoundsSent == \A i \in Lines : lines[i].sent <= round

\* Whoever changes the whole order is alone with it.
ChangesAlone ==
  \A h \in Cooks : work[h].op = "order" =>
    work[h].seen = lines /\ \A g \in Cooks : g # h => work[g].op \in {"none", "screen"}

\* An item that a terminal shows is still the same, or gone.
Remains(old, now) == old.sent > 0 => now.sent = old.sent \/ now = Deleted
ScreensPast ==
  \A h \in Cooks : work[h].op \in {"screen", "edit"} =>
    \A i \in Lines : Remains(work[h].shown[i], lines[i])

\* What an edit read is still there as long as it may commit.
EditsInformed ==
  \A h \in Cooks : work[h].op = "edit" /\ work[h].fresh =>
    /\ work[h].there = Sent(lines) /\ Sent(work[h].shown) \subseteq Sent(lines)
    /\ work[h].was => Ready(lines)

\* A ticket that found the order ready marks what is ready.
MarksSettled ==
  \A h \in Cooks : work[h].op = "ticket" =>
    /\ work[h].stage = "read" => work[h].round <= round
    /\ work[h].stage = "read" /\ work[h].was =>
         \A i \in Sent(lines) : lines[i].sent = work[h].round => i \in ReadyItems(lines)
    /\ work[h].stage \in {"found", "items"} /\ work[h].was =>
         \A i \in DOMAIN work[h].todo : lines[i] # NoLine /\ (i \in Sent(lines) => i \in ReadyItems(lines))

\* A ticket that will announce that the order is ready, if it is.
Announcing(w) ==
  /\ w.op = "ticket"
  /\ IF w.stage = "reloaded" THEN w.announce ELSE ~w.was

SomebodyAnnounces ==
  Ready(lines) /\ owed # {} => \E h \in Cooks : Announcing(work[h])

TicketsInv ==
  /\ RoundsSent /\ ChangesAlone /\ ScreensPast /\ EditsInformed /\ MarksSettled
  /\ SomebodyAnnounces

LEMMA ReadyIs ==
  \A ls : /\ ReadyItems(ls) \subseteq Sent(ls)
          /\ Ready(ls) <=> Sent(ls) # {} /\ Sent(ls) \subseteq ReadyItems(ls)
  BY DEF Ready, ReadyItems, All

\* Items that are marked: the same are sent, those that changed are sent, and were ready if
\* the ticket found the order ready.
LEMMA MarksKeep ==
  ASSUME KitchenShape, TicketsInv, NEW h \in Cooks, work[h].op = "ticket",
         work[h].stage \in {"found", "items"},
         lines' \in [Lines -> Line], \A i \in Lines : lines'[i].sent = lines[i].sent,
         \A i \in Lines : lines'[i] # lines[i] => i \in DOMAIN work[h].todo \cap Sent(lines),
         DOMAIN work'[h].todo \subseteq DOMAIN work[h].todo, DOMAIN work[h].todo \subseteq Lines,
         ReadyItems(lines) \cap Sent(lines') \subseteq ReadyItems(lines'),
         work' \in [Cooks -> CookRow], \A g \in Cooks : g # h => work'[g] = work[g],
         work'[h].op = "ticket", work'[h].stage = "items", work'[h].was = work[h].was,
         round' = round, owed' = owed
  PROVE  TicketsInv'
<1>0. /\ work[h].was => \A i \in Lines : lines'[i] # lines[i] => i \in ReadyItems(lines)
      /\ \A i \in Lines : lines'[i] # lines[i] => i \in Sent(lines)
      /\ work[h].was => \A i \in DOMAIN work'[h].todo :
           i \in Lines /\ lines[i] # NoLine /\ (i \in Sent(lines) => i \in ReadyItems(lines))
  BY DEF TicketsInv, MarksSettled
<1>1. Sent(lines') = Sent(lines) /\ ReadyItems(lines) \subseteq ReadyItems(lines')
  BY ReadyIs DEF Sent
<1>2. Ready(lines) => Ready(lines')
  BY <1>1, ReadyIs
<1>3. RoundsSent'
  BY DEF TicketsInv, RoundsSent
<1>4. ChangesAlone'
  BY DEF TicketsInv, ChangesAlone
<1>5. EditsInformed'
  BY <1>1, <1>2 DEF TicketsInv, EditsInformed
<1>9. ScreensPast'
  <2> SUFFICES ASSUME NEW g \in Cooks, work'[g].op \in {"screen", "edit"}, NEW i \in Lines
               PROVE  Remains(work'[g].shown[i], lines'[i])
    BY DEF ScreensPast
  <2>1. work'[g] = work[g] /\ Remains(work[g].shown[i], lines[i])
    BY DEF TicketsInv, ScreensPast
  <2>2. i \in Sent(lines) => lines'[i].sent = lines[i].sent
    OBVIOUS
  <2>3. i \notin Sent(lines) => lines'[i] = lines[i]
    BY <1>0
  <2>4. lines[i] = Deleted => i \notin Sent(lines)
    BY LineKinds DEF Sent
  <2> QED
    BY <2>1, <2>2, <2>3, <2>4 DEF Remains
<1>6. \A i \in Lines : lines[i] # NoLine => lines'[i] # NoLine
  <2>1. \A i \in Lines : i \in Sent(lines) => lines'[i].sent > 0
    BY <1>1 DEF Sent
  <2> QED
    BY <2>1, LineKinds
<1>7. MarksSettled'
  <2> SUFFICES ASSUME NEW g \in Cooks, work'[g].op = "ticket"
               PROVE  /\ work'[g].stage = "read" => work'[g].round <= round'
                      /\ work'[g].stage = "read" /\ work'[g].was =>
                           \A i \in Sent(lines') : lines'[i].sent = work'[g].round => i \in ReadyItems(lines')
                      /\ work'[g].stage \in {"found", "items"} /\ work'[g].was =>
                           \A i \in DOMAIN work'[g].todo :
                             lines'[i] # NoLine /\ (i \in Sent(lines') => i \in ReadyItems(lines'))
    BY DEF MarksSettled
  <2>1. CASE g = h
    BY <1>0, <1>1, <1>6, <2>1
  <2>2. CASE g # h
    <3>1. work'[g] = work[g] /\ work[g].op = "ticket"
      BY <2>2
    <3>2. work[g].stage \in {"found", "items"} => \A i \in DOMAIN work[g].todo : i \in Lines
      <4>1. work[g].stage \in {"found", "items"} => work[g].todo \in Todo
        BY <3>1, TicketAt DEF KitchenShape, ItemsRow
      <4> QED
        BY <4>1, TodoIs
    <3>3. \A i \in Sent(lines) : i \in Lines
      BY DEF Sent
    <3> QED
      BY <1>1, <1>6, <3>1, <3>2, <3>3 DEF TicketsInv, MarksSettled
  <2> QED
    BY <2>1, <2>2
<1>8. SomebodyAnnounces'
  <2> SUFFICES ASSUME Ready(lines'), owed # {}
               PROVE  \E g \in Cooks : Announcing(work'[g])
    BY DEF SomebodyAnnounces
  <2>1. CASE ~work[h].was
    BY <2>1 DEF Announcing
  <2>2. CASE work[h].was
    <3>1. \A i \in Sent(lines) : i \in ReadyItems(lines)
      BY <1>0, <1>1, <2>2, ReadyIs DEF ReadyItems, Sent
    <3>2. Ready(lines)
      BY <1>1, <3>1, ReadyIs
    <3>3. PICK g \in Cooks : Announcing(work[g])
      BY <3>2 DEF TicketsInv, SomebodyAnnounces
    <3>4. g # h
      BY <2>2, <3>3 DEF Announcing
    <3> QED
      BY <3>3, <3>4
  <2> QED
    BY <2>1, <2>2
<1> QED
  BY <1>3, <1>4, <1>5, <1>7, <1>8, <1>9 DEF TicketsInv

LEMMA MarkPlainKeeps ==
  ASSUME KitchenShape, TicketsInv, NEW h \in Cooks, MarkPlain(h), NoneBack
  PROVE  TicketsInv'
<1>1. work[h].op = "ticket" /\ work[h].stage = "found" /\ round' = round /\ owed' = owed
  BY DEF MarkPlain
<1>2. ReadyItems(lines) \cap Sent(lines') \subseteq ReadyItems(lines')
  BY <1>1 DEF NoneBack, ChangesAlone, TicketsInv, CommitChange
<1>3. /\ lines' \in [Lines -> Line]
      /\ \A j \in Lines : lines'[j].sent = lines[j].sent
      /\ \A j \in Lines : lines'[j] # lines[j] => j \in DOMAIN work[h].todo \cap Sent(lines)
      /\ work[h] \in ItemsRow /\ work'[h] \in ItemsRow /\ work'[h].was = work[h].was
      /\ work'[h].stage = "items" /\ DOMAIN work'[h].todo \subseteq DOMAIN work[h].todo
      /\ work' \in [Cooks -> CookRow] /\ \A g \in Cooks : g # h => work'[g] = work[g]
  BY MarkPlainWrites
<1>4. work'[h].op = "ticket" /\ DOMAIN work[h].todo \subseteq Lines
  BY <1>3, TodoIs DEF ItemsRow
<1> QED
  BY <1>1, <1>2, <1>3, <1>4, MarksKeep

LEMMA MarkComboKeeps ==
  ASSUME KitchenShape, TicketsInv, NEW h \in Cooks, NEW i \in Lines, MarkCombo(h, i), NoneBack
  PROVE  TicketsInv'
<1>1. work[h].op = "ticket" /\ work[h].stage = "items" /\ round' = round /\ owed' = owed
  BY DEF MarkCombo
<1>2. ReadyItems(lines) \cap Sent(lines') \subseteq ReadyItems(lines')
  BY <1>1 DEF NoneBack, ChangesAlone, TicketsInv, CommitChange
<1>3. /\ lines' \in [Lines -> Line]
      /\ \A j \in Lines : lines'[j].sent = lines[j].sent
      /\ \A j \in Lines : lines'[j] # lines[j] => j \in DOMAIN work[h].todo \cap Sent(lines)
      /\ work[h] \in ItemsRow /\ work'[h] \in ItemsRow /\ work'[h].was = work[h].was
      /\ work'[h].stage = "items" /\ DOMAIN work'[h].todo \subseteq DOMAIN work[h].todo
      /\ work' \in [Cooks -> CookRow] /\ \A g \in Cooks : g # h => work'[g] = work[g]
  BY MarkComboWrites
<1>4. work'[h].op = "ticket" /\ DOMAIN work[h].todo \subseteq Lines
  BY <1>3, TodoIs DEF ItemsRow
<1> QED
  BY <1>1, <1>2, <1>3, <1>4, MarksKeep

\* Steps that change one handler only.
LEMMA BeginnersKeep ==
  ASSUME KitchenShape, TicketsInv, NEW h \in Cooks, UNCHANGED <<lines, round>>,
         \A g \in Cooks : g # h => work'[g] = work[g],
         owed' = {} \/ (owed' = owed /\ (Announcing(work[h]) /\ Ready(lines) => Announcing(work'[h]))),
         work'[h].op = "order" =>
           work'[h].seen = lines /\ \A g \in Cooks : g # h => work[g].op \in {"none", "screen"},
         work'[h].op \notin {"none", "screen"} =>
           \A g \in Cooks : g # h => work[g].op # "order",
         work'[h].op \in {"screen", "edit"} => \A i \in Lines : Remains(work'[h].shown[i], lines[i]),
         work'[h].op = "edit" =>
           /\ work'[h].there = Sent(lines) /\ Sent(work'[h].shown) \subseteq Sent(lines)
           /\ work'[h].was => Ready(lines),
         work'[h].op = "ticket" /\ work'[h].stage \in {"found", "items"} /\ work'[h].was =>
           \A i \in DOMAIN work'[h].todo : lines[i] # NoLine /\ (i \in Sent(lines) => i \in ReadyItems(lines)),
         work'[h].op = "ticket" /\ work'[h].stage = "read" =>
           work'[h].round <= round /\ (work'[h].was => Ready(lines))
  PROVE  TicketsInv'
<1>1. RoundsSent'
  BY DEF TicketsInv, RoundsSent
<1>2. ChangesAlone'
  BY DEF TicketsInv, ChangesAlone
<1>3. EditsInformed'
  BY DEF TicketsInv, EditsInformed
<1>4. MarksSettled'
  BY ReadyIs DEF TicketsInv, MarksSettled
<1>5. SomebodyAnnounces'
  BY DEF TicketsInv, SomebodyAnnounces
<1>6. ScreensPast'
  BY DEF TicketsInv, ScreensPast
<1> QED
  BY <1>1, <1>2, <1>3, <1>4, <1>5, <1>6 DEF TicketsInv

-----------------------------------------------------------------------------
(* Kitchen tickets: the steps *)

OthersKept(h) == \A g \in Cooks : g # h => work'[g] = work[g]

LEMMA BeginTicketKeeps ==
  ASSUME KitchenShape, NEW h \in Cooks, NEW t \in Tickets, NEW r \in 1..Rounds, NEW to \in Marks,
         BeginTicket(h, t, r, to)
  PROVE  KitchenShape' /\ (ChangesApart /\ TicketsInv => TicketsInv')
<1> DEFINE v == [op |-> "ticket", stage |-> "read", was |-> Ready(lines), on |-> t, round |-> r,
                 to |-> to]
<1>1. Ready(lines) \in BOOLEAN /\ t \in Target
  BY KitchenAssumption DEF Ready
<1>2. v \in ReadRow
  BY <1>1, CookWrites
<1>3. v.op = "ticket" /\ v.stage = "read" /\ v.was = Ready(lines) /\ v.round = r
  OBVIOUS
<1>4. work' = [work EXCEPT ![h] = v]
  BY DEF BeginTicket
<1> HIDE DEF v
<1>5. work' \in [Cooks -> CookRow] /\ work'[h] = v /\ OthersKept(h)
  BY <1>2, <1>4, OwnWrites DEF KitchenShape, CookRow, TicketRow, OthersKept
<1>6. UNCHANGED <<lines, status, round, owed>> /\ r <= round
  BY DEF BeginTicket
<1>7. KitchenShape'
  BY <1>3, <1>5, <1>6 DEF KitchenShape, Shown, OthersKept
<1>8. ASSUME ChangesApart, TicketsInv
      PROVE  TicketsInv'
  <2>1. \A g \in Cooks : work[g].op # "order"
    BY <1>8 DEF BeginTicket, Changing
  <2>2. ~Announcing(work[h])
    BY CookKinds DEF BeginTicket, Off, Announcing
  <2> QED
    BY <1>3, <1>5, <1>6, <1>8, <2>1, <2>2, BeginnersKeep DEF OthersKept
<1> QED
  BY <1>7, <1>8

LEMMA FindItemsKeeps ==
  ASSUME KitchenShape, NEW h \in Cooks, FindItems(h)
  PROVE  KitchenShape' /\ (TicketsInv => TicketsInv')
<1>1. UNCHANGED <<lines, status, round, owed>> /\ work[h].op = "ticket" /\ work[h].stage = "read"
  BY DEF FindItems
<1>2. /\ work'[h] \in ItemsRow /\ work'[h].was = work[h].was /\ work'[h].stage = "found"
      /\ DOMAIN work'[h].todo \subseteq {i \in Lines : lines[i].sent = work[h].round /\ lines[i].sent > 0}
      /\ work' \in [Cooks -> CookRow] /\ OthersKept(h)
  BY FindWrites DEF OthersKept
<1>3. work'[h].op = "ticket"
  BY <1>2 DEF ItemsRow
<1>4. KitchenShape'
  BY <1>1, <1>2, <1>3 DEF KitchenShape, Shown, OthersKept
<1>5. ASSUME TicketsInv
      PROVE  TicketsInv'
  <2>1. \A g \in Cooks : g # h => work[g].op # "order"
    BY <1>1, <1>5 DEF TicketsInv, ChangesAlone
  <2>2. Announcing(work[h]) => Announcing(work'[h])
    BY <1>1, <1>2, <1>3 DEF Announcing
  <2>3. work'[h].was => \A i \in DOMAIN work'[h].todo :
          lines[i] # NoLine /\ (i \in Sent(lines) => i \in ReadyItems(lines))
    <3> SUFFICES ASSUME work[h].was, NEW i \in DOMAIN work'[h].todo
                 PROVE  lines[i] # NoLine /\ (i \in Sent(lines) => i \in ReadyItems(lines))
      BY <1>2
    <3>1. lines[i].sent = work[h].round /\ lines[i].sent > 0
      BY <1>2
    <3>2. NoLine.sent = 0 /\ ~(0 > 0)
      BY LineKinds
    <3>3. \A j \in Sent(lines) : lines[j].sent = work[h].round => j \in ReadyItems(lines)
      BY <1>1, <1>5 DEF TicketsInv, MarksSettled
    <3> QED
      BY <3>1, <3>2, <3>3
  <2> QED
    BY <1>1, <1>2, <1>3, <1>5, <2>1, <2>2, <2>3, BeginnersKeep DEF OthersKept
<1> QED
  BY <1>4, <1>5

LEMMA ReloadKeeps ==
  ASSUME KitchenShape, NEW h \in Cooks, Reload(h)
  PROVE  KitchenShape' /\ (ChangesApart /\ TicketsInv => TicketsInv')
<1> DEFINE v == [op |-> "ticket", stage |-> "reloaded", now |-> Derived(lines),
                 announce |-> BecameReady(work[h].was, lines)]
<1>1. work[h] \in ItemsRow
  BY TicketAt DEF Reload, KitchenShape
<1>2. BecameReady(work[h].was, lines) = (Ready(lines) /\ ~work[h].was)
      /\ BecameReady(work[h].was, lines) \in BOOLEAN /\ Derived(lines) \in Progress
  BY DerivedIs DEF KitchenShape, BecameReady
<1>3. v \in ReloadedRow
  BY <1>2, CookWrites
<1>4. v.op = "ticket" /\ v.stage = "reloaded" /\ v.announce = (Ready(lines) /\ ~work[h].was)
  BY <1>2
<1>5. work' = [work EXCEPT ![h] = v]
  BY DEF Reload
<1> HIDE DEF v
<1>6. work' \in [Cooks -> CookRow] /\ work'[h] = v /\ OthersKept(h)
  BY <1>3, <1>5, OwnWrites DEF KitchenShape, CookRow, TicketRow, OthersKept
<1>7. UNCHANGED <<lines, status, round, owed>>
  BY DEF Reload
<1>8. KitchenShape'
  BY <1>4, <1>6, <1>7 DEF KitchenShape, Shown, OthersKept
<1>9. ASSUME ChangesApart, TicketsInv
      PROVE  TicketsInv'
  <2>1. work[h].op = "ticket" /\ work[h].stage = "items"
    BY DEF Reload
  <2>2. \A g \in Cooks : g # h => work[g].op # "order"
    BY <1>9, <2>1 DEF TicketsInv, ChangesAlone
  <2>3. Announcing(work[h]) /\ Ready(lines) => Announcing(v)
    BY <1>4, <2>1 DEF Announcing
  <2> QED
    BY <1>4, <1>6, <1>7, <1>9, <2>2, <2>3, BeginnersKeep DEF OthersKept
<1> QED
  BY <1>8, <1>9

LEMMA ScreensKeep ==
  ASSUME KitchenShape, NEW h \in Cooks, BeginChange(h) \/ Show(h) \/ BeginEdit(h)
  PROVE  KitchenShape' /\ (ChangesApart /\ NoneBack /\ TicketsInv => TicketsInv')
<1>0. UNCHANGED <<lines, status, round, owed>> /\ lines \in [Lines -> Line]
      /\ work[h].op \in {"none", "screen"} /\ ~Announcing(work[h])
  BY CookKinds DEF BeginChange, Show, BeginEdit, Off, Announcing, KitchenShape
<1>1. CASE BeginChange(h)
  <2> DEFINE v == [op |-> "order", seen |-> lines]
  <2>1. v \in OrderRow /\ v.op = "order" /\ v.seen = lines
    BY <1>0, CookWrites
  <2>2. work' = [work EXCEPT ![h] = v]
    BY <1>1 DEF BeginChange
  <2> HIDE DEF v
  <2>3. work' \in [Cooks -> CookRow] /\ work'[h] = v /\ OthersKept(h)
    BY <2>1, <2>2, OwnWrites DEF KitchenShape, CookRow, OthersKept
  <2>4. KitchenShape'
    BY <1>0, <2>1, <2>3 DEF KitchenShape, Shown, OthersKept
  <2>5. ChangesApart => \A g \in Cooks : work[g].op \in {"none", "screen"}
    BY <1>1 DEF BeginChange
  <2>6. ChangesApart /\ TicketsInv => TicketsInv'
    BY <1>0, <2>1, <2>3, <2>5, BeginnersKeep DEF OthersKept
  <2> QED
    BY <2>4, <2>6
<1>2. CASE Show(h)
  <2> DEFINE v == [op |-> "screen", shown |-> lines]
  <2>1. v \in ScreenRow /\ v.op = "screen" /\ v.shown = lines
    BY <1>0, CookWrites
  <2>2. work' = [work EXCEPT ![h] = v]
    BY <1>2 DEF Show
  <2> HIDE DEF v
  <2>3. work' \in [Cooks -> CookRow] /\ work'[h] = v /\ OthersKept(h)
    BY <2>1, <2>2, OwnWrites DEF KitchenShape, CookRow, OthersKept
  <2>4. KitchenShape'
    BY <1>0, <2>1, <2>3 DEF KitchenShape, Shown, OthersKept
  <2>5. ChangesApart /\ TicketsInv => TicketsInv'
    BY <1>0, <2>1, <2>3, BeginnersKeep DEF OthersKept, Remains
  <2> QED
    BY <2>4, <2>5
<1>3. CASE BeginEdit(h)
  <2> DEFINE v == [op |-> "edit", shown |-> work[h].shown, there |-> Sent(lines), was |-> Ready(lines),
                   fresh |-> TRUE]
  <2>1. work[h] \in ScreenRow /\ Statuses(work[h].shown)
    BY <1>3, CookKinds DEF BeginEdit, KitchenShape, Shown
  <2>2. work[h].shown \in [Lines -> Line]
    BY <2>1 DEF ScreenRow
  <2>9. Sent(lines) \in SUBSET Lines /\ Ready(lines) \in BOOLEAN
    BY DEF Sent, Ready
  <2>3. v \in EditRow /\ v.op = "edit" /\ v.shown = work[h].shown /\ v.there = Sent(lines)
        /\ v.was = Ready(lines)
    BY <2>2, <2>9, CookWrites
  <2>4. work' = [work EXCEPT ![h] = v]
    BY <1>3 DEF BeginEdit
  <2> HIDE DEF v
  <2>5. work' \in [Cooks -> CookRow] /\ work'[h] = v /\ OthersKept(h)
    BY <2>3, <2>4, OwnWrites DEF KitchenShape, CookRow, OthersKept
  <2>6. KitchenShape'
    BY <1>0, <2>1, <2>3, <2>5 DEF KitchenShape, Shown, OthersKept
  <2>7. ChangesApart => \A g \in Cooks : work[g].op # "order"
    BY <1>3 DEF BeginEdit, Changing
  <2>8. ASSUME ChangesApart, NoneBack, TicketsInv
        PROVE  TicketsInv'
    <3>1. Sent(work[h].shown) \subseteq Sent(lines)
      BY <1>3, <2>8 DEF NoneBack
    <3>2. \A i \in Lines : Remains(work[h].shown[i], lines[i])
      BY <1>3, <2>8 DEF BeginEdit, TicketsInv, ScreensPast
    <3> QED
      BY <1>0, <2>3, <2>5, <2>7, <2>8, <3>1, <3>2, BeginnersKeep DEF OthersKept
  <2> QED
    BY <2>6, <2>8
<1> QED
  BY <1>1, <1>2, <1>3

LEMMA GivingUpKeeps ==
  ASSUME KitchenShape, NEW h \in Cooks, FailWrite(h) \/ RefuseEdit(h)
  PROVE  KitchenShape' /\ (TicketsInv => TicketsInv')
<1>1. UNCHANGED <<lines, status, round>> /\ Rest(h) /\ (owed' = {} \/ owed' = owed)
  BY DEF FailWrite, RefuseEdit
<1>2. work' \in [Cooks -> CookRow] /\ work'[h] = Resting /\ OthersKept(h)
  BY <1>1, RestWrites DEF KitchenShape, OthersKept
<1>3. KitchenShape'
  BY <1>1, <1>2, CookKinds DEF KitchenShape, Shown, OthersKept
<1>4. owed' = {} \/ (owed' = owed /\ ~Announcing(work[h]))
  BY <1>1 DEF FailWrite, RefuseEdit, Announcing
<1>5. TicketsInv => TicketsInv'
  BY <1>1, <1>2, <1>4, CookKinds, BeginnersKeep DEF OthersKept
<1> QED
  BY <1>3, <1>5

\* After a write of the order no edit that was at work may commit.
EditsLate(h) ==
  \A g \in Cooks : g # h =>
    IF work[g].op = "edit" THEN work'[g].op = "edit" /\ ~work'[g].fresh
                                /\ work'[g].shown = work[g].shown
    ELSE work'[g] = work[g]

LEMMA LateShape ==
  ASSUME KitchenShape, NEW h \in Cooks, RestStale(h)
  PROVE  /\ work' \in [Cooks -> CookRow] /\ work'[h].op = "none" /\ EditsLate(h)
         /\ \A g \in Cooks : Shown(work'[g])
<1>1. work' \in [Cooks -> CookRow] /\ work'[h] = Resting /\ EditsLate(h)
  BY StaleWrites DEF KitchenShape, EditsLate
<1> QED
  BY <1>1, CookKinds DEF EditsLate, Shown, KitchenShape

LEMMA CommitTicketKeeps ==
  ASSUME KitchenShape, NEW h \in Cooks, CommitTicket(h)
  PROVE  KitchenShape' /\ (TicketsInv => TicketsInv')
<1>1. UNCHANGED <<lines, round>> /\ RestStale(h) /\ (owed' = {} \/ owed' = owed)
  BY DEF CommitTicket
<1>2. /\ work' \in [Cooks -> CookRow] /\ work'[h].op = "none" /\ EditsLate(h)
      /\ \A g \in Cooks : Shown(work'[g])
  BY <1>1, LateShape
<1>3. work[h] \in ReloadedRow
  BY TicketAt DEF CommitTicket, KitchenShape
<1>4. status' \in Progress
  BY <1>3 DEF CommitTicket, ReloadedRow
<1>5. KitchenShape'
  BY <1>1, <1>2, <1>4 DEF KitchenShape
<1>6. owed' = {} \/ (owed' = owed /\ ~Announcing(work[h]))
  BY DEF CommitTicket, Announcing
<1>7. ASSUME TicketsInv
      PROVE  TicketsInv'
  <2>1. RoundsSent'
    BY <1>1, <1>7 DEF TicketsInv, RoundsSent
  <2>2. ChangesAlone'
    BY <1>1, <1>2, <1>7 DEF TicketsInv, ChangesAlone, EditsLate
  <2>3. EditsInformed'
    BY <1>1, <1>2, <1>7 DEF TicketsInv, EditsInformed, EditsLate
  <2>4. MarksSettled'
    BY <1>1, <1>2, <1>7 DEF TicketsInv, MarksSettled, EditsLate
  <2>5. SomebodyAnnounces'
    BY <1>1, <1>2, <1>6, <1>7 DEF TicketsInv, SomebodyAnnounces, EditsLate, Announcing
  <2>6. ScreensPast'
    BY <1>1, <1>2, <1>7 DEF TicketsInv, ScreensPast, EditsLate
  <2> QED
    BY <2>1, <2>2, <2>3, <2>4, <2>5, <2>6 DEF TicketsInv
<1> QED
  BY <1>5, <1>7

LEMMA CommitChangeKeeps ==
  ASSUME KitchenShape, NEW h \in Cooks, NEW to \in Marks, CommitChange(h, to)
  PROVE  KitchenShape' /\ (TicketsInv => TicketsInv')
<1> DEFINE seen == work[h].seen
<1>1. work[h] \in OrderRow /\ Statuses(seen) /\ to \in Progress
  BY CookKinds, KitchenAssumption DEF CommitChange, KitchenShape, Shown
<1>2. seen \in [Lines -> Line]
  BY <1>1 DEF OrderRow
<1>3. /\ lines' = [i \in Lines |-> IF i \in Sent(seen) THEN [seen[i] EXCEPT !.st = to]
                                   ELSE IF i \in Sent(lines) THEN Deleted ELSE lines[i]]
      /\ status' = to /\ RestStale(h) /\ round' = round
      /\ owed' = IF BecameReady(Ready(seen), lines') THEN {} ELSE owed \cap Sent(lines')
  BY DEF CommitChange
<1>4. /\ work' \in [Cooks -> CookRow] /\ work'[h].op = "none" /\ EditsLate(h)
      /\ \A g \in Cooks : Shown(work'[g])
  BY <1>3, LateShape
<1>5. \A i \in Lines : LET l == [seen[i] EXCEPT !.st = to] IN
        l \in Line /\ l.sent = seen[i].sent /\ l.st \in Progress
  BY <1>1, <1>2 DEF Line
<1>6. lines' \in [Lines -> Line] /\ Statuses(lines')
  BY <1>3, <1>5, LineKinds DEF KitchenShape, Statuses
<1>7. KitchenShape'
  BY <1>1, <1>3, <1>4, <1>6 DEF KitchenShape
<1>8. ASSUME TicketsInv
      PROVE  TicketsInv'
  <2>1. seen = lines /\ \A g \in Cooks : g # h => work[g].op \in {"none", "screen"}
    BY <1>8 DEF TicketsInv, ChangesAlone, CommitChange
  <2>2. \A g \in Cooks : work'[g].op \in {"none", "screen"}
    BY <1>4, <2>1 DEF EditsLate
  <2>3. RoundsSent'
    BY <1>3, <1>5, <1>8, <2>1, LineKinds DEF TicketsInv, RoundsSent, Sent, KitchenShape
  <2>4. ChangesAlone' /\ EditsInformed' /\ MarksSettled'
    BY <2>2 DEF ChangesAlone, EditsInformed, MarksSettled
  <2>5. \A g \in Cooks : ~Announcing(work[g])
    BY <2>1 DEF Announcing, CommitChange
  <2>6. SomebodyAnnounces'
    <3> SUFFICES ASSUME Ready(lines'), owed' # {}
                 PROVE  FALSE
      BY DEF SomebodyAnnounces
    <3>1. Ready(lines) /\ owed # {}
      BY <1>3, <2>1 DEF BecameReady
    <3> QED
      BY <1>8, <2>5, <3>1 DEF TicketsInv, SomebodyAnnounces
  <2>7. \A i \in Lines : lines'[i].sent = lines[i].sent /\ (lines[i] = Deleted => lines'[i] = Deleted)
    BY <1>3, <1>5, <2>1, LineKinds DEF Sent
  <2>8. ScreensPast'
    BY <1>4, <1>8, <2>2, <2>7 DEF TicketsInv, ScreensPast, Remains, EditsLate
  <2> QED
    BY <2>3, <2>4, <2>6, <2>8 DEF TicketsInv
<1> QED
  BY <1>7, <1>8

LEMMA CommitEditKeeps ==
  ASSUME KitchenShape, NEW h \in Cooks, CommitEdit(h)
  PROVE  KitchenShape' /\ (NoneBack /\ TicketsInv => TicketsInv')
<1> DEFINE w == work[h]
<1>1. w \in EditRow /\ Statuses(w.shown)
  BY CookKinds DEF CommitEdit, KitchenShape, Shown
<1>2. w.shown \in [Lines -> Line] /\ \A i \in Sent(w.shown) : w.shown[i].st \in Progress
  BY <1>1 DEF EditRow, Statuses, Sent
<1>3. PICK kept \in SUBSET (Sent(w.shown) \cap w.there),
           added \in SUBSET {i \in Lines : lines[i] = NoLine} :
        \E rows \in [added -> UNION {Added(w, j) : j \in added}] :
        /\ \A j \in added : rows[j] \in Added(w, j)
        /\ (\E j \in added : rows[j].sent = round + 1) => round < Rounds
        /\ round' = IF \E j \in added : rows[j].sent = round + 1 THEN round + 1 ELSE round
        /\ lines' = [i \in Lines |-> IF i \in added THEN rows[i]
                                     ELSE IF i \in kept THEN w.shown[i]
                                     ELSE IF i \in Sent(lines) THEN Deleted ELSE lines[i]]
        /\ status' = Derived(lines')
        /\ owed' = IF BecameReady(w.was, lines') THEN {} ELSE (owed \cup added) \cap Sent(lines')
  BY DEF CommitEdit
<1>a. PICK rows \in [added -> UNION {Added(w, j) : j \in added}] :
        /\ \A j \in added : rows[j] \in Added(w, j)
        /\ (\E j \in added : rows[j].sent = round + 1) => round < Rounds
        /\ round' = IF \E j \in added : rows[j].sent = round + 1 THEN round + 1 ELSE round
        /\ lines' = [i \in Lines |-> IF i \in added THEN rows[i]
                                     ELSE IF i \in kept THEN w.shown[i]
                                     ELSE IF i \in Sent(lines) THEN Deleted ELSE lines[i]]
        /\ status' = Derived(lines')
        /\ owed' = IF BecameReady(w.was, lines') THEN {} ELSE (owed \cup added) \cap Sent(lines')
  BY <1>3
<1>4. RestStale(h)
  BY DEF CommitEdit
<1>5. /\ work' \in [Cooks -> CookRow] /\ work'[h].op = "none" /\ EditsLate(h)
      /\ \A g \in Cooks : Shown(work'[g])
  BY <1>4, LateShape
<1>6. round' \in 0..Rounds /\ round <= round'
  BY <1>a, KitchenAssumption DEF KitchenShape
<1>b. round + 1 \in Nat /\ NoLine \in Line
  BY LineKinds, KitchenAssumption DEF KitchenShape
<1>c. PICK fresh : fresh = [NoLine EXCEPT !.sent = round + 1]
  OBVIOUS
<1>d. fresh.sent = round + 1 /\ fresh.st = "pending" /\ (round < Rounds => fresh \in Line)
  <2>1. fresh.sent = round + 1 /\ fresh.st = "pending"
    BY <1>c, LineKinds DEF NoLine
  <2>2. round < Rounds => round + 1 \in 0..Rounds
    BY KitchenAssumption DEF KitchenShape
  <2> QED
    BY <1>c, <2>1, <2>2, LineSent
<1>7. \A j \in added : \/ rows[j] = fresh /\ round < Rounds
                       \/ \E i \in Sent(w.shown) \ w.there : rows[j] = w.shown[i]
  <2> SUFFICES ASSUME NEW j \in added
               PROVE  \/ rows[j] = fresh /\ round < Rounds
                      \/ \E i \in Sent(w.shown) \ w.there : rows[j] = w.shown[i]
    OBVIOUS
  <2>1. rows[j] = fresh \/ \E i \in Sent(w.shown) \ w.there : rows[j] = w.shown[i]
    BY <1>a, <1>c DEF Added
  <2>2. rows[j] = fresh => round < Rounds
    BY <1>a, <1>d
  <2> QED
    BY <2>1, <2>2
<1>e. \A j \in added : rows[j] \in Line /\ rows[j].st \in Progress
  BY <1>2, <1>7, <1>d DEF Sent, Progress
<1>8. lines' \in [Lines -> Line] /\ Statuses(lines')
  <2>1. \A i \in Lines : lines'[i] \in Line
    BY <1>2, <1>a, <1>e, LineKinds DEF KitchenShape
  <2>2. \A i \in kept : w.shown[i].st \in Progress
    BY <1>2
  <2>3. Statuses(lines')
    BY <1>a, <1>e, <2>2, LineKinds DEF KitchenShape, Statuses
  <2> QED
    BY <1>a, <2>1, <2>3
<1>9. status' \in Progress
  BY <1>a, <1>8, DerivedIs
<1>10. owed' \subseteq Lines
  BY <1>a DEF KitchenShape
<1>11. KitchenShape'
  BY <1>5, <1>6, <1>8, <1>9, <1>10 DEF KitchenShape
<1>12. ASSUME NoneBack, TicketsInv
       PROVE  TicketsInv'
  <2>1. w.op = "edit" /\ w.fresh
    BY DEF CommitEdit
  <2>2. /\ w.there = Sent(lines) /\ Sent(w.shown) \subseteq Sent(lines)
        /\ w.was => Ready(lines)
    BY <1>12, <2>1 DEF TicketsInv, EditsInformed
  <2>3. \A g \in Cooks : work[g].op # "order" /\ work'[g].op # "order"
    BY <1>5, <1>12, <2>1 DEF TicketsInv, ChangesAlone, EditsLate
  <2>4. ReadyItems(lines) \cap Sent(lines') \subseteq ReadyItems(lines')
    BY <1>12, <2>3 DEF NoneBack, CommitChange
  <2>a. \A j \in added : rows[j] = fresh
    BY <1>7, <2>2
  <2>b. \A i \in kept : w.shown[i].sent = lines[i].sent
    <3> SUFFICES ASSUME NEW i \in kept
                 PROVE  w.shown[i].sent = lines[i].sent
      OBVIOUS
    <3>1. i \in Lines /\ w.shown[i].sent > 0 /\ lines[i].sent > 0
      BY <2>2 DEF Sent
    <3>2. Remains(w.shown[i], lines[i])
      BY <1>12, <2>1, <3>1 DEF TicketsInv, ScreensPast
    <3> QED
      BY <3>1, <3>2, LineKinds DEF Remains
  <2>5. \A i \in Lines : \/ i \in added /\ lines[i] = NoLine /\ lines'[i].sent = round + 1
                            /\ lines'[i].st = "pending"
                         \/ i \notin added /\ lines'[i].sent = lines[i].sent
                            /\ (lines'[i] = lines[i] \/ lines[i].sent > 0)
                         \/ i \notin added /\ lines'[i] = Deleted
    <3> SUFFICES ASSUME NEW i \in Lines
                 PROVE  \/ i \in added /\ lines[i] = NoLine /\ lines'[i].sent = round + 1
                            /\ lines'[i].st = "pending"
                        \/ i \notin added /\ lines'[i].sent = lines[i].sent
                           /\ (lines'[i] = lines[i] \/ lines[i].sent > 0)
                        \/ i \notin added /\ lines'[i] = Deleted
      OBVIOUS
    <3>1. CASE i \in added
      BY <1>a, <1>d, <2>a, <3>1
    <3>2. CASE i \in kept \ added
      <4>1. lines'[i].sent = lines[i].sent /\ i \in Sent(lines)
        BY <1>a, <2>2, <2>b, <3>2
      <4> QED
        BY <3>2, <4>1 DEF Sent
    <3>3. CASE i \notin kept \cup added
      BY <1>a, <3>3
    <3> QED
      BY <3>1, <3>2, <3>3
  <2>6. RoundsSent'
    <3>1. \A i \in Lines : lines[i].sent <= round
      BY <1>12 DEF TicketsInv, RoundsSent
    <3>2. round' >= round /\ (added # {} => round' = round + 1) /\ round \in Nat /\ round' \in Nat
      BY <1>a, <1>d, <1>6, <2>a DEF KitchenShape
    <3> QED
      BY <2>5, <3>1, <3>2, LineKinds DEF RoundsSent, KitchenShape
  <2>7. ChangesAlone'
    BY <2>3 DEF ChangesAlone
  <2>8. EditsInformed'
    BY <1>5, <1>12 DEF TicketsInv, EditsInformed, EditsLate
  <2>9. \A i \in Lines : lines[i] # NoLine => lines'[i] # NoLine
    BY <2>5, LineKinds
  <2>c. ScreensPast'
    <3> SUFFICES ASSUME NEW g \in Cooks, work'[g].op \in {"screen", "edit"}, NEW i \in Lines,
                        work'[g].shown[i].sent > 0
                 PROVE  lines'[i].sent = work'[g].shown[i].sent \/ lines'[i] = Deleted
      BY DEF ScreensPast, Remains
    <3>1. g # h /\ work[g].op \in {"screen", "edit"} /\ work'[g].shown = work[g].shown
      BY <1>5 DEF EditsLate
    <3>2. lines[i].sent = work[g].shown[i].sent \/ lines[i] = Deleted
      BY <1>12, <3>1 DEF TicketsInv, ScreensPast, Remains
    <3>3. lines[i] # NoLine
      BY <3>1, <3>2, LineKinds
    <3> QED
      BY <2>5, <3>1, <3>2, <3>3, LineKinds
  <2>10. MarksSettled'
    <3> SUFFICES ASSUME NEW g \in Cooks, work'[g].op = "ticket"
                 PROVE  /\ work'[g].stage = "read" => work'[g].round <= round'
                        /\ work'[g].stage = "read" /\ work'[g].was =>
                             \A i \in Sent(lines') : lines'[i].sent = work'[g].round => i \in ReadyItems(lines')
                        /\ work'[g].stage \in {"found", "items"} /\ work'[g].was =>
                             \A i \in DOMAIN work'[g].todo :
                               lines'[i] # NoLine /\ (i \in Sent(lines') => i \in ReadyItems(lines'))
      BY DEF MarksSettled
    <3>1. work'[g] = work[g] /\ work[g].op = "ticket"
      BY <1>5 DEF EditsLate
    <3>2. work[g].stage \in {"found", "items"} => \A i \in DOMAIN work[g].todo : i \in Lines
      <4>1. work[g].stage \in {"found", "items"} => work[g].todo \in Todo
        BY <3>1, TicketAt DEF KitchenShape, ItemsRow
      <4> QED
        BY <4>1, TodoIs
    <3>3. \A i \in Sent(lines') : i \in Lines /\ lines'[i].sent > 0
      BY DEF Sent
    <3>4. \A i \in Sent(lines') : \/ i \in Sent(lines) /\ lines'[i].sent = lines[i].sent
                                  \/ lines[i] = NoLine /\ lines'[i].sent = round + 1
      <4> SUFFICES ASSUME NEW i \in Sent(lines')
                   PROVE  \/ i \in Sent(lines) /\ lines'[i].sent = lines[i].sent
                          \/ lines[i] = NoLine /\ lines'[i].sent = round + 1
        OBVIOUS
      <4>1. i \in Lines /\ lines'[i].sent > 0 /\ lines'[i] # Deleted
        BY <3>3, LineKinds
      <4> QED
        BY <2>5, <4>1 DEF Sent
    <3>5. CASE work[g].stage = "read"
      <4>1. /\ work[g].round <= round
            /\ work[g].was => \A i \in Sent(lines) : lines[i].sent = work[g].round => i \in ReadyItems(lines)
        BY <1>12, <3>1, <3>5 DEF TicketsInv, MarksSettled
      <4>2. work[g].round \in Nat /\ round \in Nat /\ round' \in Nat
        BY <1>6, <3>1, <3>5, TicketAt, KitchenAssumption DEF KitchenShape, ReadRow
      <4>3. work[g].round <= round'
        BY <1>6, <4>1, <4>2
      <4>4. work[g].round # round + 1
        BY <4>1, <4>2
      <4> QED
        BY <2>4, <3>1, <3>4, <3>5, <4>1, <4>3, <4>4
    <3>6. CASE work[g].stage \in {"found", "items"} /\ work[g].was
      <4>1. \A i \in DOMAIN work[g].todo : lines[i] # NoLine /\ (i \in Sent(lines) => i \in ReadyItems(lines))
        BY <1>12, <3>1, <3>6 DEF TicketsInv, MarksSettled
      <4> QED
        BY <2>4, <2>9, <3>1, <3>2, <3>4, <3>6, <4>1
    <3> QED
      BY <3>1, <3>5, <3>6
  <2>11. SomebodyAnnounces'
    <3> SUFFICES ASSUME Ready(lines'), owed' # {}
                 PROVE  \E g \in Cooks : Announcing(work'[g])
      BY DEF SomebodyAnnounces
    <3>1. w.was
      BY <1>a DEF BecameReady
    <3>2. added = {}
      <4> SUFFICES ASSUME NEW i \in added
                   PROVE  FALSE
        OBVIOUS
      <4>1. i \in Lines /\ lines'[i].sent = round + 1 /\ lines'[i].st = "pending"
        BY <2>5
      <4>2. i \in Sent(lines')
        BY <4>1 DEF Sent, KitchenShape
      <4> QED
        BY <4>1, <4>2, ReadyIs DEF ReadyItems
    <3>3. Ready(lines) /\ owed # {}
      BY <1>a, <2>2, <3>1, <3>2
    <3>4. PICK g \in Cooks : Announcing(work[g])
      BY <1>12, <3>3 DEF TicketsInv, SomebodyAnnounces
    <3>5. g # h /\ work[g].op = "ticket"
      BY <2>1, <3>4 DEF Announcing
    <3> QED
      BY <1>5, <3>4, <3>5 DEF EditsLate
  <2> QED
    BY <2>6, <2>7, <2>8, <2>c, <2>10, <2>11 DEF TicketsInv
<1> QED
  BY <1>11, <1>12

LEMMA KitchenSteps ==
  ASSUME KitchenShape, [KitchenNext]_kitchenVars
  PROVE  /\ KitchenShape'
         /\ ChangesApart /\ [NoneBack]_kitchenVars /\ TicketsInv => TicketsInv'
<1>0. CASE UNCHANGED kitchenVars
  <2>1. UNCHANGED <<lines, status, work, round, owed>>
    BY <1>0 DEF kitchenVars
  <2>2. KitchenShape'
    BY <2>1 DEF KitchenShape
  <2>3. TicketsInv => TicketsInv'
    BY <2>1 DEF TicketsInv, RoundsSent, ChangesAlone, ScreensPast, EditsInformed, MarksSettled,
                    SomebodyAnnounces
  <2> QED
    BY <2>2, <2>3
<1>1. CASE KitchenNext /\ ~UNCHANGED kitchenVars
  <2>1. [NoneBack]_kitchenVars => NoneBack
    BY <1>1
  <2>2. PICK h \in Cooks :
          \/ \E t \in Tickets, r \in 1..Rounds, to \in Marks : BeginTicket(h, t, r, to)
          \/ FindItems(h) \/ MarkPlain(h) \/ Reload(h) \/ CommitTicket(h)
          \/ \E i \in Lines : MarkCombo(h, i)
          \/ BeginChange(h) \/ FailWrite(h) \/ Show(h) \/ BeginEdit(h) \/ CommitEdit(h)
          \/ RefuseEdit(h)
          \/ \E to \in Marks : CommitChange(h, to)
    BY <1>1 DEF KitchenNext
  <2>3. CASE \E t \in Tickets, r \in 1..Rounds, to \in Marks : BeginTicket(h, t, r, to)
    BY <2>3, BeginTicketKeeps
  <2>4. CASE MarkPlain(h)
    <3>1. UNCHANGED <<status, round, owed>>
      BY <2>4 DEF MarkPlain
    <3>2. /\ lines' \in [Lines -> Line] /\ Statuses(lines') /\ work'[h] \in ItemsRow
          /\ work' \in [Cooks -> CookRow] /\ \A g \in Cooks : g # h => work'[g] = work[g]
      BY <2>4, MarkPlainWrites
    <3>3. KitchenShape'
      BY <3>1, <3>2 DEF KitchenShape, Shown, ItemsRow
    <3> QED
      BY <2>1, <2>4, <3>3, MarkPlainKeeps
  <2>5. CASE \E i \in Lines : MarkCombo(h, i)
    <3>1. PICK i \in Lines : MarkCombo(h, i)
      BY <2>5
    <3>2. UNCHANGED <<status, round, owed>>
      BY <3>1 DEF MarkCombo
    <3>3. /\ lines' \in [Lines -> Line] /\ Statuses(lines') /\ work'[h] \in ItemsRow
          /\ work' \in [Cooks -> CookRow] /\ \A g \in Cooks : g # h => work'[g] = work[g]
      BY <3>1, MarkComboWrites
    <3>4. KitchenShape'
      BY <3>2, <3>3 DEF KitchenShape, Shown, ItemsRow
    <3> QED
      BY <2>1, <3>1, <3>4, MarkComboKeeps
  <2>6. CASE Reload(h)
    BY <2>6, ReloadKeeps
  <2>7. CASE CommitTicket(h)
    BY <2>7, CommitTicketKeeps
  <2>12. CASE FindItems(h)
    BY <2>12, FindItemsKeeps
  <2>8. CASE BeginChange(h) \/ Show(h) \/ BeginEdit(h)
    BY <2>1, <2>8, ScreensKeep
  <2>9. CASE FailWrite(h) \/ RefuseEdit(h)
    BY <2>9, GivingUpKeeps
  <2>10. CASE CommitEdit(h)
    BY <2>1, <2>10, CommitEditKeeps
  <2>11. CASE \E to \in Marks : CommitChange(h, to)
    BY <2>11, CommitChangeKeeps
  <2> QED
    BY <2>2, <2>3, <2>4, <2>5, <2>6, <2>7, <2>8, <2>9, <2>10, <2>11, <2>12
<1> QED
  BY <1>0, <1>1

LEMMA KitchenStarts == KitchenInit => KitchenShape /\ TicketsInv
<1> SUFFICES ASSUME KitchenInit
             PROVE  KitchenShape /\ TicketsInv
  OBVIOUS
<1>1. /\ lines = [i \in Lines |-> NoLine] /\ status = "pending" /\ round = 0 /\ owed = {}
      /\ work = [h \in Cooks |-> Resting]
  BY DEF KitchenInit
<1>2. \A i \in Lines : lines[i] = NoLine
  BY <1>1
<1>3. \A h \in Cooks : work[h] = Resting
  BY <1>1
<1>4. lines \in [Lines -> Line] /\ Statuses(lines)
  BY <1>1, LineKinds DEF Statuses
<1>5. work \in [Cooks -> CookRow] /\ \A h \in Cooks : work[h].op = "none"
  BY <1>1, CookKinds
<1>6. KitchenShape
  BY <1>1, <1>4, <1>5, KitchenAssumption DEF KitchenShape, Shown, Progress
<1>7. RoundsSent
  BY <1>1, <1>2, LineKinds DEF RoundsSent
<1>8. ChangesAlone /\ ScreensPast /\ EditsInformed /\ MarksSettled /\ SomebodyAnnounces
  BY <1>1, <1>5 DEF ChangesAlone, ScreensPast, EditsInformed, MarksSettled, SomebodyAnnounces
<1> QED
  BY <1>6, <1>7, <1>8 DEF TicketsInv

LEMMA ShapeIsType == KitchenShape => KitchenTypeOK
<1> SUFFICES ASSUME KitchenShape
             PROVE  KitchenTypeOK
  OBVIOUS
<1>1. ASSUME NEW h \in Cooks
      PROVE  Marking(work[h]) \/ work[h] \in {Resting} \cup ReadRow \cup ReloadedRow \cup ScreenRow
                                                \cup EditRow \cup OrderRow
  <2>1. CASE work[h] \in ItemsRow
    <3>1. /\ work[h].op = "ticket" /\ work[h].stage \in {"found", "items"} /\ work[h].was \in BOOLEAN
          /\ work[h].at \subseteq AllKitchens /\ work[h].to \in Marks /\ work[h].todo \in Todo
      BY <2>1 DEF ItemsRow
    <3> QED
      BY <3>1, TodoIs DEF Marking
  <2>2. CASE work[h] \notin ItemsRow
    BY <2>2 DEF KitchenShape, CookRow, TicketRow
  <2> QED
    BY <2>1, <2>2
<1> QED
  BY <1>1 DEF KitchenTypeOK, KitchenShape, ReadRow, ReloadedRow, ScreenRow, EditRow, OrderRow

\* The items, the screens and the tickets in flight are well formed, whatever overlaps.
THEOREM KitchenTyped == KitchenSpec => []KitchenTypeOK
<1>1. KitchenInit => KitchenShape
  BY KitchenStarts
<1>2. KitchenShape /\ [KitchenNext]_kitchenVars => KitchenShape'
  BY KitchenSteps
<1> QED
  BY <1>1, <1>2, ShapeIsType, PTL DEF KitchenSpec

\* As long as no stale write takes back what others did, and changes of the whole order overlap
\* no other handler, an order whose items are all ready was announced after the last of them
\* was sent: for any number of tickets and edits in flight together (updateStatus, updateItems).
THEOREM ReadyIsAnnounced ==
  ASSUME ChangesApart
  PROVE  KitchenSpec /\ [][NoneBack]_kitchenVars => []ReadyAnnounced
<1> DEFINE Inv == KitchenShape /\ TicketsInv
<1>1. KitchenInit => Inv
  BY KitchenStarts
<1>2. Inv /\ [KitchenNext]_kitchenVars /\ [NoneBack]_kitchenVars => Inv'
  BY KitchenSteps
<1>3. Inv => ReadyAnnounced
  <2> SUFFICES ASSUME Inv, \A h \in Cooks : Off(h), Ready(lines), owed # {}
               PROVE  FALSE
    BY DEF ReadyAnnounced
  <2>1. \A h \in Cooks : work[h].op = "none"
    BY CookKinds DEF Off
  <2> QED
    BY <2>1 DEF TicketsInv, SomebodyAnnounces, Announcing
<1> QED
  BY <1>1, <1>2, <1>3, PTL DEF KitchenSpec

-----------------------------------------------------------------------------
(* Backups: the inductive invariant *)

\* A dump is a snapshot if it is the restoration's, which takes it before anything else.
DumpsByKind ==
  \A d \in Dumpers : dump[d].on =>
    IF d = "restorer" THEN dump[d].name.kind = "snapshot" /\ restore.stage = "snapshot"
    ELSE dump[d].name.kind \in Requested

\* The snapshot is being taken of what the database holds, or it was taken.
SnapshotTaken ==
  /\ restore.stage = "snapshot" => dump["restorer"].on /\ dump["restorer"].holds = data
  /\ restore.stage = "saved" =>
       \E n \in DOMAIN files : n.kind = "snapshot" /\ files[n] = [holds |-> data, old |-> FALSE]

\* A dump writes to a file of its own, which is not whole before it ends.
FilesOfDumps ==
  /\ \A d \in Dumpers : dump[d].on /\ dump[d].name \in DOMAIN files =>
       files[dump[d].name].holds = Partial
  /\ \A d, e \in Dumpers : dump[d].on /\ dump[e].on /\ dump[d].name = dump[e].name => d = e

-----------------------------------------------------------------------------
(* Backups: the rows *)

DumpRow == [on: {TRUE}, name: Names, holds: Held]
RestoreRow == [stage: {"snapshot", "saved", "applied"}, from: Source]

LEMMA DumpKinds ==
  /\ ~NoDump.on
  /\ \A r \in DumpRow : r.on /\ r.name \in Names /\ r.holds \in Held
  /\ \A n \in Names, v \in Held : [on |-> TRUE, name |-> n, holds |-> v] \in DumpRow
  BY DEF NoDump, DumpRow

LEMMA RestoreKinds ==
  /\ NoRestore.stage = "none"
  /\ \A r \in RestoreRow : r.stage \in {"snapshot", "saved", "applied"} /\ r.from \in Source
  /\ \A r \in RestoreRow, st \in {"snapshot", "saved", "applied"} :
       [r EXCEPT !.stage = st] \in RestoreRow /\ [r EXCEPT !.stage = st].stage = st
  /\ \A src \in Source : [stage |-> "snapshot", from |-> src] \in RestoreRow
  BY DEF NoRestore, RestoreRow

LEMMA NameKinds ==
  /\ second \in Seconds => \A k \in Requested \cup {"snapshot", "imported"} : FileName(k) \in Names
  /\ \A k : FileName(k).kind = k /\ [kind |-> k, second |-> second] = FileName(k)
  /\ "snapshot" \notin Requested /\ "imported" \notin Requested
  BY DEF Names, FileName, Requested

LEMMA FileKinds ==
  /\ \A held \in Held, old \in BOOLEAN : [holds |-> held, old |-> old] \in File
  /\ \A f \in File : f.holds \in Held /\ f.old \in BOOLEAN /\ [f EXCEPT !.old = TRUE] \in File
                     /\ [f EXCEPT !.old = TRUE].holds = f.holds
  /\ Partial \in Held
  BY DEF File, Held

LEMMA SourceKinds ==
  \A src \in Source : src.stored \in BOOLEAN /\ (src.stored => src.name \in Names)
                      /\ (~src.stored => src.holds \in Held)
  BY DEF Source

\* The types, in the words of the lemmas.
BackupsShape ==
  /\ data \in Held
  /\ DOMAIN files \subseteq Names /\ \A n \in DOMAIN files : files[n] \in File
  /\ dump \in [Dumpers -> {NoDump} \cup DumpRow]
  /\ restore \in {NoRestore} \cup RestoreRow
  /\ clean \in BOOLEAN /\ second \in Seconds /\ lastRun \in {0} \cup Seconds

LEMMA BackupRows == BackupsTypeOK <=> BackupsShape
  BY DEF BackupsTypeOK, BackupsShape, DumpRow, RestoreRow

-----------------------------------------------------------------------------
(* Backups: the types *)

LEMMA WithTyped ==
  ASSUME BackupsShape, NEW n \in Names, NEW held \in Held
  PROVE  DOMAIN With(n, held) \subseteq Names /\ \A m \in DOMAIN With(n, held) : With(n, held)[m] \in File
<1>1. [holds |-> held, old |-> FALSE] \in File
  BY FileKinds
<1>2. \A m \in DOMAIN With(n, held) : With(n, held)[m] \in File
  BY <1>1 DEF With, BackupsShape
<1> QED
  BY <1>2 DEF With, BackupsShape

LEMMA StartTyped ==
  ASSUME BackupsShape, NEW d \in Dumpers, NEW k \in Requested \cup {"snapshot"}, StartDump(d, k)
  PROVE  /\ DOMAIN files' \subseteq Names /\ \A n \in DOMAIN files' : files'[n] \in File
         /\ dump' \in [Dumpers -> {NoDump} \cup DumpRow]
<1>1. FileName(k) \in Names
  BY NameKinds DEF BackupsShape
<1>2. Partial \in Held
  BY FileKinds
<1>3. DOMAIN With(FileName(k), Partial) \subseteq Names
      /\ \A m \in DOMAIN With(FileName(k), Partial) : With(FileName(k), Partial)[m] \in File
  BY <1>1, <1>2, WithTyped
<1>4. [on |-> TRUE, name |-> FileName(k), holds |-> data] \in DumpRow
  BY <1>1, DumpKinds DEF BackupsShape
<1> QED
  BY <1>3, <1>4 DEF StartDump, BackupsShape

LEMMA PsqlTyped ==
  ASSUME BackupsShape, Psql
  PROVE  data' \in Held /\ restore \in RestoreRow
<1>1. restore \in RestoreRow /\ restore.from \in Source
  BY RestoreKinds DEF Psql, BackupsShape
<1> QED
  BY <1>1, SourceKinds, FileKinds DEF Psql, BackupsShape

LEMMA BackupsTypes ==
  ASSUME BackupsShape, DumpsByKind, [BackupsNext]_backupVars
  PROVE  BackupsShape'
<1>0. CASE UNCHANGED backupVars
  BY <1>0 DEF backupVars, BackupsShape
<1>1. CASE \E d \in Clicks, k \in Requested : Generate(d, k)
  <2>1. PICK d \in Clicks, k \in Requested : Generate(d, k)
    BY <1>1
  <2>2. d \in Dumpers /\ k \in Requested \cup {"snapshot"} /\ StartDump(d, k)
    BY <2>1 DEF Generate, Dumpers
  <2>3. /\ DOMAIN files' \subseteq Names /\ \A n \in DOMAIN files' : files'[n] \in File
        /\ dump' \in [Dumpers -> {NoDump} \cup DumpRow]
    BY <2>2, StartTyped
  <2> QED
    BY <2>1, <2>3 DEF Generate, BackupsShape
<1>2. CASE \E d \in Dumpers : EndDump(d)
  <2>1. PICK d \in Dumpers : EndDump(d)
    BY <1>2
  <2>2. dump[d] \in DumpRow
    BY <2>1, DumpKinds DEF EndDump, BackupsShape
  <2>3. dump[d].name \in Names /\ dump[d].holds \in Held
    BY <2>2, DumpKinds
  <2> DEFINE new == With(dump[d].name, dump[d].holds)
  <2>4. DOMAIN new \subseteq Names /\ \A m \in DOMAIN new : new[m] \in File
    BY <2>3, WithTyped
  <2>5. files' = new
    BY <2>1 DEF EndDump
  <2>6. restore' \in {NoRestore} \cup RestoreRow
    <3>1. CASE d # "restorer"
      BY <2>1, <3>1 DEF EndDump, BackupsShape
    <3>2. CASE d = "restorer"
      <4>1. restore.stage = "snapshot"
        BY <2>1, <3>2 DEF EndDump, DumpsByKind
      <4>2. restore \in RestoreRow
        BY <4>1, RestoreKinds DEF BackupsShape
      <4> QED
        BY <2>1, <3>2, <4>2, RestoreKinds DEF EndDump
    <3> QED
      BY <3>1, <3>2
  <2>7. dump' \in [Dumpers -> {NoDump} \cup DumpRow]
    BY <2>1 DEF EndDump, BackupsShape
  <2> HIDE DEF new
  <2>8. DOMAIN files' \subseteq Names /\ \A m \in DOMAIN files' : files'[m] \in File
    BY <2>4, <2>5
  <2> QED
    BY <2>1, <2>6, <2>7, <2>8 DEF EndDump, BackupsShape
<1>3. CASE \E d \in Dumpers : FailDump(d)
  <2>1. PICK d \in Dumpers : FailDump(d)
    BY <1>3
  <2>2. DOMAIN files' \subseteq Names /\ \A n \in DOMAIN files' : files'[n] \in File
    BY <2>1 DEF Without, FailDump, BackupsShape
  <2>3. dump' \in [Dumpers -> {NoDump} \cup DumpRow]
    BY <2>1 DEF FailDump, BackupsShape
  <2> QED
    BY <2>1, <2>2, <2>3 DEF FailDump, AfterFailure, BackupsShape
<1>4. CASE \E n \in Names : DeleteBackup(n)
  <2>1. PICK n \in Names : DeleteBackup(n)
    BY <1>4
  <2>2. DOMAIN files' \subseteq Names /\ \A m \in DOMAIN files' : files'[m] \in File
    BY <2>1 DEF Without, DeleteBackup, BackupsShape
  <2> QED
    BY <2>1, <2>2 DEF DeleteBackup, BackupsShape
<1>5. CASE \E n \in Names : Age(n)
  <2>1. PICK n \in Names : Age(n)
    BY <1>5
  <2>2. DOMAIN files' \subseteq Names /\ \A m \in DOMAIN files' : files'[m] \in File
    BY <2>1, FileKinds DEF Age, BackupsShape
  <2> QED
    BY <2>1, <2>2 DEF Age, BackupsShape
<1>6. CASE BeginRestore
  <2>1. PICK src \in Source : restore' = [stage |-> "snapshot", from |-> src]
    BY <1>6 DEF BeginRestore
  <2>2. restore' \in RestoreRow
    BY <2>1, RestoreKinds
  <2>3. "restorer" \in Dumpers /\ StartDump("restorer", "snapshot")
    BY <1>6 DEF BeginRestore, Dumpers
  <2>4. /\ DOMAIN files' \subseteq Names /\ \A n \in DOMAIN files' : files'[n] \in File
        /\ dump' \in [Dumpers -> {NoDump} \cup DumpRow]
    BY <2>3, StartTyped
  <2> QED
    BY <1>6, <2>2, <2>4 DEF BeginRestore, BackupsShape
<1>7. CASE Restore
  <2>1. data' \in Held /\ restore \in RestoreRow
    BY <1>7, PsqlTyped DEF Restore
  <2>2. restore' \in RestoreRow
    BY <1>7, <2>1, RestoreKinds DEF Restore
  <2> QED
    BY <1>7, <2>1, <2>2 DEF Restore, BackupsShape
<1>8. CASE RestoreFails
  BY <1>8 DEF RestoreFails, BackupsShape
<1>9. CASE \E verified \in BOOLEAN : EndRestore(verified)
  <2>1. PICK verified \in BOOLEAN : EndRestore(verified)
    BY <1>9
  <2>2. restore \in RestoreRow /\ restore.from \in Source
    BY <2>1, RestoreKinds DEF EndRestore, BackupsShape
  <2>3. FileName("imported") \in Names
    BY NameKinds DEF BackupsShape
  <2>4. DOMAIN files' \subseteq Names /\ \A m \in DOMAIN files' : files'[m] \in File
    <3>1. CASE files' = files
      BY <3>1 DEF BackupsShape
    <3>2. CASE ~restore.from.stored /\ files' = With(FileName("imported"), restore.from.holds)
      <4>1. restore.from.holds \in Held
        BY <2>2, <3>2, SourceKinds
      <4> DEFINE new == With(FileName("imported"), restore.from.holds)
      <4>2. DOMAIN new \subseteq Names /\ \A m \in DOMAIN new : new[m] \in File
        BY <4>1, <2>3, WithTyped
      <4> HIDE DEF new
      <4> QED
        BY <3>2, <4>2 DEF new
    <3> QED
      BY <2>1, <3>1, <3>2 DEF EndRestore
  <2> QED
    BY <2>1, <2>4 DEF EndRestore, BackupsShape
<1>10. CASE \E c \in Contents : Work(c)
  BY <1>10 DEF Work, Held, BackupsShape
<1>11. CASE Clean
  BY <1>11 DEF Clean, Expired, BackupsShape
<1>12. CASE Second
  <2>1. second' \in Seconds
    BY <1>12, BackupsAssumption DEF Second, Seconds, BackupsShape
  <2> QED
    BY <1>12, <2>1 DEF Second, BackupsShape
<1>13. CASE Stop
  <2>1. data' \in Held
    BY <1>13, PsqlTyped DEF Stop, BackupsShape
  <2> QED
    BY <1>13, <2>1 DEF Stop, BackupsShape
<1> QED
  BY <1>0, <1>1, <1>2, <1>3, <1>4, <1>5, <1>6, <1>7, <1>8, <1>9, <1>10, <1>11, <1>12, <1>13
     DEF BackupsNext

-----------------------------------------------------------------------------
(* Backups: the steps *)

\* A dump begins: what it and the others are.
LEMMA StartWrites ==
  ASSUME BackupsShape, NEW d \in Dumpers, NEW k \in Requested \cup {"snapshot"}, StartDump(d, k)
  PROVE  /\ ~dump[d].on
         /\ dump'[d].on /\ dump'[d].name = FileName(k) /\ dump'[d].holds = data
         /\ \A e \in Dumpers : e # d => dump'[e] = dump[e]
         /\ files' = With(FileName(k), Partial)
         /\ SecondsApart => FileName(k) \notin
              DOMAIN files \cup {dump[e].name : e \in {e \in Dumpers : dump[e].on}}
  BY DumpKinds, NameKinds DEF StartDump, BackupsShape

\* A dump ends, well or not.
LEMMA EndWrites ==
  ASSUME BackupsShape, NEW d \in Dumpers, EndDump(d) \/ FailDump(d)
  PROVE  /\ dump[d].on /\ ~dump'[d].on
         /\ \A e \in Dumpers : e # d => dump'[e] = dump[e]
         /\ data' = data
         /\ d # "restorer" => restore' = restore
  BY DumpKinds DEF EndDump, FailDump, AfterFailure, BackupsShape

LEMMA StopWrites ==
  ASSUME Stop
  PROVE  files' = files /\ restore'.stage = "none" /\ \A d \in Dumpers : ~dump'[d].on
  BY DumpKinds, RestoreKinds DEF Stop

LEMMA DumpsKeepKind ==
  ASSUME BackupsShape, DumpsByKind, [BackupsNext]_backupVars
  PROVE  DumpsByKind'
<1>0. CASE UNCHANGED backupVars
  BY <1>0 DEF backupVars, DumpsByKind
<1>1. CASE \E d \in Clicks, k \in Requested : Generate(d, k)
  <2>1. PICK d \in Clicks, k \in Requested : Generate(d, k)
    BY <1>1
  <2>2. d \in Dumpers /\ k \in Requested \cup {"snapshot"} /\ StartDump(d, k) /\ d # "restorer"
    BY <2>1, BackupsAssumption DEF Generate, Dumpers
  <2>3. /\ dump'[d].name.kind = k
        /\ \A e \in Dumpers : e # d => dump'[e] = dump[e]
    BY <2>2, StartWrites, NameKinds
  <2>4. restore' = restore
    BY <2>1 DEF Generate
  <2> QED
    BY <2>1, <2>2, <2>3, <2>4 DEF DumpsByKind
<1>2. CASE \E d \in Dumpers : EndDump(d) \/ FailDump(d)
  BY <1>2, EndWrites DEF DumpsByKind
<1>3. CASE BeginRestore
  <2>1. "restorer" \in Dumpers /\ StartDump("restorer", "snapshot")
    BY <1>3 DEF BeginRestore, Dumpers
  <2>2. /\ dump'["restorer"].name.kind = "snapshot"
        /\ \A e \in Dumpers : e # "restorer" => dump'[e] = dump[e]
    BY <2>1, StartWrites, NameKinds
  <2>3. restore'.stage = "snapshot"
    BY <1>3 DEF BeginRestore
  <2> QED
    BY <2>2, <2>3 DEF DumpsByKind
<1>4. CASE Restore \/ RestoreFails \/ \E verified \in BOOLEAN : EndRestore(verified)
  BY <1>4 DEF Restore, Psql, RestoreFails, EndRestore, DumpsByKind
<1>5. CASE Clean \/ Second \/ (\E n \in Names : DeleteBackup(n) \/ Age(n))
           \/ \E c \in Contents : Work(c)
  BY <1>5 DEF Clean, Second, DeleteBackup, Age, Work, DumpsByKind
<1>6. CASE Stop
  BY <1>6, StopWrites DEF DumpsByKind
<1> QED
  BY <1>0, <1>1, <1>2, <1>3, <1>4, <1>5, <1>6 DEF BackupsNext

\* While nobody works, what the database holds is in a dump or in a file until it is replaced.
LEMMA SnapshotStays ==
  ASSUME Quiet, BackupsShape, DumpsByKind, SnapshotTaken, [BackupsNext]_backupVars
  PROVE  SnapshotTaken'
<1>0. CASE UNCHANGED backupVars
  BY <1>0 DEF backupVars, SnapshotTaken
<1>1. CASE \E d \in Clicks, k \in Requested : Generate(d, k)
  BY <1>1, RestoreKinds DEF Generate, Restoring, SnapshotTaken
<1>2. CASE \E d \in Dumpers : EndDump(d) \/ FailDump(d)
  <2>1. PICK d \in Dumpers : EndDump(d) \/ FailDump(d)
    BY <1>2
  <2>2. CASE d # "restorer"
    <3>1. restore' = restore /\ data' = data /\ dump'["restorer"] = dump["restorer"]
      BY <2>1, <2>2, EndWrites DEF Dumpers
    <3>2. dump[d].name.kind # "snapshot"
      BY <2>1, <2>2, EndWrites, NameKinds DEF DumpsByKind
    <3>3. \A n \in DOMAIN files : n # dump[d].name => n \in DOMAIN files' /\ files'[n] = files[n]
      BY <2>1 DEF With, Without, EndDump, FailDump
    <3> QED
      BY <3>1, <3>2, <3>3 DEF SnapshotTaken
  <2>3. CASE d = "restorer"
    <3>1. dump[d].on /\ dump[d].name.kind = "snapshot" /\ restore.stage = "snapshot"
      BY <2>1, <2>3, EndWrites DEF DumpsByKind
    <3>2. CASE EndDump(d)
      <4>1. restore'.stage = "saved"
        <5>1. restore \in RestoreRow
          BY <3>1, RestoreKinds DEF BackupsShape
        <5> QED
          BY <2>3, <3>2, <5>1, RestoreKinds DEF EndDump
      <4>2. dump[d].name \in DOMAIN files'
            /\ files'[dump[d].name] = [holds |-> dump[d].holds, old |-> FALSE]
        BY <3>2 DEF With, EndDump
      <4>3. dump[d].holds = data /\ data' = data
        BY <2>3, <3>1, <3>2 DEF SnapshotTaken, EndDump
      <4> QED
        BY <3>1, <4>1, <4>2, <4>3 DEF SnapshotTaken
    <3>3. CASE FailDump(d)
      <4>1. restore'.stage = "none"
        BY <2>3, <3>3, RestoreKinds DEF FailDump, AfterFailure
      <4> QED
        BY <4>1 DEF SnapshotTaken
    <3> QED
      BY <2>1, <3>2, <3>3
  <2> QED
    BY <2>2, <2>3
<1>3. CASE BeginRestore
  <2>1. "restorer" \in Dumpers /\ StartDump("restorer", "snapshot") /\ data' = data
    BY <1>3 DEF BeginRestore, Dumpers
  <2>2. dump'["restorer"].on /\ dump'["restorer"].holds = data
    BY <2>1, StartWrites
  <2>3. restore'.stage = "snapshot"
    BY <1>3 DEF BeginRestore
  <2> QED
    BY <2>1, <2>2, <2>3 DEF SnapshotTaken
<1>4. CASE Restore
  <2>1. restore'.stage = "applied"
    <3>1. restore \in RestoreRow
      BY <1>4, PsqlTyped DEF Restore
    <3> QED
      BY <1>4, <3>1, RestoreKinds DEF Restore
  <2> QED
    BY <2>1 DEF SnapshotTaken
<1>5. CASE RestoreFails \/ \E verified \in BOOLEAN : EndRestore(verified)
  BY <1>5, RestoreKinds DEF RestoreFails, EndRestore, SnapshotTaken
<1>6. CASE Clean
  <2>1. SUFFICES ASSUME restore.stage = "saved"
                 PROVE  \E n \in DOMAIN files' :
                          n.kind = "snapshot" /\ files'[n] = [holds |-> data, old |-> FALSE]
    BY <1>6 DEF Clean, SnapshotTaken
  <2>2. PICK n \in DOMAIN files : n.kind = "snapshot" /\ files[n] = [holds |-> data, old |-> FALSE]
    BY <2>1 DEF SnapshotTaken
  <2>3. n \in DOMAIN files \ Expired
    BY <2>2 DEF Expired
  <2>4. n \in DOMAIN files' /\ files'[n] = files[n]
    BY <1>6, <2>3 DEF Clean
  <2> QED
    BY <2>2, <2>4
<1>7. CASE Second
  BY <1>7 DEF Second, SnapshotTaken
<1>8. CASE (\E n \in Names : DeleteBackup(n) \/ Age(n)) \/ \E c \in Contents : Work(c)
  BY <1>8, RestoreKinds DEF DeleteBackup, Age, Work, Restoring, SnapshotTaken
<1>9. CASE Stop
  BY <1>9, StopWrites DEF SnapshotTaken
<1> QED
  BY <1>0, <1>1, <1>2, <1>3, <1>4, <1>5, <1>6, <1>7, <1>8, <1>9 DEF BackupsNext

\* Where names differ, the files of dumps in progress are nobody else's.
LEMMA DumpsKeepFiles ==
  ASSUME SecondsApart, BackupsShape, DumpsByKind, FilesOfDumps, [BackupsNext]_backupVars
  PROVE  FilesOfDumps'
<1>0. CASE UNCHANGED backupVars
  BY <1>0 DEF backupVars, FilesOfDumps
<1>1. ASSUME NEW d \in Dumpers, NEW k \in Requested \cup {"snapshot"}, StartDump(d, k)
      PROVE  FilesOfDumps'
  <2>1. /\ dump'[d].name = FileName(k)
        /\ \A e \in Dumpers : e # d => dump'[e] = dump[e]
        /\ files' = With(FileName(k), Partial)
        /\ \A e \in Dumpers : dump[e].on => dump[e].name # FileName(k)
    BY <1>1, StartWrites
  <2>2. files'[FileName(k)].holds = Partial
        /\ \A n \in DOMAIN files' : n # FileName(k) => n \in DOMAIN files /\ files'[n] = files[n]
    BY <2>1 DEF With
  <2> QED
    BY <2>1, <2>2 DEF FilesOfDumps
<1>2. CASE \E d \in Clicks, k \in Requested : Generate(d, k)
  BY <1>1, <1>2 DEF Generate, Dumpers
<1>3. CASE BeginRestore
  BY <1>1, <1>3 DEF BeginRestore, Dumpers
<1>4. CASE \E d \in Dumpers : EndDump(d) \/ FailDump(d)
  <2>1. PICK d \in Dumpers : EndDump(d) \/ FailDump(d)
    BY <1>4
  <2>2. /\ dump[d].on /\ ~dump'[d].on
        /\ \A e \in Dumpers : e # d => dump'[e] = dump[e]
    BY <2>1, EndWrites
  <2>3. \A n \in DOMAIN files' : n # dump[d].name => n \in DOMAIN files /\ files'[n] = files[n]
    BY <2>1 DEF With, Without, EndDump, FailDump
  <2> QED
    BY <2>2, <2>3 DEF FilesOfDumps
<1>5. CASE \E n \in Names : DeleteBackup(n)
  BY <1>5 DEF Without, DeleteBackup, FilesOfDumps
<1>6. CASE \E n \in Names : Age(n)
  <2>1. PICK n \in Names : Age(n)
    BY <1>6
  <2>2. DOMAIN files' = DOMAIN files /\ \A m \in DOMAIN files : files'[m].holds = files[m].holds
    BY <2>1, FileKinds DEF Age, BackupsShape
  <2> QED
    BY <2>1, <2>2 DEF Age, FilesOfDumps
<1>7. CASE \E verified \in BOOLEAN : EndRestore(verified)
  <2>1. PICK verified \in BOOLEAN : EndRestore(verified)
    BY <1>7
  <2>2. dump' = dump
    BY <2>1 DEF EndRestore
  <2>3. \A d \in Dumpers : dump[d].on => dump[d].name # FileName("imported")
    BY NameKinds DEF DumpsByKind
  <2>4. \A n \in DOMAIN files' : n # FileName("imported") => n \in DOMAIN files /\ files'[n] = files[n]
    BY <2>1 DEF With, EndRestore
  <2> QED
    BY <2>2, <2>3, <2>4 DEF FilesOfDumps
<1>8. CASE Restore \/ RestoreFails \/ Second \/ \E c \in Contents : Work(c)
  BY <1>8 DEF Restore, RestoreFails, Second, Work, FilesOfDumps
<1>9. CASE Clean
  BY <1>9 DEF Clean, FilesOfDumps
<1>10. CASE Stop
  BY <1>10, StopWrites DEF FilesOfDumps
<1> QED
  BY <1>0, <1>2, <1>3, <1>4, <1>5, <1>6, <1>7, <1>8, <1>9, <1>10 DEF BackupsNext

BackupsInv ==
  /\ BackupsShape /\ DumpsByKind
  /\ Quiet => SnapshotTaken
  /\ SecondsApart => FilesOfDumps

LEMMA BackupsInductive == BackupsSpec => []BackupsInv
<1>1. BackupsInit => BackupsInv
  <2> SUFFICES ASSUME BackupsInit
               PROVE  BackupsInv
    OBVIOUS
  <2>1. second \in Seconds
    BY BackupsAssumption DEF BackupsInit, Seconds
  <2> QED
    BY <2>1, DumpKinds, RestoreKinds
       DEF BackupsInit, BackupsInv, BackupsShape, Held, DumpsByKind, SnapshotTaken, FilesOfDumps
<1>2. BackupsInv /\ [BackupsNext]_backupVars => BackupsInv'
  BY BackupsTypes, DumpsKeepKind, SnapshotStays, DumpsKeepFiles DEF BackupsInv
<1> QED
  BY <1>1, <1>2, PTL DEF BackupsSpec

\* The records of files, dumps and the restoration are well formed, whatever overlaps.
THEOREM BackupsTyped == BackupsSpec => []BackupsTypeOK
  BY BackupsInductive, BackupRows, PTL DEF BackupsInv

\* A restoration replaces the database only when a file has what it holds (restoreBackup):
\* dumps that end or fail meanwhile have other names, and the clean-up that each of them
\* starts takes old files only.
THEOREM SnapshotFirst ==
  ASSUME Quiet
  PROVE  BackupsSpec => SnapshotBefore
<1> DEFINE Safe == Restoring /\ data' # data => \E n \in DOMAIN files : files[n].holds = data
<1>1. BackupsInv /\ [BackupsNext]_backupVars => [Safe]_backupVars
  <2> SUFFICES ASSUME BackupsInv, BackupsNext, Restoring, data' # data
               PROVE  \E n \in DOMAIN files : files[n].holds = data
    BY DEF backupVars
  <2>1. restore.stage = "saved"
    BY DEF BackupsNext, Generate, EndDump, FailDump, DeleteBackup, Age, BeginRestore, Restore, Psql,
           RestoreFails, EndRestore, Work, Clean, Second, Stop
  <2> QED
    BY <2>1 DEF BackupsInv, SnapshotTaken
<1> QED
  BY <1>1, BackupsInductive, PTL DEF BackupsSpec, SnapshotBefore

\* A backup that is whole stays as it is until it is deleted on request or expires: dumps
\* that begin, end or fail, imports, restorations and clean-ups leave it alone.
THEOREM WholeFilesStay ==
  ASSUME SecondsApart
  PROVE  BackupsSpec => BackupsKept
<1> DEFINE Stays == \A n \in Names : Whole(n) /\ ~files[n].old =>
                     \/ n \in DOMAIN files' /\ files'[n].holds = files[n].holds
                     \/ DeleteBackup(n)
<1>1. BackupsInv /\ [BackupsNext]_backupVars => [Stays]_backupVars
  <2> SUFFICES ASSUME BackupsInv, BackupsNext, NEW n \in Names, Whole(n), ~files[n].old,
                      ~DeleteBackup(n)
               PROVE  n \in DOMAIN files' /\ files'[n].holds = files[n].holds
    OBVIOUS
  <2> USE DEF Whole
  <2>1. ASSUME NEW d \in Dumpers, NEW k \in Requested \cup {"snapshot"}, StartDump(d, k)
        PROVE  n \in DOMAIN files' /\ files'[n].holds = files[n].holds
    BY <2>1, StartWrites DEF With, BackupsInv
  <2>2. CASE \E d \in Clicks, k \in Requested : Generate(d, k)
    BY <2>1, <2>2 DEF Generate, Dumpers
  <2>3. CASE BeginRestore
    BY <2>1, <2>3 DEF BeginRestore, Dumpers
  <2>4. CASE \E d \in Dumpers : EndDump(d) \/ FailDump(d)
    <3>1. PICK d \in Dumpers : EndDump(d) \/ FailDump(d)
      BY <2>4
    <3>2. dump[d].on
      BY <3>1 DEF EndDump, FailDump
    <3>3. n # dump[d].name
      BY <3>2 DEF BackupsInv, FilesOfDumps
    <3> QED
      BY <3>1, <3>3 DEF With, Without, EndDump, FailDump
  <2>5. CASE \E m \in Names : DeleteBackup(m)
    BY <2>5 DEF Without, DeleteBackup
  <2>6. CASE \E m \in Names : Age(m)
    BY <2>6, FileKinds DEF Age, BackupsInv, BackupsShape
  <2>7. CASE \E verified \in BOOLEAN : EndRestore(verified)
    BY <2>7 DEF With, EndRestore
  <2>8. CASE Restore \/ RestoreFails \/ Second \/ Stop \/ \E c \in Contents : Work(c)
    BY <2>8 DEF Restore, RestoreFails, Second, Stop, Work
  <2>9. CASE Clean
    BY <2>9 DEF Clean, Expired
  <2> QED
    BY <2>2, <2>3, <2>4, <2>5, <2>6, <2>7, <2>8, <2>9 DEF BackupsNext
<1> QED
  BY <1>1, BackupsInductive, PTL DEF BackupsSpec, BackupsKept
=============================================================================
