------------------------------ MODULE SplitBilling ------------------------------
(***************************************************************************)
(* Split bills in OrdersService: a main account whose items, or amounts    *)
(* of whose balance, are collected as separate orders (splitCheckout), the *)
(* collection of the rest (finalize), edits in between (updateItems), and  *)
(* cancellations, which give a part back to the main account.              *)
(*                                                                         *)
(* The main account has a coupon with a fixed discount, which its parts    *)
(* share: the first part consumes a use, and the last one that is          *)
(* cancelled gives it back.  A handler reads the main account and computes *)
(* with that snapshot; its transaction locks the row and compares          *)
(* updatedAt, here the flag fresh, which every later write clears.         *)
(* Certificates, packaging, tax, gifts and the kitchen state of items are  *)
(* abstracted; every unit costs the same.                                  *)
(***************************************************************************)
EXTENDS Pricing, FiniteSetsExt

CONSTANTS
  Units,        \* what can be ordered, unit by unit
  Price,        \* of a unit
  Parts,        \* order ids of the parts
  Handlers,     \* the handlers that may be in flight at one time
  Table,        \* an account name that parts may have in common
  MostOff,      \* discountValue of the coupon
  MaxUses,      \* Cupon.maxUses, 0 for none
  Tolerance,    \* a remainder that settles the account (0.05 in the code)
  NotGiven,     \* a discountAmount that the request leaves out
  Isolated,     \* TRUE: the cancellation of an open main account overlaps nothing
  DiscountKept, \* TRUE: clients send the discount of an edit, and of a part for which
                \*       the coupon would give more than is pending; and nothing is
                \*       split when it is used up
  CleanNames    \* TRUE: a part that settles with a remainder has its own name

ASSUME SplitAssumption ==
  /\ IsFiniteSet(Units) /\ IsFiniteSet(Parts)
  /\ Price \in Nat /\ MostOff \in Nat /\ MaxUses \in Nat /\ Tolerance \in Nat
  /\ Table \notin Parts /\ NotGiven \notin Int
  /\ Isolated \in BOOLEAN /\ DiscountKept \in BOOLEAN /\ CleanNames \in BOOLEAN

VARIABLES
  main,     \* the Order row of the main account
  parts,    \* the Order rows of the parts
  uses,     \* Cupon.currentUses
  ordered,  \* history: the units of the bill, by the lists that were accepted
  req       \* the handlers in flight

vars == <<main, parts, uses, ordered, req>>

-----------------------------------------------------------------------------
(* Values *)

Names == Parts \cup {Table}
Amounts == 0..(Price * Cardinality(Units))
Discounts == 0..MostOff

\* A settled account is PAID without an invoice: its parts have paid for it.
Credit == [name: Names, amount: Amounts]
Main == [st: {"open", "settled", "invoiced", "cancelled"}, units: SUBSET Units,
         credits: Seq(Credit), disc: Discounts, coupon: BOOLEAN, rec: BOOLEAN]

\* gross is subTotal, rec couponConsumptionRecorded.
Part == [st: {"absent", "paid", "cancelled"}, mode: {"none", "items", "amount"},
         units: SUBSET Units, gross: Amounts, disc: Discounts, name: Names,
         coupon: BOOLEAN, rec: BOOLEAN]
NoPart == [st |-> "absent", mode |-> "none", units |-> {}, gross |-> 0, disc |-> 0,
           name |-> Table, coupon |-> FALSE, rec |-> FALSE]

Idle == [op |-> "idle"]

TypeOK ==
  /\ main \in Main /\ Len(main.credits) <= Cardinality(Parts)
  /\ parts \in [Parts -> Part]
  /\ uses \in 0..(Cardinality(Parts) + 1)
  /\ ordered \subseteq Units
  /\ DOMAIN req = Handlers

Paid == {p \in Parts : parts[p].st = "paid"}

CreditSum(m) == FoldLeft(LAMBDA n, c : n + c.amount, 0, m.credits)
Gross(m) == Price * Cardinality(m.units) - CreditSum(m)
Total(m) == Due(Gross(m), m.disc)

Coupon == Rule("amount", MostOff, {})
FullDiscount(units) == Discount("coupon", Coupon, Price * Cardinality(units))

\* Cupon.status and currentUses against maxUses.
Usable == MaxUses = 0 \/ uses < MaxUses

-----------------------------------------------------------------------------
(* Handlers *)

\* Fault: the row is locked, and its version is not compared.
VersionIgnored(h) == TRUE

\* updatedAt is what the handler read.
Unchanged(h) == req[h].fresh

\* A handler has read the main account, and goes on with what it computed from it.
Begin(h, r) ==
  /\ req[h] = Idle
  /\ Isolated => \A g \in Handlers : req[g] # Idle =>
                   ~(req[g].op = "cancel" /\ req[g].main.st = "open")
  /\ req' = [req EXCEPT ![h] = r]
  /\ UNCHANGED <<main, parts, uses, ordered>>

\* h writes the main account and is done.
WriteMain(h, m) ==
  /\ main' = m
  /\ req' = [g \in Handlers |->
               IF g = h \/ req[g] = Idle THEN Idle ELSE [req[g] EXCEPT !.fresh = FALSE]]

\* An error, or the transaction is rolled back.
Reject(h) ==
  /\ req[h] # Idle
  /\ req' = [req EXCEPT ![h] = Idle]
  /\ UNCHANGED <<main, parts, uses, ordered>>

-----------------------------------------------------------------------------
(* splitCheckout *)

\* Fault: what the part took of the discount stays with the main account.
DiscountNotShared(m, d) == m.disc

\* What the main account keeps of its discount when a part takes d.
Remaining(m, d) == NotNegative(m.disc - d)

\* The discount of the main account for what it is left with.
Adjusted(m, left, pending) ==
  LET full == FullDiscount(left.units) IN
  IF m.disc > 0 /\ pending < full THEN Override(pending, Gross(left)) ELSE full

\* A part of the items: it takes a share of the discount, the one the request
\* names or all that the coupon gives for these items.
ItemsPart(m, take, given, name) ==
  LET gross == Price * Cardinality(take) IN
  [NoPart EXCEPT !.st = "paid", !.mode = "items", !.units = take, !.gross = gross,
     !.disc = IF given = NotGiven THEN FullDiscount(take) ELSE Override(given, gross),
     !.name = name, !.coupon = TRUE]

\* subtractSubAccountItems; the account is settled when nothing is left.
ItemsLeft(m, p) ==
  LET left == [m EXCEPT !.units = @ \ p.units] IN
  [left EXCEPT !.disc = Adjusted(m, left, Remaining(m, p.disc)),
     !.st = IF left.units = {} THEN "settled" ELSE "open"]

Settles(m, amount) == Total(m) - amount <= Tolerance

\* A part of the balance; the one that settles the account carries the coupon.
AmountPart(m, amount, name) ==
  [NoPart EXCEPT !.st = "paid", !.mode = "amount", !.gross = amount, !.name = name,
     !.coupon = Settles(m, amount)]

\* The payment is a credit of the main account.
AmountLeft(m, p) ==
  LET settles == Settles(m, p.gross)
      amount == IF settles THEN NotNegative(Gross(m) - m.disc) ELSE p.gross
      left == [m EXCEPT !.credits = Append(@, [name |-> p.name, amount |-> amount])]
  IN [left EXCEPT !.disc = Adjusted(m, left, m.disc),
        !.st = IF settles THEN "settled" ELSE "open"]

\* Items are not split after an amount was, the parts cost something, and no part
\* takes more of the discount or of the balance than there is.
BeginSplit(h, part, left) ==
  /\ main.st = "open"
  /\ Usable
  /\ DiscountKept => MostOff = 0 \/ main.disc > 0
  /\ part.gross - part.disc > 0
  /\ Begin(h, [op |-> "split", main |-> main, fresh |-> TRUE, part |-> part, left |-> left])

BeginSplitItems(h) ==
  \E take \in (SUBSET main.units) \ {{}}, given \in 0..main.disc \cup {NotGiven} :
    LET part == ItemsPart(main, take, given, Table) IN
    /\ main.credits = <<>>
    /\ (DiscountKept /\ given = NotGiven) => part.disc <= main.disc
    /\ BeginSplit(h, part, ItemsLeft(main, part))

BeginSplitAmount(h) ==
  \E amount \in 1..Total(main), name \in Names :
    LET part == AmountPart(main, amount, name) IN
    /\ name # Table => parts[name].st = "absent"
    /\ (CleanNames /\ Settles(main, amount) /\ amount < Total(main)) => name # Table
    /\ BeginSplit(h, part, AmountLeft(main, part))

\* A use is consumed unless a part that has paid did it.
Consumed(coupon) ==
  coupon /\ ~\E q \in Paid : parts[q].coupon /\ parts[q].rec

CommitSplit(h, p) ==
  LET r == req[h]
      consumes == Consumed(r.part.coupon)
  IN
  /\ r.op = "split" /\ parts[p].st = "absent"
  /\ r.part.name \in {Table, p}
  /\ main.st = "open" /\ Unchanged(h)
  /\ consumes => Usable
  /\ uses' = IF consumes THEN uses + 1 ELSE uses
  /\ parts' = [parts EXCEPT ![p] = [r.part EXCEPT !.rec = consumes]]
  /\ WriteMain(h, r.left)
  /\ UNCHANGED ordered

-----------------------------------------------------------------------------
(* Cancellation of a part *)

BeginVoid(h, p) ==
  /\ parts[p].st = "paid"
  /\ Begin(h, [op |-> "void", main |-> main, fresh |-> TRUE, id |-> p, part |-> parts[p],
               restores |-> FALSE])

\* prepareSplitCancellationRestore reads the main account, after the part.
ReadMain(h) ==
  /\ req[h].op = "void"
  /\ req' = [req EXCEPT ![h].op = "restore", ![h].main = main, ![h].fresh = TRUE,
                        ![h].restores = main.st \in {"open", "settled"}]
  /\ UNCHANGED <<main, parts, uses, ordered>>

\* The credit of a part: the last one with its name and amount, or else the last
\* one with its name.
CreditOf(m, p) ==
  LET exact == SelectLastInSeq(m.credits,
                 LAMBDA c : c.name = p.name /\ c.amount = p.gross)
  IN IF exact > 0 THEN exact ELSE SelectLastInSeq(m.credits, LAMBDA c : c.name = p.name)

ItemsBack(m, p) == m.units \cup p.units

\* Fault: a part gives back all that the coupon gives.
CouponBack(m, p) == m.disc + MostOff

DiscountBack(m, p) == m.disc + p.disc

\* The main account with the part given back.
Restored(m, p) ==
  LET back == IF p.mode = "items"
                THEN [m EXCEPT !.units = ItemsBack(m, p), !.disc = DiscountBack(m, p)]
                ELSE [m EXCEPT !.credits = RemoveAt(@, CreditOf(m, p))]
  IN [back EXCEPT !.st = "open", !.disc = Override(back.disc, Gross(back))]

\* Fault: nobody looks for another part.
NoSibling(p) == {}

\* Another part that has paid with the coupon.
Sibling(p) == {q \in Paid \ {p} : parts[q].coupon}

\* Of a cancelled part nothing is read again.
CancelledPart == [NoPart EXCEPT !.st = "cancelled"]

\* The use of the coupon passes to a sibling, or is given back.
CommitVoid(h) ==
  LET r == req[h]
      p == r.id
      cancelled == [parts EXCEPT ![p] = CancelledPart]
  IN
  /\ r.op = "restore"
  /\ parts[p].st = "paid"
  /\ IF r.restores
       THEN /\ main.st \in {"open", "settled"} /\ Unchanged(h)
            /\ r.part.mode = "amount" => CreditOf(r.main, r.part) > 0
            /\ WriteMain(h, Restored(r.main, r.part))
       ELSE /\ req' = [req EXCEPT ![h] = Idle]
            /\ UNCHANGED main
  /\ IF r.part.coupon /\ r.part.rec
       THEN \/ /\ Sibling(p) = {}
               /\ uses' = NotNegative(uses - 1) /\ parts' = cancelled
            \/ \E q \in Sibling(p) :
                 /\ parts' = [cancelled EXCEPT ![q].rec = TRUE]
                 /\ UNCHANGED uses
       ELSE parts' = cancelled /\ UNCHANGED uses
  /\ UNCHANGED ordered

-----------------------------------------------------------------------------
(* The main account *)

\* Fault: items that are not on the list stay.
NothingWithdrawn(m, kept, new) == [m EXCEPT !.units = @ \cup new]

\* What the account holds when a client sends a list: an item with an id of the account
\* stays, any other one is a new item.  So is an item of an outdated list that a part has
\* taken: it is ordered once more, and nothing tells it from a new one.
Listed(m, kept, new) == [m EXCEPT !.units = kept \cup new]

\* updateItems replaces the items by those of the client's list, whatever it keeps, leaves
\* out and adds; the credits stay.  dto.discountAmount keeps a reduced discount.
BeginEdit(h) ==
  \E kept \in SUBSET main.units, new \in SUBSET (Units \ ordered), keep \in BOOLEAN :
    LET left == Listed(main, kept, new)
        full == FullDiscount(left.units)
    IN
    /\ main.st = "open" /\ Usable
    /\ DiscountKept => keep
    /\ Begin(h, [op |-> "edit", main |-> main, fresh |-> TRUE, list |-> kept \cup new,
                 left |-> [left EXCEPT !.disc =
                   IF keep /\ main.disc < full THEN Override(main.disc, Gross(left))
                   ELSE full]])

CommitEdit(h) ==
  LET r == req[h] IN
  /\ r.op = "edit"
  /\ main.st = "open" /\ Unchanged(h)
  /\ WriteMain(h, r.left)
  /\ ordered' = (ordered \ r.main.units) \cup r.list
  /\ UNCHANGED <<parts, uses>>

\* finalize collects what is left, with the coupon or without.
BeginFinalize(h) ==
  \E coupon \in BOOLEAN :
    LET full == FullDiscount(main.units) IN
    /\ main.st = "open"
    /\ coupon => Usable
    /\ Begin(h, [op |-> "finalize", main |-> main, fresh |-> TRUE,
                 left |-> [main EXCEPT !.st = "invoiced", !.coupon = coupon,
                             !.rec = coupon,
                             !.disc = IF ~coupon \/ main.disc < full
                                        THEN Override(main.disc, Gross(main))
                                        ELSE full]])

CommitFinalize(h) ==
  /\ req[h].op = "finalize"
  /\ main.st = "open" /\ Unchanged(h)
  /\ req[h].left.coupon => Usable
  /\ uses' = IF req[h].left.coupon THEN uses + 1 ELSE uses
  /\ WriteMain(h, req[h].left)
  /\ UNCHANGED <<parts, ordered>>

\* Fault: the parts that have paid are not counted.
PartsNotCounted == TRUE

\* No part is paid: its invoice would have to be cancelled first.
NoPaidPart == Paid = {}

BeginCancel(h) ==
  /\ main.st # "cancelled"
  /\ NoPaidPart
  /\ (Isolated /\ main.st = "open") => \A g \in Handlers : req[g] = Idle
  /\ Begin(h, [op |-> "cancel", main |-> main, fresh |-> TRUE])

\* An account that was open when it was read is cancelled whatever it is now; a
\* paid one only if it still is.
CommitCancel(h) ==
  LET r == req[h] IN
  /\ r.op = "cancel"
  /\ r.main.st # "open" => main.st \in {"settled", "invoiced"}
  /\ uses' = IF r.main.st # "open" /\ r.main.rec THEN NotNegative(uses - 1) ELSE uses
  /\ WriteMain(h, [main EXCEPT !.st = "cancelled"])
  /\ UNCHANGED <<parts, ordered>>

\* Another write to the row: a table, a driver, a kitchen alert.
Touch ==
  /\ \E h \in Handlers : req[h] # Idle
  /\ req' = [g \in Handlers |->
               IF req[g] = Idle THEN Idle ELSE [req[g] EXCEPT !.fresh = FALSE]]
  /\ UNCHANGED <<main, parts, uses, ordered>>

-----------------------------------------------------------------------------
Init ==
  /\ \E units \in (SUBSET Units) \ {{}} :
       main = [st |-> "open", units |-> units, credits |-> <<>>,
               disc |-> FullDiscount(units), coupon |-> TRUE, rec |-> FALSE]
  /\ parts = [p \in Parts |-> NoPart]
  /\ uses = 0
  /\ ordered = main.units
  /\ req = [h \in Handlers |-> Idle]

Collections(h) ==
  \/ BeginSplitItems(h) \/ BeginSplitAmount(h) \/ \E p \in Parts : CommitSplit(h, p)
  \/ BeginFinalize(h) \/ CommitFinalize(h)

Cancellations(h) ==
  \/ \E p \in Parts : BeginVoid(h, p)
  \/ ReadMain(h) \/ CommitVoid(h) \/ BeginCancel(h) \/ CommitCancel(h)

Next ==
  \/ \E h \in Handlers :
       Collections(h) \/ Cancellations(h) \/ BeginEdit(h) \/ CommitEdit(h) \/ Reject(h)
  \/ Touch

Spec == Init /\ [][Next]_vars

-----------------------------------------------------------------------------
(* Properties *)

PartSum(value(_)) == MapThenSumSet(LAMBDA p : value(parts[p]), Paid)
Live == main.st \in {"open", "settled"}

\* The money of the bill: whatever is split, edited and cancelled in whatever
\* order, what was ordered is due, collected or forgiven (splitCheckout,
\* finalize, prepareSplitCancellationRestore).
B == INSTANCE Bill WITH
  MostDue <- Price * Cardinality(Units),
  worth <- Price * Cardinality(ordered),
  due <- IF Live THEN Gross(main) ELSE 0,
  discount <- main.disc,
  collected <- PartSum(LAMBDA p : p.gross)
                 + IF main.st = "invoiced" THEN NotNegative(Gross(main)) ELSE 0,
  open <- Live

ImplementsBill == B!Spec

\* A unit that was ordered, and not withdrawn since, is on the main account or on one part
\* that has paid, never on both and never on none, as long as the main account can be paid;
\* and nothing else is (splitCheckout, updateItems, prepareSplitCancellationRestore).
UnitsConserved ==
  /\ \A p, q \in Paid : p # q => parts[p].units \cap parts[q].units = {}
  /\ Live => /\ \A p \in Paid : parts[p].units \cap main.units = {}
             /\ main.units \cup UNION {parts[p].units : p \in Paid} = ordered

\* As long as a part has paid with the coupon, a use of it is counted; and one
\* more for the invoice of the main account.
CouponCovered ==
  uses >= (IF \E p \in Paid : parts[p].coupon THEN 1 ELSE 0)
          + (IF main.st = "invoiced" /\ main.rec THEN 1 ELSE 0)

\* An account is not cancelled as long as a part of it is paid.
NoPaidPartOfCancelled == main.st = "cancelled" => Paid = {}

\* The parts and the main account never share out more than the discount of the
\* coupon.
DiscountWithin ==
  (IF main.st # "cancelled" THEN main.disc ELSE 0) + PartSum(LAMBDA p : p.disc) <= MostOff
=============================================================================
