--------------------------------- MODULE Sales ---------------------------------
(***************************************************************************)
(* What the handlers of orders promise when they do not overlap with a     *)
(* blind write: every sale is changed in one step, and what it consumes is *)
(* taken in the step that collects it and given back in the step that      *)
(* voids it.  There are no requests here, no snapshots and no reservations *)
(* apart from the baskets of the sales in progress.                        *)
(***************************************************************************)
EXTENDS Naturals, FiniteSets

CONSTANTS
  Ids,         \* ids of sales, each used once
  Gifts,       \* certificates
  Vouchers,    \* coupons
  NoVoucher,   \* a sale without a coupon
  Limit,       \* uses of a coupon, 0 for any number
  MayForget    \* TRUE: a sale may be dropped after its collection

VARIABLES
  sale,        \* per id: [stage, coupon, gift, number]
  used,        \* per coupon: the uses that are counted
  given,       \* the certificates that are given out
  next         \* the number of the next invoice

saleVars == <<sale, used, given, next>>

Blank(stage) ==
  [stage |-> stage, coupon |-> NoVoucher, gift |-> {}, number |-> 0]

Init ==
  /\ sale = [o \in Ids |-> Blank("absent")]
  /\ used = [k \in Vouchers |-> 0]
  /\ given = {}
  /\ next = 1

Open(o) == sale[o].stage = "open"

\* A coupon is offered while a use is left for every sale in progress that has it.
Offered(k, o) ==
  (k # NoVoucher /\ Limit[k] > 0) =>
    used[k] + Cardinality({p \in Ids \ {o} : Open(p) /\ sale[p].coupon = k}) < Limit[k]

\* A sale in progress gets its coupon and certificates: ones that are not given out and
\* that no other sale in progress has.
Fill(o, k, G) ==
  /\ sale[o].stage \in {"absent", "open"}
  /\ sale' = [sale EXCEPT ![o] = [stage |-> "open", coupon |-> k, gift |-> G, number |-> 0]]
  /\ G \cap given = {} /\ \A p \in Ids \ {o} : Open(p) => G \cap sale[p].gift = {}
  /\ Offered(k, o)
  /\ UNCHANGED <<used, given, next>>

\* It is collected, with its own coupon or one that is left, under the next number.
Collect(o, k) ==
  /\ Open(o)
  /\ (k # NoVoucher /\ Limit[k] > 0) => used[k] < Limit[k]
  /\ sale[o].gift \cap given = {}
  /\ sale' = [sale EXCEPT ![o].stage = "paid", ![o].coupon = k, ![o].number = next]
  /\ used' = [v \in Vouchers |-> IF v = k THEN used[v] + 1 ELSE used[v]]
  /\ given' = given \cup sale[o].gift
  /\ next' = next + 1

\* It is given up before its collection, and keeps neither number nor use.
Cancel(o) ==
  /\ Open(o)
  /\ sale' = [sale EXCEPT ![o].stage = "cancelled"]
  /\ UNCHANGED <<used, given, next>>

\* A collected sale is cancelled: it keeps its number, and all that it consumed is back.
Void(o) ==
  /\ sale[o].stage = "paid"
  /\ sale' = [sale EXCEPT ![o].stage = "cancelled"]
  /\ used' = [v \in Vouchers |-> IF v = sale[o].coupon THEN used[v] - 1 ELSE used[v]]
  /\ given' = given \ sale[o].gift
  /\ next' = next

\* Its creation fails: it never was.  Only a sale that MayForget drops after its collection
\* leaves a number without a sale, and a use and certificates that are not given back.
Withdraw(o) ==
  /\ Open(o) \/ (MayForget /\ sale[o].stage = "paid")
  /\ sale' = [sale EXCEPT ![o] = Blank("deleted")]
  /\ UNCHANGED <<used, given, next>>

Next ==
  \E o \in Ids :
    \/ \E k \in Vouchers \cup {NoVoucher} :
         Collect(o, k) \/ \E G \in SUBSET Gifts : Fill(o, k, G)
    \/ Cancel(o) \/ Void(o) \/ Withdraw(o)

Spec == Init /\ [][Next]_saleVars
=============================================================================
