---------------------------------- MODULE Bill ----------------------------------
(***************************************************************************)
(* What a bill that several guests pay in parts promises about its money,  *)
(* before discounts: what was ordered is still due, was collected, or was  *)
(* forgiven as a rounding remainder; nothing else.  When less is ordered   *)
(* after guests paid amounts, what is due may be negative: nobody gets it  *)
(* back.                                                                   *)
(***************************************************************************)
EXTENDS Integers

CONSTANTS
  MostDue,     \* bound of the exploration: the value of all that can be ordered
  MostOff,     \* the largest discount
  Tolerance    \* remainder that a last payment leaves unpaid at most

VARIABLES
  worth,       \* value of what was ordered
  due,         \* what the main account holds of it
  discount,    \* what the main account need not pay of that
  collected,   \* what the parts took over, and in the end the main account
  open         \* FALSE when the main account is invoiced or cancelled

billVars == <<worth, due, discount, collected, open>>

Off == 0..MostOff

Init ==
  /\ worth \in 0..MostDue /\ due = worth /\ collected = 0
  /\ discount \in Off
  /\ open = TRUE

\* What was ordered is due, collected or forgiven.
Balanced == collected >= 0 /\ due + collected <= worth

\* The order changes: n more, or less, than there was.
Order(n) ==
  /\ open
  /\ worth' = worth + n /\ worth' >= 0 /\ due' = due + n
  /\ discount' \in Off
  /\ UNCHANGED <<collected, open>>

\* A part takes over n, with a share of the discount.
Collect(n) ==
  /\ open
  /\ due' = due - n /\ collected' = collected + n
  /\ discount' \in 0..discount
  /\ UNCHANGED <<worth, open>>

\* The last part: what remains is the discount, and a remainder is forgiven.
Settle(n) ==
  /\ open
  /\ discount' \in 0..discount
  /\ due - n - discount' \in 0..Tolerance
  /\ due' = discount' /\ collected' = collected + n
  /\ UNCHANGED <<worth, open>>

\* A payment is taken back, and with it what was forgiven for it.
Return(n) ==
  /\ open
  /\ collected' = collected - n
  /\ \E f \in 0..Tolerance : due' = due + n + f
  /\ discount' \in Off
  /\ UNCHANGED <<worth, open>>
  /\ Balanced'

\* The main account is invoiced for what is left.
Close ==
  /\ open /\ open' = FALSE
  /\ due' = 0 /\ collected' = collected + (IF due > 0 THEN due ELSE 0)
  /\ discount' \in Off
  /\ UNCHANGED worth

\* The main account is given up.
WriteOff ==
  /\ open /\ open' = FALSE
  /\ due' = 0
  /\ UNCHANGED <<worth, discount, collected>>

\* A payment is taken back when the main account is closed.
Refund(n) ==
  /\ ~open
  /\ collected' = collected - n /\ collected' >= 0
  /\ UNCHANGED <<worth, due, discount, open>>

Next ==
  \/ \E n \in -MostDue..MostDue : Order(n)
  \/ \E n \in 1..MostDue : Collect(n) \/ Settle(n) \/ Return(n) \/ Refund(n)
  \/ Close \/ WriteOff

Spec == Init /\ [][Next]_billVars
=============================================================================
