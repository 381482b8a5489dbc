--------------------------- MODULE MCOrderBilling ---------------------------
(* Small instances of OrderBilling for TLC. *)
EXTENDS OrderBilling, TLC

CONSTANTS o1, o2, r1, r2, c1, k1

MCOrders == {o1, o2}
MCRequests == {r1, r2}
MCCerts == {c1}
MCCoupons == {k1}
OneUse == [k \in {k1} |-> 1]
TwoUses == [k \in {k1} |-> 2]
NoCerts == {}
Symmetric == Permutations(MCOrders) \cup Permutations(MCRequests)
=============================================================================
