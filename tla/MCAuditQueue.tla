---------------------------- MODULE MCAuditQueue ----------------------------
(* Small instances of AuditQueue for TLC. *)
EXTENDS AuditQueue

CONSTANTS e1, e2, e3, e4

ThreeEntries == {e1, e2, e3}
FourEntries == {e1, e2, e3, e4}
=============================================================================
