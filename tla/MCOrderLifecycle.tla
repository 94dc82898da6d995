--------------------------- MODULE MCOrderLifecycle ---------------------------
(* Small instances of OrderLifecycle for TLC. *)
EXTENDS OrderLifecycle

CONSTANTS o1, o2, v1, v2

\* o1 is a mixed cart; o2 competes with it for v1's last units.
MCQty == [o \in Orders |-> [v \in Vendors |-> IF o = o2 /\ v = v2 THEN 0 ELSE 1]]
MCStock == [v \in Vendors |-> IF v = v1 THEN 2 ELSE 1]
MCScarce == [v \in Vendors |-> 1]
MCScarceV2 == [v \in Vendors |-> IF v = v1 THEN 1 ELSE 0]
=============================================================================
