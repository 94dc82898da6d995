--------------------------- MODULE MCEventDelivery ---------------------------
(* Small instances of EventDelivery for TLC. *)
EXTENDS EventDelivery, TLC

CONSTANTS v1, v2

\* Sound for the invariants: nothing distinguishes the vendors.
VendorSymmetry == Permutations(Vendors)
=============================================================================
