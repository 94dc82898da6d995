---------------------------- MODULE MCVendorStock ----------------------------
(* Small instances of VendorStock for TLC. *)
EXTENDS VendorStock

CONSTANTS main, branch, id1, id2, id3, id4

MCEvent(id, seq, qty, base, wh) ==
    [id |-> id, seq |-> seq, qty |-> qty, base |-> base, warehouse |-> wh]

MCEventIds == {id1, id2, id3, id4}

MCOpening == [w \in Warehouses |-> IF w = main THEN 2 ELSE 0]
MCOpeningFive == [w \in Warehouses |-> 5]
MCOpeningBoth == [w \in Warehouses |-> 2]

\* One unit short, one unit over, and a difference too large to correct.
MCReports == {[hub |-> 5, local |-> 4], [hub |-> 3, local |-> 4],
              [hub |-> 5, local |-> 2]}

\* A receipt, a sale at the counter that quotes base_qty, an unsequenced
\* adjustment, and a push beyond the size guard.
MCEvents == {
    MCEvent(id1, 1, 2, Absent, main),
    MCEvent(id2, 2, -1, 7, main),
    MCEvent(id3, Absent, -2, Absent, main),
    MCEvent(id4, 3, 4, Absent, main)}

MCTwoEvents == {
    MCEvent(id1, 1, 1, Absent, main),
    MCEvent(id2, 2, -1, Absent, main)}

\* Two events of the default row, and two that race to create the other one.
MCThreeEvents == {
    MCEvent(id1, 1, -2, Absent, main),
    MCEvent(id3, Absent, 2, Absent, branch),
    MCEvent(id4, Absent, -1, Absent, branch)}
=============================================================================
