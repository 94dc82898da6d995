------------------------------ MODULE Settlement ------------------------------
(***************************************************************************)
(* What reserving stock for an order promises, whatever the handlers do in *)
(* between (the lifecycle stated at the head of api/stock.py).  The units  *)
(* an order line needs are either free, held for the line, returned, or    *)
(* taken by a delivery.  A line is held at most once; what is held is      *)
(* returned or taken at most once, and never both.                         *)
(***************************************************************************)
EXTENDS Integers

CONSTANTS
    Orders,   \* the orders that may claim stock
    Vendors,  \* the vendors that own it
    Qty,      \* Qty[o][v]: the units order o needs of vendor v
    Opening   \* Opening[v]: the units vendor v starts with

VARIABLES
    free,   \* free[v]: units on sale
    claim   \* claim[o][v]: what became of the units of o at v

Claim == {"none", "held", "returned", "taken"}

Init ==
    /\ free = Opening
    /\ claim = [o \in Orders |-> [v \in Vendors |-> "none"]]

\* The vendors in S have the units: an order may be served in part.
Hold(o, S) ==
    /\ \A v \in Vendors : claim[o][v] = "none"
    /\ \A v \in S : free[v] >= Qty[o][v]
    /\ free' = [v \in Vendors |-> IF v \in S THEN free[v] - Qty[o][v] ELSE free[v]]
    /\ claim' = [claim EXCEPT ![o] =
                    [v \in Vendors |-> IF v \in S THEN "held" ELSE "none"]]

Return(o, v) ==
    /\ claim[o][v] = "held"
    /\ claim' = [claim EXCEPT ![o][v] = "returned"]
    /\ free' = [free EXCEPT ![v] = @ + Qty[o][v]]

Take(o, v) ==
    /\ claim[o][v] = "held"
    /\ claim' = [claim EXCEPT ![o][v] = "taken"]
    /\ UNCHANGED free

Next ==
    \E o \in Orders :
        \/ \E S \in SUBSET Vendors : Hold(o, S)
        \/ \E v \in Vendors : Return(o, v) \/ Take(o, v)

Spec == Init /\ [][Next]_<<free, claim>>
=============================================================================
