------------------------------ MODULE Memberships -----------------------------
(***************************************************************************)
(* The memberships of one customer (doctype/customer_membership,           *)
(* api/membership.py): a new one cancels those its transaction sees as     *)
(* active, and a nightly job, which may be late, marks those that have run *)
(* out.                                                                    *)
(***************************************************************************)
EXTENDS Integers, FiniteSets

CONSTANTS
    Sales,       \* the memberships ever sold
    LengthOf,    \* LengthOf[s]: the plan's duration_days
    LastDay      \* bound: the days that pass

VARIABLES
    today,
    members,     \* status and expires_on of each Customer Membership
    selling,     \* the sales under way, and the active rows each has seen
    beside,      \* the sales that overlapped another
    reopened     \* the memberships an admin has set to Active again

membershipVars == <<today, members, selling, beside, reopened>>

Unsold == [status |-> "none", until |-> 0]
NotSelling == [under |-> FALSE, seen |-> {}]

MembershipsTypeOK ==
    /\ today \in 0..LastDay
    /\ members \in [Sales -> [status : {"none", "Active", "Cancelled", "Expired"}, until : Int]]
    /\ selling \in [Sales -> [under : BOOLEAN, seen : SUBSET Sales]]
    /\ beside \subseteq Sales /\ reopened \subseteq Sales

MembershipsInit ==
    /\ today = 0
    /\ members = [s \in Sales |-> Unsold]
    /\ selling = [s \in Sales |-> NotSelling]
    /\ beside = {} /\ reopened = {}

Active == {s \in Sales : members[s].status = "Active"}
Selling == {s \in Sales : selling[s].under}

-----------------------------------------------------------------------------
\* Fault: only the memberships of the same length are superseded.
SupersededAlike(s) == {a \in Active : LengthOf[a] = LengthOf[s]}
\* deactivate_overlapping reads the active ones, expired or not.
Superseded(s) == Active

StartSale(s) ==
    /\ members[s] = Unsold /\ ~selling[s].under
    /\ selling' = [selling EXCEPT ![s] = [under |-> TRUE, seen |-> Superseded(s)]]
    /\ beside' = IF Selling = {} THEN beside ELSE beside \cup Selling \cup {s}
    /\ UNCHANGED <<today, members, reopened>>

FinishSale(s) ==
    /\ selling[s].under
    /\ members' = [m \in Sales |->
          IF m = s THEN [status |-> "Active", until |-> today + LengthOf[s]]
          ELSE IF m \in selling[s].seen THEN [members[m] EXCEPT !.status = "Cancelled"]
          ELSE members[m]]
    /\ selling' = [selling EXCEPT ![s] = NotSelling]
    /\ UNCHANGED <<today, beside, reopened>>

\* An admin saves a row on the desk form as Active; validate looks at its dates.
SetActive(s) ==
    /\ members[s].status \in {"Cancelled", "Expired"}
    /\ members' = [members EXCEPT
          ![s].status = IF members[s].until < today THEN "Expired" ELSE "Active"]
    /\ reopened' = reopened \cup {s}
    /\ UNCHANGED <<today, selling, beside>>

ExpireMemberships ==
    /\ members' = [s \in Sales |->
          IF s \in Active /\ members[s].until < today
          THEN [members[s] EXCEPT !.status = "Expired"] ELSE members[s]]
    /\ UNCHANGED <<today, selling, beside, reopened>>

NextDay ==
    /\ today < LastDay
    /\ today' = today + 1
    /\ UNCHANGED <<members, selling, beside, reopened>>

MembershipsNext ==
    \/ \E s \in Sales : StartSale(s) \/ FinishSale(s) \/ SetActive(s)
    \/ ExpireMemberships \/ NextDay

MembershipsSpec == MembershipsInit /\ [][MembershipsNext]_membershipVars

-----------------------------------------------------------------------------
\* "two actives would make which-one-applies depend on row order"
\* (customer_membership.py:28-30): two memberships of a customer are active only
\* if they were sold at once or an admin has reopened one of them.
OneMembershipApplies ==
    \A a, b \in Active :
        a # b => {a, b} \cap reopened # {} \/ {a, b} \subseteq beside
===============================================================================
