------------------------------- MODULE Payouts -------------------------------
(***************************************************************************)
(* Payouts of one vendor (api/payouts.py, doctype/vendor_payout) and the   *)
(* fulfilments they claim.  calculate_payout selects what is outstanding,  *)
(* saves the payout with its total and stamps every fulfilment it          *)
(* selected with the payout's name, without looking whether another        *)
(* payout has stamped it since: a request is one transaction, so what it   *)
(* selected is what was committed when it started.                         *)
(* A total is kept as the set of fulfilments it adds up.                   *)
(***************************************************************************)
EXTENDS Integers, FiniteSets

CONSTANTS
    Fulfilments,  \* Vendor Fulfillment rows of the vendor within the period
    PayoutIds,
    NoPayout,
    Requests,     \* admin requests that may run at once
    MaxRaces      \* bound: calculations that overwrite a claim

VARIABLES
    payable,    \* fulfilments of paid orders, not cancelled
    link,       \* Vendor Fulfillment.vendor_payout
    payouts,    \* status and total of every payout
    request,    \* the payout each request calculates, what it selected, and
                \* the claims it saw
    races       \* claims overwritten so far

payoutVars == <<payable, link, payouts, request, races>>

\* Approved and Cancelled payouts are handled like drafts: neither lets go of
\* its claims.
Statuses == {"Draft", "Paid", "Confirmed"}
NotUsed == [status |-> "none", total |-> {}]
Unclaimed == [f \in Fulfilments |-> NoPayout]
Waiting == [payout |-> NoPayout, selected |-> {}, seen |-> Unclaimed]

PayoutsTypeOK ==
    /\ payable \subseteq Fulfilments
    /\ link \in [Fulfilments -> PayoutIds \cup {NoPayout}]
    /\ payouts \in [PayoutIds -> [status : Statuses \cup {"none", "deleted"},
                                  total : SUBSET Fulfilments]]
    /\ request \in [Requests -> [payout : PayoutIds \cup {NoPayout},
                                 selected : SUBSET Fulfilments,
                                 seen : [Fulfilments -> PayoutIds \cup {NoPayout}]]]
    /\ races \in 0..MaxRaces

PayoutsInit ==
    /\ payable = {}
    /\ link = Unclaimed
    /\ payouts = [p \in PayoutIds |-> NotUsed]
    /\ request = [r \in Requests |-> Waiting]
    /\ races = 0

Exists(p) == payouts[p].status \in Statuses

\* Fault: a fulfilment counts as outstanding until its payout is marked Paid.
OutstandingUntilPaid ==
    {f \in payable : link[f] = NoPayout \/ payouts[link[f]].status # "Paid"}

\* What get_outstanding_payout reports and calculate_payout selects.
Outstanding == {f \in payable : link[f] = NoPayout}

\* An order is paid, or refunded or cancelled, whatever was claimed by then.
OrderMoves(f) ==
    /\ payable' = IF f \in payable THEN payable \ {f} ELSE payable \cup {f}
    /\ UNCHANGED <<link, payouts, request, races>>

\* create_vendor_payout for a new payout, or calculate_payout called again on
\* an existing one.  With nothing outstanding it throws and deletes what it
\* inserted.
Calculate(r, p) ==
    /\ request[r].payout = NoPayout
    /\ payouts[p].status # "deleted"
    /\ \A q \in Requests : request[q].payout # p
    /\ Outstanding # {}
    /\ request' = [request EXCEPT ![r] =
           [payout |-> p, selected |-> Outstanding,
            seen |-> [f \in Fulfilments |-> IF f \in Outstanding THEN link[f] ELSE NoPayout]]]
    /\ UNCHANGED <<payable, link, payouts, races>>

\* A claim that was committed since the selection was read.
Overwrites(r) == \E f \in request[r].selected : link[f] \notin {NoPayout, request[r].seen[f]}

\* Fault: the claims are written whether or not the payout could be saved.
SavesUnseen(p) == TRUE

\* Document.save refuses a payout that was deleted meanwhile.
Saves(p) == payouts[p].status # "deleted"

\* The payout is saved, then the fulfilments stamped, in one commit.
Claim(r) ==
    LET p == request[r].payout
    IN /\ p # NoPayout
       /\ request' = [request EXCEPT ![r] = Waiting]
       /\ IF Saves(p)
          THEN /\ races + (IF Overwrites(r) THEN 1 ELSE 0) <= MaxRaces
               /\ races' = races + (IF Overwrites(r) THEN 1 ELSE 0)
               /\ payouts' = [payouts EXCEPT ![p] =
                     [status |-> IF @.status = "none" THEN "Draft" ELSE @.status,
                      total |-> request[r].selected]]
               /\ link' = [f \in Fulfilments |-> IF f \in request[r].selected THEN p ELSE link[f]]
          ELSE UNCHANGED <<link, payouts, races>>
       /\ UNCHANGED payable

\* on_trash: the fulfilments that name the payout are outstanding again.
Delete(p) ==
    /\ Exists(p)
    /\ payouts' = [payouts EXCEPT ![p] = [status |-> "deleted", total |-> {}]]
    /\ link' = [f \in Fulfilments |-> IF link[f] = p THEN NoPayout ELSE link[f]]
    /\ UNCHANGED <<payable, request, races>>

\* The desk records that the money was sent; claims and total stay.
MarkPaid(p) ==
    /\ Exists(p)
    /\ payouts' = [payouts EXCEPT ![p].status = "Paid"]
    /\ UNCHANGED <<payable, link, request, races>>

\* settlement.received from the vendor, once more or late.
ApplySettlementReceived(p) ==
    /\ Exists(p)
    /\ payouts[p].status \notin {"Paid", "Confirmed"}
    /\ payouts' = [payouts EXCEPT ![p].status = "Confirmed"]
    /\ UNCHANGED <<payable, link, request, races>>

PayoutsNext ==
    \/ \E f \in Fulfilments : OrderMoves(f)
    \/ \E r \in Requests : Claim(r) \/ \E p \in PayoutIds : Calculate(r, p)
    \/ \E p \in PayoutIds :
         Delete(p) \/ MarkPaid(p) \/ ApplySettlementReceived(p)

PayoutsSpec == PayoutsInit /\ [][PayoutsNext]_payoutVars

-----------------------------------------------------------------------------
\* "An amount is only ever counted as owed once" (payouts.py): a fulfilment is
\* in the total of one payout, and of one more for each calculation that
\* overwrote a claim committed while it ran.
CountedOnce ==
    \A f \in Fulfilments : Cardinality({p \in PayoutIds : f \in payouts[p].total}) <= 1 + races

\* A claim names a payout that exists, so deleting payouts never leaves a
\* fulfilment that is neither owed nor paid.
ClaimsAreHeld == \A f \in Fulfilments : link[f] # NoPayout => Exists(link[f])

\* What a vendor is owed is in one payout or outstanding, but for those races.
OwedOnce == CountedOnce /\ ClaimsAreHeld
=============================================================================
