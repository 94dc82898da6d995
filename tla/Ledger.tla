-------------------------------- MODULE Ledger --------------------------------
(***************************************************************************)
(* The GL Entries of one order (api/accounting.py), posted by the hook on  *)
(* Payment Log, by refund_order and by a payout's settlement.              *)
(*                                                                         *)
(* Payments are recorded by gateway callbacks, which write the order with  *)
(* set_value, and by admins, whose save is refused when the order has      *)
(* moved.  What a request may not repeat it looks up in the entries        *)
(* committed when it started.  A batch is inserted leg by leg; an error is *)
(* logged and what was inserted stays.                                     *)
(***************************************************************************)
EXTENDS Integers, Sequences, FiniteSets, Bags, SequencesExt, FiniteSetsExt

CONSTANTS
    Deals,        \* orders: net, tax, coupon, absorber, loyalty, other, delivery, waived, sold
    Charts,       \* sets of accounts that the chart resolves
    Requests,     \* requests that may run at once
    Commission,   \* commission of the vendor's payout
    MaxBatches    \* bound: batches of entries

VARIABLES
    deal,      \* the order's amounts
    chart,     \* accounts that _get_account finds
    payment,   \* Order.payment_status
    gl,        \* the bag of the batches of GL Entries
    request    \* what each request has read

ledgerVars == <<deal, chart, payment, gl, request>>

Ended == [op |-> "none", amount |-> 0, seen |-> {}, paid |-> FALSE, moved |-> FALSE]

Grand(d) ==
    d.net + d.tax - d.coupon - d.loyalty - d.other + (IF d.waived THEN 0 ELSE d.delivery)

Kinds == {"payment", "loyalty", "delivery", "refund", "settlement"}

LedgerTypeOK ==
    /\ deal \in Deals
    /\ chart \in Charts
    /\ payment \in {"Unpaid", "Partially Paid", "Paid", "Refunded"}
    /\ \A b \in BagToSet(gl) :
         /\ b.kind \in Kinds
         /\ b.whole \in BOOLEAN
         /\ \A leg \in ToSet(b.legs) : leg.debit >= 0 /\ leg.credit >= 0
    /\ \A r \in Requests : request[r].op \in {"none", "gateway", "admin", "refund"}

Init ==
    /\ deal \in Deals
    /\ chart \in Charts
    /\ payment = "Unpaid"
    /\ gl = EmptyBag
    /\ request = [r \in Requests |-> Ended]

-----------------------------------------------------------------------------
If(condition, legs) == IF condition THEN legs ELSE <<>>

\* A leg whose account the chart lacks is left out.
Debit(account, x) ==
    If(account \in chart, <<[account |-> account, debit |-> x, credit |-> 0]>>)
Credit(account, x) ==
    If(account \in chart, <<[account |-> account, debit |-> 0, credit |-> x]>>)

PlatformCoupon == IF deal.absorber = "Platform" THEN deal.coupon ELSE 0
VendorCoupon == deal.coupon - PlatformCoupon

\* _calculate_vendor_clearing_amount.  The commission is looked up through a
\* field that was not fetched, so none is taken off.
ClearingAmount ==
    LET owed == deal.sold - VendorCoupon + PlatformCoupon + deal.loyalty
    IN IF owed > 0 THEN owed ELSE 0

\* Fault: a coupon is an expense of the platform whoever absorbs it.
PaymentLegsAnyCoupon(amount) ==
    Debit("cash", amount) \o Credit("revenue", deal.net) \o Debit("coupon", deal.coupon)
    \o Debit("loyalty", deal.loyalty) \o Credit("vat", deal.tax)
    \o Credit("delivery", deal.delivery) \o Debit("clearing", ClearingAmount)

\* record_order_payment_gl
PaymentLegs(amount) ==
    Debit("cash", amount) \o Credit("revenue", deal.net)
    \o If(deal.tax > 0, Credit("vat", deal.tax))
    \o If(PlatformCoupon > 0, Debit("coupon", PlatformCoupon))
    \o If(deal.loyalty > 0, Debit("loyalty", deal.loyalty))
    \o If(deal.delivery > 0, Credit("delivery", deal.delivery))
    \o If(ClearingAmount > 0, Debit("clearing", ClearingAmount))

\* record_loyalty_reimbursement_gl
LoyaltyLegs ==
    If({"loyalty", "clearing"} \subseteq chart /\ deal.loyalty > 0,
       Debit("loyalty", deal.loyalty) \o Credit("clearing", deal.loyalty))

Vat(x) == (13 * x) \div 100

\* Fault: the delivery VAT is charged on top of the delivery income.
DeliveryLegsVatOnTop ==
    If({"logistics", "delivery"} \subseteq chart /\ deal.delivery > 0,
       Debit("logistics", deal.delivery) \o Credit("delivery", deal.delivery)
       \o Credit("vat", Vat(deal.delivery)))

\* record_delivery_charge_gl
DeliveryLegs ==
    If({"logistics", "delivery"} \subseteq chart /\ deal.delivery > 0,
       Debit("logistics", deal.delivery) \o Credit("delivery", deal.delivery - Vat(deal.delivery))
       \o Credit("vat", Vat(deal.delivery)))

\* create_refund_gl_entries
RefundLegs(amount) == Credit("cash", amount) \o Debit("revenue", amount)

\* create_settlement_journal_entry, with the reimbursements that
\* generate_settlement_statement adds up.
SettlementLegs ==
    Debit("cash", deal.sold - Commission)
    \o If(Commission > 0, Debit("commission", Commission))
    \o If(Commission > 0, Debit("vat input", Vat(Commission)))
    \o Credit("clearing", deal.sold + Vat(Commission))
    \o If(PlatformCoupon > 0, Debit("coupon", PlatformCoupon))
    \o If(deal.loyalty > 0, Debit("loyalty", deal.loyalty))

Batch(kind, legs) == [kind |-> kind, legs |-> legs, whole |-> TRUE]
Batches(kind, legs) == If(legs # <<>>, <<Batch(kind, legs)>>)
Recorded == {b.kind : b \in BagToSet(gl)}

Post(batches) == gl' = gl (+) SetToBag(ToSet(batches))

-----------------------------------------------------------------------------
\* A gateway callback finds the order not Paid; an admin's also not Refunded.
Read(r, op, amount) ==
    /\ request[r].op = "none"
    /\ CASE op = "gateway" -> payment # "Paid" /\ amount = Grand(deal)
         [] op = "admin" -> payment \notin {"Paid", "Refunded"}
         [] op = "refund" -> payment # "Refunded" /\ amount = Grand(deal)
    /\ request' = [request EXCEPT ![r] = [op |-> op, amount |-> amount,
                       seen |-> Recorded, paid |-> payment = "Paid", moved |-> FALSE]]
    /\ UNCHANGED <<deal, chart, payment, gl>>

\* Fault: the lookup asks for entries of the payout, not of the order.
NotYetBlind(r, kind) == kind \in Kinds

\* The lookups against double entries; the one for loyalty searches a remark
\* that no entry has.
NotYet(r, kind) == kind = "loyalty" \/ kind \notin request[r].seen

Hooked(r) ==
    If(NotYet(r, "payment"), Batches("payment", PaymentLegs(request[r].amount)))
    \o If(NotYet(r, "loyalty"), Batches("loyalty", LoyaltyLegs))
    \o If(NotYet(r, "delivery"), Batches("delivery", DeliveryLegs))

\* What is left of the first n batches when the last of them fails after its
\* first leg.
CutAt(batches, n) ==
    SubSeq(batches, 1, n - 1)
    \o <<[kind |-> batches[n].kind, legs |-> SubSeq(batches[n].legs, 1, 1), whole |-> FALSE]>>

\* on_payment_log_created: all of it, or a part when an insertion fails.
PostHook(r) ==
    \/ Post(Hooked(r))
    \/ \E n \in DOMAIN Hooked(r) : Post(CutAt(Hooked(r), n))

\* The request ends; a write of the order moves it under the others.
Finish(r, wrote) ==
    request' = [q \in Requests |-> IF q = r THEN Ended
                ELSE [request[q] EXCEPT !.moved = @ \/ (wrote /\ request[q].op # "none")]]

\* _mark_order_paid
MarkOrderPaid(r) ==
    /\ request[r].op = "gateway"
    /\ payment' = "Paid"
    /\ PostHook(r)
    /\ Finish(r, TRUE)
    /\ UNCHANGED <<deal, chart>>

\* apply_partial_payment: what was paid before is not added up.
ApplyPartialPayment(r) ==
    /\ request[r].op = "admin"
    /\ IF request[r].moved THEN UNCHANGED <<payment, gl>> /\ Finish(r, FALSE)
       ELSE /\ payment' = IF request[r].amount >= Grand(deal) THEN "Paid" ELSE "Partially Paid"
            /\ PostHook(r)
            /\ Finish(r, TRUE)
    /\ UNCHANGED <<deal, chart>>

\* refund_order posts the reversal before its save can be refused.
RefundOrder(r) ==
    /\ request[r].op = "refund"
    /\ Post(If(request[r].paid /\ NotYet(r, "refund"),
               Batches("refund", RefundLegs(request[r].amount))))
    /\ payment' = IF request[r].moved THEN payment ELSE "Refunded"
    /\ Finish(r, ~request[r].moved)
    /\ UNCHANGED <<deal, chart>>

\* create_vendor_payout's settlement, once the order is paid.
Settle ==
    /\ payment = "Paid"
    /\ "settlement" \notin Recorded
    /\ Post(Batches("settlement", SettlementLegs))
    /\ UNCHANGED <<deal, chart, payment, request>>

Next ==
    /\ BagCardinality(gl) < MaxBatches
    /\ \/ \E r \in Requests :
            \/ \E op \in {"gateway", "admin", "refund"},
                  amount \in {Grand(deal), Grand(deal) \div 2} : Read(r, op, amount)
            \/ MarkOrderPaid(r) \/ ApplyPartialPayment(r) \/ RefundOrder(r)
       \/ Settle

Spec == Init /\ [][Next]_ledgerVars

-----------------------------------------------------------------------------
Posted(kind) == {b \in BagToSet(gl) : b.kind = kind}
Times(kind) == SumFunctionOnSet(gl, Posted(kind))
Debits(legs) == SumFunction([i \in DOMAIN legs |-> legs[i].debit])
Credits(legs) == SumFunction([i \in DOMAIN legs |-> legs[i].credit])

\* Payments, deliveries and refunds are booked once, and again only by requests
\* that were under way when the first booking was committed.
BookedPerOverlap ==
    \A kind \in {"payment", "delivery", "refund"} :
        Times(kind) <= Cardinality(Requests)

\* "All entries must balance": the loyalty, delivery and refund journals do, when
\* the chart has their accounts and every leg was inserted.
JournalsBalance ==
    \A b \in Posted("loyalty") \cup Posted("delivery") \cup Posted("refund") :
        (b.whole /\ {"vat", "cash", "revenue"} \subseteq chart) =>
            Debits(b.legs) = Credits(b.legs)

\* With a complete chart a payment in full is out of balance by what is owed to
\* the vendors, less the discounts that no account bears: this, and no other
\* amount, is what the trial balance of an order shows.
PaymentExcessIsClearing ==
    \A b \in Posted("payment") :
        (b.whole /\ {"cash", "revenue", "vat", "coupon", "loyalty", "delivery", "clearing"}
                           \subseteq chart)
        => LET cash == b.legs[1].debit
           IN Debits(b.legs) - Credits(b.legs) =
                ClearingAmount - VendorCoupon - deal.other - (Grand(deal) - cash)
                - (IF deal.waived THEN deal.delivery ELSE 0)

\* A run of requests books an order once, what it books balances, and what a
\* payment does not balance by is known.
BooksAgree == BookedPerOverlap /\ JournalsBalance /\ PaymentExcessIsClearing
=============================================================================
