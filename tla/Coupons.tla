------------------------------- MODULE Coupons -------------------------------
(***************************************************************************)
(* One coupon's limits (doctype/coupon/coupon.py) under concurrent         *)
(* checkouts and refunds (api/orders.py).                                  *)
(*                                                                         *)
(* Order.validate prices the order again on every save: each save asks     *)
(* validate_coupon, from what its own transaction read, whether the order  *)
(* gets the discount.  The use is counted after the order is inserted,     *)
(* whether or not the discount was granted, and a failure to count it is   *)
(* logged and forgotten.  A refund takes the use back before its save, so  *)
(* a second refund that loses the race for the save has taken it back too: *)
(* handle_api_errors turns the error into an answer and the request        *)
(* commits.                                                                *)
(***************************************************************************)
EXTENDS Integers, FiniteSets

CONSTANTS
    Orders,       \* orders that quote the coupon
    PhoneOf,      \* the customer's phone number of each order
    MaxUses,      \* Coupon.max_uses
    MaxPerPhone,  \* Coupon.max_uses_per_user
    MaxBusy,      \* bound: requests under way at once
    MaxDrift      \* bound: uses lost or taken back twice

VARIABLES
    active,     \* the coupon is active and within its dates
    usedCount,  \* Coupon.used_count
    usages,     \* the orders with a Coupon Usage row
    stage,      \* where each order is
    quoted,     \* whether the price the request computed has the discount
    granted,    \* whether the stored order has the discount
    drift       \* uses that used_count does not show

couponVars == <<active, usedCount, usages, stage, quoted, granted, drift>>

CouponsTypeOK ==
    /\ active \in BOOLEAN
    /\ usedCount \in Nat
    /\ usages \subseteq Orders
    /\ stage \in [Orders -> {"none", "pricing", "placed", "saving", "refunded"}]
    /\ quoted \in [Orders -> BOOLEAN]
    /\ granted \in [Orders -> BOOLEAN]
    /\ drift \in 0..MaxDrift

Init ==
    /\ active = TRUE
    /\ usedCount = 0
    /\ usages = {}
    /\ stage = [o \in Orders |-> "none"]
    /\ quoted = [o \in Orders |-> FALSE]
    /\ granted = [o \in Orders |-> FALSE]
    /\ drift = 0

UsesOf(phone) == {o \in usages : PhoneOf[o] = phone}

\* Fault: the per-customer limit is not read, as before customer_phone was passed.
ValidIgnoringCustomer(o) == active /\ usedCount < MaxUses

\* Fault: only the coupon's dates are checked.
ValidByDate(o) == active

\* The limits of validate_coupon; an order's own usage row counts against it.
Valid(o) ==
    /\ active
    /\ usedCount < MaxUses
    /\ Cardinality(UsesOf(PhoneOf[o])) < MaxPerPhone

Busy == {o \in Orders : stage[o] \in {"pricing", "saving"}}
CanStart == Cardinality(Busy) < MaxBusy

\* calculate_taxes_and_totals of a checkout, or of a later Document.save.
Price(o) ==
    /\ stage[o] \in {"none", "placed"}
    /\ CanStart
    /\ stage' = [stage EXCEPT ![o] = IF stage[o] = "none" THEN "pricing" ELSE "saving"]
    /\ quoted' = [quoted EXCEPT ![o] = Valid(o)]
    /\ UNCHANGED <<usedCount, usages, granted, drift, active>>

\* The request ends and the order holds the price it computed.
Settle(o, end, discount) ==
    /\ stage' = [stage EXCEPT ![o] = end]
    /\ quoted' = [quoted EXCEPT ![o] = FALSE]
    /\ granted' = [granted EXCEPT ![o] = discount]

\* increment_coupon_usage's UPDATE.
Counted(o) == usedCount + 1

\* The order is inserted, then the use counted and its row written.
Place(o) ==
    /\ stage[o] = "pricing"
    /\ Settle(o, "placed", quoted[o])
    /\ usedCount' = Counted(o)
    /\ usages' = usages \cup {o}
    /\ UNCHANGED <<drift, active>>

\* The order is inserted and counting it fails, or the process dies after the
\* commit inside the loyalty entry: the error is logged at most.
PlaceUncounted(o) ==
    /\ stage[o] = "pricing"
    /\ drift < MaxDrift
    /\ Settle(o, "placed", quoted[o])
    /\ drift' = drift + 1
    /\ UNCHANGED <<usedCount, usages, active>>

\* The order fails to insert: nothing is counted.
PlaceFails(o) ==
    /\ stage[o] = "pricing"
    /\ Settle(o, "none", FALSE)
    /\ UNCHANGED <<usedCount, usages, drift, active>>

Save(o) ==
    /\ stage[o] = "saving"
    /\ Settle(o, "placed", quoted[o])
    /\ UNCHANGED <<usedCount, usages, drift, active>>

\* Fault: the counter is not kept above zero.
TakeBackUnclamped(o) ==
    /\ usedCount' = usedCount - 1
    /\ usages' = usages \ {o}
    /\ UNCHANGED active

\* Fault: refund_order takes the use back twice.
TakeBackTwice(o) ==
    /\ usedCount' = IF usedCount > 1 THEN usedCount - 2 ELSE 0
    /\ usages' = usages \ {o}
    /\ UNCHANGED active

\* decrement_coupon_usage: GREATEST(used_count - 1, 0) and the row removed.
TakeBack(o) ==
    /\ usedCount' = IF usedCount > 0 THEN usedCount - 1 ELSE 0
    /\ usages' = usages \ {o}
    /\ UNCHANGED active

\* refund_order ends the order; its discount no longer matters.
Refund(o) ==
    /\ stage[o] = "placed"
    /\ TakeBack(o)
    /\ Settle(o, "refunded", FALSE)
    /\ UNCHANGED drift

\* A refund that read the order before another refund saved it: its own save is
\* refused, what it took back is committed.
RefundAgain(o) ==
    /\ stage[o] = "refunded"
    /\ drift < MaxDrift
    /\ TakeBack(o)
    /\ drift' = drift + 1
    /\ UNCHANGED <<stage, quoted, granted>>

\* The admin deactivates the coupon, or its last day passes.
Retire ==
    /\ active
    /\ active' = FALSE
    /\ UNCHANGED <<usedCount, usages, stage, quoted, granted, drift>>

Next ==
    \/ \E o \in Orders :
         \/ Price(o) \/ Place(o) \/ PlaceUncounted(o) \/ PlaceFails(o)
         \/ Save(o) \/ Refund(o) \/ RefundAgain(o)
    \/ Retire

Spec == Init /\ [][Next]_couponVars

-----------------------------------------------------------------------------
Discounted == {o \in Orders : granted[o]}

\* max_uses is read when an order is priced and counted when it is placed, so
\* concurrent checkouts may overshoot it, by as many as run at once and by the
\* uses the counter has lost, and never by more.
DiscountsWithinLimit ==
    Cardinality(Discounted) <= MaxUses + (MaxBusy - 1) + drift

\* The same for one customer's max_uses_per_user.
CustomersWithinLimit ==
    \A phone \in {PhoneOf[o] : o \in Orders} :
        Cardinality({o \in Discounted : PhoneOf[o] = phone})
            <= MaxPerPhone + (MaxBusy - 1) + drift

\* The counter that list_coupons subtracts from max_uses covers the usage rows,
\* short of the uses that were lost or taken back twice.
CounterCoversUsages == usedCount + drift >= Cardinality(usages)

\* The limits are overshot, and the counter falls short, by what concurrency
\* explains.
CouponLimitsHold == DiscountsWithinLimit /\ CustomersWithinLimit /\ CounterCoversUsages
=============================================================================
