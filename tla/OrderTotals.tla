----------------------------- MODULE OrderTotals -----------------------------
(***************************************************************************)
(* The price of an order: calculate_taxes_and_totals (api/totals.py) with  *)
(* the discounts it calls for: coupon, onboarding, membership              *)
(* (api/membership.py) and loyalty.  Amounts are whole paisa, percentages  *)
(* round to the nearest.  The functions are pure, so the state is just the *)
(* basket and what the customer is entitled to, edited one part at a time. *)
(***************************************************************************)
EXTENDS Integers, Sequences, FiniteSets, FiniteSetsExt, Functions

CONSTANTS
    Baskets,      \* sequences of lines [product, amount]
    TaxTables,    \* sequences of tax rows [type, rate, amount]
    Coupons,      \* coupons that may be quoted, NoCoupon among them
    NoCoupon,
    Plans,        \* membership plans, NoPlan among them
    NoPlan,
    PointsAsked,  \* loyalty points that may be asked for
    Balances,     \* loyalty balances
    Charges,      \* delivery charges
    MinRedeem,    \* points a redemption needs
    RedeemPct,    \* max_redemption_per_order_pct
    OnboardPct,   \* the zone's percentage for a customer's n-th order
    OnboardMax,   \* onboarding_max_discount_amount, 0 for none
    CategoryOf, BrandOf, ParentOf, NoCategory  \* the catalogue

VARIABLE order

orderVars == <<order>>

OrderTotalsTypeOK ==
    order \in [lines : Baskets, taxes : TaxTables, coupon : Coupons, plan : Plans,
               sequence : 0..3, points : PointsAsked, balance : Balances,
               delivery : Charges]

Percent(x, p) == (x * p + 50) \div 100
Least(m, n) == IF m < n THEN m ELSE n
AtLeastZero(n) == IF n > 0 THEN n ELSE 0
SumOf(f(_), S) == MapThenSumSet(f, S)

NetTotal(o) == SumOf(LAMBDA i : o.lines[i].amount, DOMAIN o.lines)

-----------------------------------------------------------------------------
\* _calculate_taxes.  "On Net Total" is taken of the running total, earlier
\* taxes included; "On Previous Row Total" of the previous row's tax alone.
TaxRows(o) ==
    LET rows == o.taxes
        upTo[i \in 0..Len(rows)] ==
            IF i = 0 THEN [running |-> NetTotal(o), last |-> 0]
            ELSE LET before == upTo[i - 1]
                     tax == CASE rows[i].type = "Actual" -> rows[i].amount
                              [] rows[i].type = "On Previous Row Total" ->
                                    Percent(before.last, rows[i].rate)
                              [] OTHER -> Percent(before.running, rows[i].rate)
                 IN [running |-> before.running + tax, last |-> tax]
    IN upTo[Len(rows)]

TotalTaxes(o) == TaxRows(o).running - NetTotal(o)

-----------------------------------------------------------------------------
\* validate_coupon's discount; a coupon that is refused gives none.
CouponDiscount(o) ==
    LET c == o.coupon  net == NetTotal(o)
    IN IF c = NoCoupon \/ net < c.minOrder THEN 0
       ELSE CASE c.type = "Percentage" ->
                    IF c.max > 0 THEN Least(Percent(net, c.value), c.max)
                    ELSE Percent(net, c.value)
              [] c.type = "Fixed Amount" -> Least(c.value, net)
              [] OTHER -> 0

CouponFreesDelivery(o) ==
    /\ o.coupon # NoCoupon
    /\ o.coupon.type = "Free Delivery"
    /\ NetTotal(o) >= o.coupon.minOrder

\* Of the customer's first or second order, after the coupon.
OnboardingDiscount(o) ==
    LET pct == IF o.sequence \in {1, 2} THEN OnboardPct[o.sequence] ELSE 0
        discount == Percent(NetTotal(o) - CouponDiscount(o), pct)
    IN AtLeastZero(IF OnboardMax > 0 THEN Least(discount, OnboardMax) ELSE discount)

-----------------------------------------------------------------------------
\* How specific a membership rule is for a product; rules that do not cover it
\* are not in the set.
Ancestry(category) ==
    LET up[n \in 0..3] == IF n = 0 THEN category
                          ELSE IF up[n - 1] = NoCategory THEN NoCategory ELSE ParentOf[up[n - 1]]
    IN up

Specificities(rule, product) ==
    CASE rule.scope = "All Products" -> {1000}
      [] rule.scope = "Brand" -> IF BrandOf[product] = rule.target THEN {0} ELSE {}
      [] OTHER -> {n \in 0..3 : Ancestry(CategoryOf[product])[n] = rule.target}

\* Fault: the priority decides before the specificity.
PrecedesByPriority(r, q, product) ==
    \/ r.priority < q.priority
    \/ r.priority = q.priority /\ r.row <= q.row

Precedes(r, q, product) ==
    LET a == Min(Specificities(r, product))  b == Min(Specificities(q, product))
    IN \/ a < b
       \/ a = b /\ r.priority < q.priority
       \/ a = b /\ r.priority = q.priority /\ r.row <= q.row

\* _pick_benefit: the one rule of a line, if any.
RulesFor(o, i, owed) ==
    {r \in o.plan.rules : r.minOrder <= owed /\ Specificities(r, o.lines[i].product) # {}}

Picked(o, i, owed) ==
    {r \in RulesFor(o, i, owed) :
        \A q \in RulesFor(o, i, owed) : Precedes(r, q, o.lines[i].product)}

Saved(r, amount) ==
    IF r.type = "Percentage" THEN Percent(amount, r.value) ELSE Least(r.value, amount)

\* What a rule takes off the first n lines, up to its own ceiling.
RuleTotal(o, r, n, picks) ==
    LET total == SumOf(LAMBDA i : Saved(r, o.lines[i].amount), {i \in 1..n : r \in picks[i]})
    IN IF r.cap > 0 THEN Least(total, r.cap) ELSE total

\* Fault: a rule's ceiling binds the ledger's row but not the lines.
LineSavingUncapped(o, i, picks) == SumOf(LAMBDA r : Saved(r, o.lines[i].amount), picks[i])

LineSaving(o, i, picks) ==
    SumOf(LAMBDA r : RuleTotal(o, r, i, picks) - RuleTotal(o, r, i - 1, picks), picks[i])

\* The plan's ceiling scales every amount down.
Scaled(o, amount, total) ==
    IF o.plan.cap > 0 /\ total > o.plan.cap
    THEN (2 * amount * o.plan.cap + total) \div (2 * total) ELSE amount

\* resolve_membership_discount: what it charges, and the rows record_savings
\* writes to the ledger.
Resolve(o, owed) ==
    LET lines == DOMAIN o.lines
        picks == [i \in lines |-> Picked(o, i, owed)]
        savings == [i \in lines |-> LineSaving(o, i, picks)]
        rows == [r \in o.plan.rules |-> RuleTotal(o, r, Len(o.lines), picks)]
        total == SumFunction(savings)
    IN IF o.plan = NoPlan THEN [discount |-> 0, ledger |-> 0]
       ELSE [discount |-> SumFunction([i \in lines |-> Scaled(o, savings[i], total)]),
             ledger |-> SumFunction([r \in o.plan.rules |-> Scaled(o, rows[r], total)])]

OwedAfterOnboarding(o) == NetTotal(o) - CouponDiscount(o) - OnboardingDiscount(o)

\* Fault: the membership is taken of the net total.
MembershipDiscountOfNet(o) == Least(Resolve(o, NetTotal(o)).discount, NetTotal(o))

MembershipDiscount(o) ==
    LET owed == OwedAfterOnboarding(o)
    IN Least(Resolve(o, owed).discount, AtLeastZero(owed))

PlanFreesDelivery(o) ==
    o.plan # NoPlan /\ o.plan.freeDelivery /\ NetTotal(o) >= o.plan.freeFrom

-----------------------------------------------------------------------------
\* calculate_redemption_discount of n points; a point is worth one paisa.
Redeemed(o, n) ==
    LET owed == OwedAfterOnboarding(o) - MembershipDiscount(o)
    IN IF n <= 0 \/ n < MinRedeem THEN 0
       ELSE Least(Least(n, o.balance), Percent(owed, RedeemPct))

LoyaltyDiscount(o) == Redeemed(o, o.points)

TotalDiscount(o) ==
    CouponDiscount(o) + OnboardingDiscount(o) + MembershipDiscount(o) + LoyaltyDiscount(o)

GrandTotal(o) ==
    AtLeastZero(NetTotal(o) + TotalTaxes(o) - TotalDiscount(o)
                + (IF CouponFreesDelivery(o) \/ PlanFreesDelivery(o) THEN 0 ELSE o.delivery))

\* Fault: what is left of the points asked for stays on the order.
PointsKeptAsRest(o, n) == n - Redeemed(o, n)

\* The order as it is stored: the points used replace the points asked for.
PointsKept(o, n) == Redeemed(o, n)

-----------------------------------------------------------------------------
Init ==
    order \in [lines : {CHOOSE b \in Baskets : TRUE}, taxes : {CHOOSE t \in TaxTables : TRUE},
               coupon : {NoCoupon}, plan : {NoPlan}, sequence : {0},
               points : {CHOOSE p \in PointsAsked : TRUE},
               balance : {CHOOSE b \in Balances : TRUE},
               delivery : {CHOOSE c \in Charges : TRUE}]

Next ==
    \/ \E b \in Baskets : order' = [order EXCEPT !.lines = b]
    \/ \E t \in TaxTables : order' = [order EXCEPT !.taxes = t]
    \/ \E c \in Coupons : order' = [order EXCEPT !.coupon = c]
    \/ \E p \in Plans : order' = [order EXCEPT !.plan = p]
    \/ \E n \in 0..3 : order' = [order EXCEPT !.sequence = n]
    \/ \E n \in PointsAsked : order' = [order EXCEPT !.points = n]
    \/ \E n \in Balances : order' = [order EXCEPT !.balance = n]
    \/ \E n \in Charges : order' = [order EXCEPT !.delivery = n]

Spec == Init /\ [][Next]_orderVars

-----------------------------------------------------------------------------
\* "Three stacked percentages off the same base can otherwise exceed the order
\* value": the discounts together never exceed what the lines cost, and the
\* taxes are paid in full.
DiscountsWithinNet ==
    TotalDiscount(order) <= NetTotal(order) /\ GrandTotal(order) >= TotalTaxes(order)

\* checkout prices an order and the insert prices it again; from then on a save
\* in the same circumstances changes nothing.  (The second pricing may: a
\* redemption capped below the minimum is refused when it is asked again.)
PricingSettles ==
    LET kept[k \in 0..3] == IF k = 0 THEN order.points ELSE PointsKept(order, kept[k - 1])
    IN kept[3] = kept[2]

\* The ledger rows of a membership account for the discount it charged, but for
\* the rounding of each line.
LedgerCoversCharge ==
    Resolve(order, OwedAfterOnboarding(order)).ledger + Len(order.lines)
        >= MembershipDiscount(order)

\* A rule for exactly this category or brand is never outranked by a broader one.
SpecificRuleWins ==
    order.plan # NoPlan =>
        \A i \in DOMAIN order.lines :
            LET owed == OwedAfterOnboarding(order)
                p == order.lines[i].product
            IN \A r \in Picked(order, i, owed), q \in RulesFor(order, i, owed) :
                 0 \in Specificities(q, p) => 0 \in Specificities(r, p)

\* The order's price: what is taken off, by which rule, and that it stays.
DiscountsAreSound ==
    DiscountsWithinNet /\ PricingSettles /\ LedgerCoversCharge /\ SpecificRuleWins
=============================================================================
