------------------------------- MODULE Loyalty -------------------------------
(***************************************************************************)
(* One customer's loyalty points (api/loyalty.py) as a ledger of entries,  *)
(* under concurrent checkouts of the customer, the deliveries that earn    *)
(* points, and the two daily crons.                                        *)
(*                                                                         *)
(* A checkout reads the balance when it is priced and debits the points    *)
(* when the order is inserted, checking them against the same read: the    *)
(* request's snapshot of the table lasts until redeem_points commits.      *)
(* Amounts are whole points; a point is worth one unit of money.           *)
(***************************************************************************)
EXTENDS Integers, FiniteSets, FiniteSetsExt

CONSTANTS
    Orders,          \* the customer's orders
    Asked,           \* loyalty_points asked for at the checkout of each order
    OrderEarns,      \* points an order earns before the tier's multiplier
    Opening,         \* points earned before
    MinRedeem,       \* Loyalty Program.min_points_to_redeem
    MaxDiscount,     \* max_redemption_per_order_pct of the order's total
    GoldFrom,        \* min_points of the tier that doubles what orders earn
    BirthdayPoints,  \* the birthday bonus
    Years,           \* bound: calendar years
    MaxSaves         \* bound: saves of delivered orders

VARIABLES
    entries,   \* Loyalty Point Entry rows: kind, source and points
    stage,     \* where each order is
    points,    \* points each checkout or stored order redeems
    saves,     \* saves of each delivered order
    year

loyaltyVars == <<entries, stage, points, saves, year>>

Kinds == {"Earned", "Redeemed", "Expired"}
FromOrder(o) == <<"order", o>>
Birthday(y) == <<"birthday", y>>
Opened == <<"opening", 0>>
Sources == {FromOrder(o) : o \in Orders} \cup {Birthday(y) : y \in 0..Years} \cup {Opened}

LoyaltyTypeOK ==
    /\ \A e \in entries : e.kind \in Kinds /\ e.points \in Nat /\ e.expired \in BOOLEAN
    /\ stage \in [Orders -> {"none", "pricing", "placed", "stranded", "delivered"}]
    /\ points \in [Orders -> Int]
    /\ year \in 0..Years

Init ==
    /\ entries = {[kind |-> "Earned", source |-> Opened, nth |-> 0, points |-> Opening,
                   expired |-> FALSE]}
    /\ stage = [o \in Orders |-> "none"]
    /\ points = [o \in Orders |-> 0]
    /\ saves = [o \in Orders |-> 0]
    /\ year = 0

Least(m, n) == IF m < n THEN m ELSE n
Points(es) == MapThenSumSet(LAMBDA e : e.points, es)
OfKind(k) == {e \in entries : e.kind = k}

\* get_balance: the rows that are not expired.
Balance == Points({e \in OfKind("Earned") : ~e.expired}) - Points(OfKind("Redeemed"))

\* get_tier: only the multiplier matters.
Multiplier(balance) == IF balance >= GoldFrom THEN 2 ELSE 1

\* Fault: the request is not capped by the balance.
RedeemableUncapped(asked, balance) ==
    IF asked < MinRedeem THEN 0 ELSE Least(asked, MaxDiscount)

\* calculate_redemption_discount: the points a checkout may use.  A balance
\* below zero makes them negative, a surcharge.
Redeemable(asked, balance) ==
    IF asked < MinRedeem THEN 0 ELSE Least(Least(asked, balance), MaxDiscount)

\* calculate_taxes_and_totals reads the balance.
Price(o) ==
    /\ stage[o] = "none"
    /\ stage' = [stage EXCEPT ![o] = "pricing"]
    /\ points' = [points EXCEPT ![o] = Redeemable(Asked[o], Balance)]
    /\ UNCHANGED <<entries, saves, year>>

\* Order.after_insert: the debit, unless there is no discount to pay for.
Place(o) ==
    /\ stage[o] = "pricing"
    /\ points[o] >= 0
    /\ entries' = entries \cup
         (IF points[o] = 0 THEN {}
          ELSE {[kind |-> "Redeemed", source |-> FromOrder(o), nth |-> 0, points |-> points[o],
                 expired |-> FALSE]})
    /\ stage' = [stage EXCEPT ![o] = "placed"]
    /\ UNCHANGED <<points, saves, year>>

\* redeem_points refuses a negative redemption: the order is already inserted
\* and the error caught, so the row stays.
PlaceRefused(o) ==
    /\ stage[o] = "pricing"
    /\ points[o] < 0
    /\ stage' = [stage EXCEPT ![o] = "stranded"]
    /\ UNCHANGED <<entries, points, saves, year>>

\* Fault: the points asked for are kept apart from the points used.
RepricedFromAsked(o) == Redeemable(Asked[o], Balance)

\* The points used replace the points asked for, so a later pricing starts there.
Repriced(o) == IF points[o] > 0 THEN Redeemable(points[o], Balance) ELSE 0

\* Every later save prices the order again, from the balance it has left.
Resave(o) ==
    /\ stage[o] = "placed"
    /\ points' = [points EXCEPT ![o] = Repriced(o)]
    /\ points' # points
    /\ UNCHANGED <<entries, stage, saves, year>>

EarnedBy(o) ==
    [kind |-> "Earned", source |-> FromOrder(o), nth |-> saves'[o],
     points |-> OrderEarns * Multiplier(Balance), expired |-> FALSE]

\* A COD order earns on delivery, and again on every save while it is delivered.
Deliver(o) ==
    /\ stage[o] \in {"placed", "delivered"}
    /\ MapThenSumSet(LAMBDA p : saves[p], Orders) < MaxSaves
    /\ stage' = [stage EXCEPT ![o] = "delivered"]
    /\ saves' = [saves EXCEPT ![o] = @ + 1]
    /\ entries' = entries \cup {EarnedBy(o)}
    /\ UNCHANGED <<points, year>>

\* The rows expire_old_points flags once their expiry_date has passed.
ExpiresOf(source) == {e \in entries : e.source = source /\ e.kind = "Earned" /\ ~e.expired}

\* Earned entries expire whole, also when their points have been spent.
ExpireOldPoints(source) ==
    LET old == ExpiresOf(source)
    IN /\ old # {}
       /\ entries' = (entries \ old) \cup
                     {[e EXCEPT !.kind = "Expired", !.expired = TRUE] : e \in old}
       /\ UNCHANGED <<stage, points, saves, year>>

\* check_birthday_rewards: once a year, by the entry's remarks.
Rewarded == \E e \in entries : e.source = Birthday(year)

CheckBirthdayRewards ==
    /\ ~Rewarded
    /\ entries' = entries \cup
         {[kind |-> "Earned", source |-> Birthday(year), nth |-> 0,
           points |-> BirthdayPoints, expired |-> FALSE]}
    /\ UNCHANGED <<stage, points, saves, year>>

NewYear == year < Years /\ year' = year + 1 /\ UNCHANGED <<entries, stage, points, saves>>

Next ==
    \/ \E o \in Orders : Price(o) \/ Place(o) \/ PlaceRefused(o) \/ Resave(o) \/ Deliver(o)
    \/ \E s \in Sources : ExpireOldPoints(s)
    \/ CheckBirthdayRewards
    \/ NewYear

Spec == Init /\ [][Next]_loyaltyVars

-----------------------------------------------------------------------------
\* Two checkouts may spend the same points, and expiry takes spent points away,
\* so a balance can fall below zero; but customers never spend more than they
\* ever earned, once over for each checkout that ran at the same time.
SpentWasEarned ==
    Points(OfKind("Redeemed")) <=
        Cardinality(Orders) * Points({e \in entries : e.kind # "Redeemed"})

\* The ledger never takes more points for an order than its checkout asked for,
\* and a later pricing lowers the order's discount, never raises it.
DebitsCoverDiscounts ==
    \A o \in Orders : stage[o] \in {"placed", "delivered"} =>
        points[o] <= Points({e \in OfKind("Redeemed") : e.source = FromOrder(o)})

\* Points that are spent were earned, and discounts are paid for with points.
PointsAreCovered == SpentWasEarned /\ DebitsCoverDiscounts
=============================================================================
