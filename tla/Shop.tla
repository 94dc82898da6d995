-------------------------------- MODULE Shop ---------------------------------
(***************************************************************************)
(* What a shopper sees and does: VendorChoice, PriceCaches, CmsCache and   *)
(* Variants, and Carts, Coupons, Loyalty, DeliverySlots, Memberships and   *)
(* OrderTotals, with the properties of each.  They write different tables  *)
(* and meet only in checkout, whose order OrderLifecycle models, so a      *)
(* behaviour picks one of them and the others stay in their first state.   *)
(* MCShop gives the constants small values; ShopProofs proves the          *)
(* properties for all values.                                              *)
(***************************************************************************)
EXTENDS Integers, Sequences, FiniteSets, Memberships

\* Requests are those of Carts and of Variants, MaxBusy bounds those of Coupons and
\* of DeliverySlots; NoPlan and the like stand for a field that is empty.
CONSTANTS
    Users, Sessions, CartIds, Lines, Available, Nobody,    \* Carts
    NoCart, Requests, MaxQty,
    Orders, PhoneOf, MaxUses, MaxPerPhone, MaxBusy,        \* Coupons
    MaxDrift,
    Purchases, PointsFor, OrderEarns, Opening, MinPoints,  \* Loyalty
    MaxDiscount, GoldFrom, BirthdayPoints, Years, MaxSaves,
    Bookings, Dates, SlotDates, MaxOrders, DefaultMax,     \* DeliverySlots
    Baskets, TaxTables, Coupons, NoCoupon, Plans, NoPlan,  \* OrderTotals
    PointsAsked, Balances, Charges, MinRedeem, RedeemPct,
    OnboardPct, OnboardMax, CategoryOf, BrandOf, ParentOf,
    NoCategory,
    Slugs, Readers, MaxText, Nothing,                      \* CmsCache
    Listings, VendorOf, ProductOf, PriceOf, MinutesOf,     \* VendorChoice
    RadiusOf, Zones, ZoneOrder, ActiveSets, Distances,
    Limits, Modes, Anyone, Nowhere, NoListing, NoAsk,
    Life, NotCached,                                       \* PriceCaches
    Matrices, SigOf, NameOf, SlugOf, MaxStarts             \* Variants

VARIABLES
    part,                                                      \* the one that moves
    carts, open,                                               \* Carts
    active, usedCount, usages, priced, quoted, granted, drift, \* Coupons
    entries, stage, points, saves, year,                       \* Loyalty
    slotActive, bookings, counting,                            \* DeliverySlots
    order,                                                     \* OrderTotals
    kind, rows, cache, saving, reading, behind,                \* CmsCache
    shop, ask,                                                 \* VendorChoice
    template, entry, shown,                                    \* PriceCaches
    parent, variants, requests, starts, made, refused, victims \* Variants

-----------------------------------------------------------------------------
(* What the proofs need of the constants.                                  *)
ASSUME PlansAssumption == LengthOf \in [Sales -> Int] /\ LastDay \in Nat
ASSUME CartsAssumption ==
    MaxQty \in Nat \ {0} /\ NoCart \notin CartIds /\ Nobody \notin Users
ASSUME CouponsAssumption ==
    /\ IsFiniteSet(Orders) /\ MaxUses \in Nat /\ MaxPerPhone \in Nat
    /\ MaxBusy \in Nat \ {0} /\ MaxDrift \in Nat
ASSUME LoyaltyAssumption ==
    /\ IsFiniteSet(Purchases) /\ PointsFor \in [Purchases -> Int]
    /\ OrderEarns \in Nat /\ Opening \in Nat /\ BirthdayPoints \in Nat
    /\ MinPoints \in Int /\ MaxDiscount \in Nat /\ GoldFrom \in Int /\ Years \in Nat
ASSUME SlotsAssumption ==
    IsFiniteSet(Bookings) /\ Dates # {} /\ MaxOrders \in Nat /\ DefaultMax \in Nat
\* A basket and a tax table are sequences, and a plan's rules are rows of one table.
\* The percentages are of a whole: membership_plan.py refuses a rule of more than
\* 100, no form refuses a coupon or a zone of more.
ASSUME TotalsAssumption ==
    /\ Baskets # {} /\ \A b \in Baskets :
          Len(b) \in Nat /\ DOMAIN b = 1..Len(b) /\ \A i \in DOMAIN b : b[i].amount \in Nat
    /\ TaxTables # {} /\ \A t \in TaxTables :
          /\ Len(t) \in Nat /\ DOMAIN t = 1..Len(t)
          /\ \A i \in DOMAIN t : t[i].rate \in Int /\ t[i].amount \in Int
    /\ NoCoupon \in Coupons /\ \A c \in Coupons \ {NoCoupon} :
          /\ c.value \in Nat /\ c.max \in Nat /\ c.minOrder \in Int
          /\ c.type = "Percentage" => c.value <= 100
    /\ NoPlan \in Plans /\ \A p \in Plans \ {NoPlan} :
          /\ IsFiniteSet(p.rules) /\ p.cap \in Int
          /\ \A r \in p.rules : /\ r.value \in Int /\ r.cap \in Int /\ r.minOrder \in Int
                                /\ r.priority \in Int /\ r.row \in Int
          /\ \A r, q \in p.rules : r.row = q.row => r = q
    /\ PointsAsked # {} /\ PointsAsked \subseteq Int
    /\ Balances # {} /\ Balances \subseteq Int /\ Charges # {} /\ Charges \subseteq Nat
    /\ MinRedeem \in Int /\ RedeemPct \in 0..100 /\ OnboardMax \in Nat
    /\ OnboardPct \in [1..2 -> 0..100]
\* The card of a related product is the product's own page entry.
ASSUME LifeAssumption ==
    /\ \A k \in {"base", "resolve", "page", "related", "list"} : Life[k] \in Nat \ {0}
    /\ Life["related"] = Life["page"]
\* A name and a slug are made of the values of a combination, and its signature is
\* those values and their attributes.
ASSUME NamesAssumption ==
    /\ \A c, d \in DOMAIN SigOf : SigOf[c] = SigOf[d] => NameOf[c] = NameOf[d]
    /\ Matrices \subseteq Seq(DOMAIN SigOf) /\ MaxStarts \in Nat
ASSUME ContentAssumption == Slugs # {} /\ MaxText \in Nat

\* The zone "" sorts first.  create_vendor_listing keeps one listing of a product for
\* a vendor; where the desk form has added others without a zone, they have the
\* same priority, so that the query returns them by price.
ASSUME ListingsAssumption ==
    /\ Listings \subseteq Nat /\ NoListing \notin Listings
    /\ ActiveSets \subseteq SUBSET Listings
    /\ PriceOf \in [Listings -> Nat] /\ MinutesOf \in [Listings -> Nat]
    /\ ActiveSets # {} /\ Modes # {} /\ Distances # {}
    /\ Distances \ {Nowhere} \subseteq Nat /\ Limits \subseteq Nat
    /\ DOMAIN ZoneOrder \subseteq Nat \ {0} /\ 1 \in DOMAIN ZoneOrder /\ ZoneOrder[1] = ""
    /\ \A i, j \in DOMAIN ZoneOrder : ZoneOrder[i] = ZoneOrder[j] => i = j
    /\ \A i \in DOMAIN ZoneOrder : ZoneOrder[i] # Anyone
    /\ \A l \in Listings : \E i \in DOMAIN ZoneOrder : ZoneOrder[i] \in Zones[l]
    /\ \A l, m \in Listings :
          VendorOf[l] = VendorOf[m] /\ ProductOf[l] = ProductOf[m] /\ "" \in Zones[l] \cap Zones[m]
             /\ l < m => PriceOf[l] <= PriceOf[m]

-----------------------------------------------------------------------------
Ca == INSTANCE Carts
Co == INSTANCE Coupons WITH stage <- priced
Lo == INSTANCE Loyalty WITH Orders <- Purchases, Asked <- PointsFor, MinRedeem <- MinPoints
Sl == INSTANCE DeliverySlots
To == INSTANCE OrderTotals
Cm == INSTANCE CmsCache WITH Places <- Slugs
Vc == INSTANCE VendorChoice
Pc == INSTANCE PriceCaches
Va == INSTANCE Variants WITH template <- parent

-----------------------------------------------------------------------------
FirstShop == CHOOSE s \in Vc!Shops : TRUE

Init ==
    /\ part \in {"carts", "coupons", "loyalty", "slots", "totals", "content", "choice", "prices",
                 "memberships", "variants"}
    /\ \/ part = "choice" /\ Vc!Init
       \/ part # "choice" /\ shop = FirstShop /\ ask = NoAsk
    /\ Cm!Init /\ (part = "content" \/ (kind = "single" /\ rows["first"] = rows["second"]))
    /\ Pc!Init /\ (part = "prices" \/ ~template)
    /\ Ca!Init /\ Co!Init /\ Lo!Init /\ Sl!Init /\ To!Init /\ MembershipsInit /\ Va!Init

StillCarts == UNCHANGED <<carts, open>>
StillCoupons == UNCHANGED <<active, usedCount, usages, priced, quoted, granted, drift>>
StillLoyalty == UNCHANGED <<entries, stage, points, saves, year>>
StillSlots == UNCHANGED <<slotActive, bookings, counting>>
StillTotals == UNCHANGED order
StillMembers == UNCHANGED membershipVars
StillOrders == StillCoupons /\ StillLoyalty /\ StillTotals
StillPlaces == StillCarts /\ StillSlots /\ StillMembers

StillContent == UNCHANGED <<kind, rows, cache, saving, reading, behind>>
StillChoice == UNCHANGED <<shop, ask>>
StillPrices == UNCHANGED <<template, entry, shown>>
StillVariants == UNCHANGED <<parent, variants, requests, starts, made, refused, victims>>

Shows ==
    \/ part = "content" /\ Cm!Next /\ StillChoice /\ StillPrices /\ StillVariants
    \/ part = "choice" /\ Vc!Next /\ StillContent /\ StillPrices /\ StillVariants
    \/ part = "prices" /\ Pc!Next /\ StillContent /\ StillChoice /\ StillVariants
    \/ part = "variants" /\ Va!Next /\ StillContent /\ StillChoice /\ StillPrices
StillShown == StillContent /\ StillChoice /\ StillPrices /\ StillVariants

Pays ==
    \/ part = "coupons" /\ Co!Next /\ StillLoyalty /\ StillTotals
    \/ part = "loyalty" /\ Lo!Next /\ StillCoupons /\ StillTotals
    \/ part = "totals" /\ To!Next /\ StillCoupons /\ StillLoyalty

Asks ==
    \/ part = "carts" /\ Ca!Next /\ StillSlots /\ StillMembers
    \/ part = "slots" /\ Sl!Next /\ StillCarts /\ StillMembers
    \/ part = "memberships" /\ MembershipsNext /\ StillCarts /\ StillSlots

Next ==
    /\ UNCHANGED part
    /\ \/ Shows /\ StillPlaces /\ StillOrders
       \/ Pays /\ StillShown /\ StillPlaces
       \/ Asks /\ StillShown /\ StillOrders

vars == <<part, carts, open, active, usedCount, usages, priced, quoted, granted, drift,
          entries, stage, points, saves, year, slotActive, bookings, counting, order,
          kind, rows, cache, saving, reading, behind, shop, ask, template, entry, shown,
          today, members, selling, beside, reopened,
          parent, variants, requests, starts, made, refused, victims>>

Spec == Init /\ [][Next]_vars

-----------------------------------------------------------------------------
\* Every component's state has its type.
TypeOK ==
    /\ Ca!CartsTypeOK /\ Co!CouponsTypeOK /\ Lo!LoyaltyTypeOK /\ Sl!SlotsTypeOK
    /\ To!OrderTotalsTypeOK /\ Cm!CmsTypeOK /\ Vc!ChoiceTypeOK /\ Pc!CachesTypeOK
    /\ MembershipsTypeOK /\ Va!VariantsTypeOK

\* Memberships' OneMembershipApplies is checked as it stands there.

\* Carts: lines are kept until checkout, through a merge, and afterwards.
CartsKeepTheirLines == [][Ca!LinesAreKept]_vars
\* Coupons: limits are overshot by what concurrency explains.
CouponLimitsHold == part = "coupons" => Co!CouponLimitsHold
\* Loyalty: points that are spent were earned and cover their discounts.
PointsAreCovered == part = "loyalty" => Lo!PointsAreCovered
\* DeliverySlots: the listing and the booking agree, overbooked by races only.
SlotsAreSound == part = "slots" => Sl!SlotsAreSound
\* OrderTotals: the discounts of an order.
DiscountsAreSound == part = "totals" => To!DiscountsAreSound
\* VendorChoice: every surface shows what can be delivered, at one price.
SurfacesAgree == part = "choice" => Vc!SurfacesAgree
\* CmsCache, PriceCaches: what visitors see is current, or behind for a reason
\* and for no longer than the lifetimes on its way.
ShownIsRecent ==
    /\ part = "content" => Cm!StaleIsExplained
    /\ part = "prices" => Pc!AgeIsBounded
\* Variants: each combination is made once and reported as it is.
MatrixIsReported == part = "variants" => Va!MatrixIsReported
=============================================================================
