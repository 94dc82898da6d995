------------------------------- MODULE MCShop --------------------------------
(* A small instance of Shop for TLC; Shop_all.cfg names the values.        *)
EXTENDS Shop

\* Three orders of one customer and one of another.
MCPhoneOf == [o \in 1..4 |-> IF o = 4 THEN "q" ELSE "p"]

MCAvailable == [l \in {"line"} |-> 1]

\* Yesterday, two days of the week ahead, one of them the slot's, and too far.
MCDates == {-1, 1, 2, 8}
MCSlotDates == {-1, 1, 8}

\* Two monthly plans and a longer one.
MCLengthOf == <<1, 2, 1>>
MCPointsFor == <<4, 5>>

MCLine(p, a) == [product |-> p, amount |-> a]
MCTax(t, r, a) == [type |-> t, rate |-> r, amount |-> a]
MCCoupon(t, v, m, from) == [type |-> t, value |-> v, max |-> m, minOrder |-> from]
MCRule(row, s, target, t, v, cap, from, priority) ==
    [row |-> row, scope |-> s, target |-> target, type |-> t, value |-> v, cap |-> cap,
     minOrder |-> from, priority |-> priority]

MCBaskets == {
    <<>>, <<MCLine("carrot", 100)>>, <<MCLine("carrot", 35), MCLine("soap", 101)>>,
    <<MCLine("soap", 40), MCLine("soap", 40)>>}
MCTaxTables == {
    <<>>, <<MCTax("On Net Total", 13, 0), MCTax("On Previous Row Total", 50, 0),
            MCTax("Actual", 0, 5)>>}
MCCoupons == {
    NoCoupon, MCCoupon("Percentage", 100, 0, 0), MCCoupon("Percentage", 50, 20, 60),
    MCCoupon("Fixed Amount", 90, 0, 0), MCCoupon("Free Delivery", 0, 0, 50)}
\* A plan whose broadest rule has the best priority, and one with a ceiling.
MCPlans == {
    NoPlan,
    [rules |-> {MCRule(1, "All Products", "", "Percentage", 10, 0, 0, 0),
                MCRule(2, "Category", "food", "Percentage", 30, 0, 0, 1),
                MCRule(3, "Category", "vegetables", "Percentage", 50, 12, 50, 5)},
     cap |-> 0, freeDelivery |-> TRUE, freeFrom |-> 100],
    [rules |-> {MCRule(1, "Brand", "lux", "Fixed Amount", 25, 40, 0, 2),
                MCRule(2, "All Products", "", "Percentage", 100, 0, 0, 1)},
     cap |-> 33, freeDelivery |-> FALSE, freeFrom |-> 0]}
MCCategoryOf == [carrot |-> "vegetables", soap |-> "home"]
MCBrandOf == [carrot |-> "farm", soap |-> "lux"]
MCParentOf == [vegetables |-> "food", home |-> NoCategory, food |-> NoCategory]
MCOnboardPct == <<50, 20>>

\* Two variants of two vendors: a vendor has two listings of the small one.
MCListing(v, p, price, minutes) == [vendor |-> v, product |-> p, price |-> price, minutes |-> minutes]
MCListings ==
    <<MCListing("near", "small", 7, 30), MCListing("near", "small", 9, 20),
      MCListing("far", "small", 8, 10), MCListing("far", "large", 6, 10)>>
MCVendorOf == [l \in 1..4 |-> MCListings[l].vendor]
MCProductOf == [l \in 1..4 |-> MCListings[l].product]
MCListingPrice == [l \in 1..4 |-> MCListings[l].price]
MCMinutesOf == [l \in 1..4 |-> MCListings[l].minutes]
MCRadiusOf == [v \in {"near", "far"} |-> 5]
MCZones == <<{"", "south"}, {"north"}, {"", "north"}, {""}>>
MCZoneOrder == <<"", "north", "south">>
MCDistances == {4, 8, Nowhere}

\* Ticks of a quarter of a minute would be faithful; the order of the lifetimes
\* is what matters.
MCLife == [k \in {"base", "resolve", "page", "related", "list"} |-> IF k = "list" THEN 1 ELSE 3]

\* Two of the combinations have the same values, so the same name, and two others'
\* names make the same slug.
MCMatrices == {<<2, 1>>, <<3, 1, 4>>}
MCSigOf == <<"a", "b", "c", "d">>
MCNameOf == <<"x", "y", "x", "z">>
MCSlugOf == <<"s", "t", "s", "t">>
=============================================================================
