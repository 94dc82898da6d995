----------------------------- MODULE VendorChoice -----------------------------
(***************************************************************************)
(* Whose listing stands for a product (api/products.py): the card of the   *)
(* catalogue, the product's page, the home feeds, the search and the cart  *)
(* each resolve a vendor for the same customer, partly by code of their    *)
(* own.  A state is a shop and one customer's question about it; the       *)
(* product is a template with two variants.  Listings are numbered in the  *)
(* order the queries return them: priority first, then price.              *)
(***************************************************************************)
EXTENDS Integers, FiniteSets, FiniteSetsExt

CONSTANTS
    Listings,    \* the Vendor Listing rows, 1..n
    VendorOf,    \* VendorOf[l]: who lists
    ProductOf,   \* ProductOf[l]: the variant listed
    PriceOf,     \* PriceOf[l]
    MinutesOf,   \* MinutesOf[l]: estimated delivery time
    RadiusOf,    \* RadiusOf[v]: service_radius_km
    Zones,       \* Zones[l]: the delivery zones the listing may have, "" for none
    ZoneOrder,   \* the zones as the database sorts them
    ActiveSets,  \* the sets of active listings
    Distances,   \* how far a vendor may be, Nowhere if it has no coordinates
    Limits,      \* the radius_km customers ask for
    Modes,       \* Settings.vendor_selection_mode
    Anyone,      \* no vendor or zone asked for
    Nowhere,     \* no coordinates, of a vendor or of a customer
    NoListing,   \* no listing resolved
    NoAsk        \* no question yet

VARIABLES
    shop,        \* the listings, the vendors' stock rows and places, the mode
    ask          \* the question

choiceVars == <<shop, ask>>

Vendors == {VendorOf[l] : l \in Listings}
Variants == {ProductOf[l] : l \in Listings}
ZoneNames == {ZoneOrder[i] : i \in DOMAIN ZoneOrder}

\* A vendor's listings are not tracked (no stock row is looked at), or its Vendor
\* Stock has an empty default row beside a full one, or a full default row.
StockRows == {"untracked", "elsewhere", "default"}
Shops == [active : ActiveSets, zone : {z \in [Listings -> ZoneNames] : \A l \in Listings : z[l] \in Zones[l]},
          rows : [Vendors -> StockRows], away : [Vendors -> Distances], mode : Modes]
\* Without coordinates the limit is not looked at, and one stands for all.
Asks == {q \in [vendor : Vendors \cup {Anyone}, zone : (ZoneNames \ {""}) \cup {Anyone},
                located : BOOLEAN, limit : Limits] : q.located \/ q.limit = Min(Limits)}

ChoiceTypeOK == shop \in Shops /\ (ask = NoAsk \/ ask \in Asks)

-----------------------------------------------------------------------------
Untracked == {v \in Vendors : shop.rows[v] = "untracked"}
Active(p) == {l \in shop.active : ProductOf[l] = p}
\* The default warehouse's row counts, whatever the other rows hold.
Qty(v) == IF shop.rows[v] = "default" THEN 1 ELSE 0
InStock(l) == VendorOf[l] \in Untracked \/ Qty(VendorOf[l]) > 0
Located(q, l) == q.located /\ shop.away[VendorOf[l]] # Nowhere
Away(l) == shop.away[VendorOf[l]]
Within(l) == Away(l) <= RadiusOf[VendorOf[l]]

\* The first of a set of listings, by a key and then by the query's order.
LeastBy(S, key) == Min({l \in S : \A m \in S : key[l] <= key[m]})
Stocked(S) == {l \in S : InStock(l)}
Prefer(S, T) == IF S # {} THEN S ELSE T
Nearest(S) == LeastBy(S, [l \in S |-> Away(l)])

\* _get_best_vendor_listing for the vendor asked for: its listing of the zone,
\* its unzoned listing, any.
OfVendor(q, S) ==
    LET mine == {l \in S : VendorOf[l] = q.vendor} IN
    Prefer({l \in mine : q.zone = shop.zone[l]}, Prefer({l \in mine : shop.zone[l] = ""}, mine))
\* Of the zone: in stock if possible.
OfZone(q, S) ==
    LET zoned == {l \in S : shop.zone[l] = q.zone} IN Prefer(Stocked(zoned), zoned)
\* For a customer with coordinates: in stock within the vendor's radius, in
\* stock outside it, then the others, the nearest first.
ByPlaceAlone(q, S) ==  \* fault: the stock is not looked at
    LET placed == {l \in S : Located(q, l)} IN Prefer({l \in placed : Within(l)}, placed)
ByPlace(q, S) ==
    LET placed == {l \in S : Located(q, l)}
        inside == {l \in placed : Within(l)}
    IN Prefer(Stocked(inside), Prefer(Stocked(placed), Prefer(inside, placed)))

ByMode(S) ==
    CASE shop.mode = "Lowest Price" -> LeastBy(S, PriceOf)
      [] shop.mode = "Lowest Delivery Time" -> LeastBy(S, MinutesOf)
      [] OTHER -> Min(S)

BestOf(q, S) ==
    CASE S = {} -> NoListing
      [] q.vendor # Anyone /\ OfVendor(q, S) # {} -> Min(OfVendor(q, S))
      [] (q.vendor = Anyone \/ OfVendor(q, S) = {}) /\ OfZone(q, S) # {} -> Min(OfZone(q, S))
      [] OTHER -> IF ByPlace(q, S) # {} THEN Nearest(ByPlace(q, S)) ELSE ByMode(S)
Best(q, p) == BestOf(q, Active(p))

\* A template stands for the cheapest of its variants' listings, in stock first.
TemplateBestOfAll(q) ==  \* fault: of all the variants' listings
    IF shop.active = {} THEN NoListing
    ELSE LeastBy(Prefer(Stocked(shop.active), shop.active), PriceOf)
TemplateBest(q) ==
    LET found == {Best(q, p) : p \in Variants} \ {NoListing} IN
    IF found = {} THEN NoListing ELSE LeastBy(Prefer(Stocked(found), found), PriceOf)

-----------------------------------------------------------------------------
\* list_products drops a resolved listing that cannot be delivered.
OutsideByLimit(q, l) ==  \* fault: the vendor's own radius is not looked at
    q.located /\ (~Located(q, l) \/ Away(l) > q.limit)
Outside(q, l) ==
    q.located /\ (~Located(q, l) \/ Away(l) > q.limit \/ ~Within(l))
Listed(q, l) == l # NoListing /\ ~Outside(q, l)

\* get_product's flag for the page of a plain product or a variant.
PageOutside(q, p) ==
    LET l == Best(q, p) IN
    q.located /\ (l = NoListing \/ ~Located(q, l) \/ Away(l) > q.limit \/ ~Within(l))

\* home._within_radius asks for no vendor or zone, and for the limit alone.
OnHome(q, p) ==
    LET l == Best([q EXCEPT !.vendor = Anyone, !.zone = Anyone], p) IN
    ~q.located \/ (l # NoListing /\ Located(q, l) /\ Away(l) <= q.limit)

\* location.nearest_vendor_for_product, and the condition of search_products.
NearbyVendors(q, p) == {VendorOf[l] : l \in {m \in Active(p) : Located(q, m) /\ Within(m)}}
Found(q, p) == q.located => NearbyVendors(q, p) # {}

\* A vendor's price in the cart, and in the preview of the totals: by zone and
\* price, of all its listings; unzoned, or else by zone and price.
ZoneRank(l) == CHOOSE i \in DOMAIN ZoneOrder : ZoneOrder[i] = shop.zone[l]
ByZone(S) == LeastBy({l \in S : \A m \in S : ZoneRank(l) <= ZoneRank(m)}, PriceOf)
OfSeller(v, p) == {l \in Active(p) : VendorOf[l] = v}
CartPrice(v, p) == PriceOf[ByZone(OfSeller(v, p))]
EffectiveByPrice(v, p) ==  \* fault: the cheapest when none is unzoned
    LET base == {l \in OfSeller(v, p) : shop.zone[l] = ""} IN
    PriceOf[LeastBy(Prefer(base, OfSeller(v, p)), PriceOf)]
EffectivePrice(v, p) ==
    LET base == {l \in OfSeller(v, p) : shop.zone[l] = ""} IN
    PriceOf[ByZone(Prefer(base, OfSeller(v, p)))]

\* select_best_vendor: for the cart, as the card for a located customer; without
\* a place, tracked listings only, of the zone and in stock if possible.
SelectBestTracked(q, p) ==  \* fault: untracked listings are never put in a cart
    LET tracked == {l \in Active(p) : VendorOf[l] \notin Untracked} IN
    IF tracked = {} THEN NoListing ELSE Min(Prefer(Stocked(tracked), tracked))
SelectBest(q, p) ==
    LET tracked == {l \in Active(p) : VendorOf[l] \notin Untracked}
        zoned == {l \in tracked : shop.zone[l] = q.zone}
        pool == Prefer(zoned, tracked)
        best == Best([q EXCEPT !.vendor = Anyone], p)
    IN IF q.located /\ best # NoListing THEN best
       ELSE IF tracked = {} THEN NoListing
       ELSE Min(Prefer(Stocked(pool), pool))

-----------------------------------------------------------------------------
Init == shop \in Shops /\ ask = NoAsk

Ask(q) ==
    /\ ask = NoAsk
    /\ ask' = q
    /\ UNCHANGED shop

Next == \E q \in Asks : Ask(q)

Spec == Init /\ [][Next]_choiceVars

Asked == ask # NoAsk

-----------------------------------------------------------------------------
\* A customer the catalogue shows a product to can be served: the page says so
\* too, search and the vendors nearby find it, and the home feeds do not hide
\* it.
ListedIsServed ==
    Asked => \A p \in Variants :
        LET best == Best(ask, p) IN
        Listed(ask, best) =>
            /\ ~PageOutside(ask, p)
            /\ ask.located => VendorOf[best] \in NearbyVendors(ask, p)
            /\ Found(ask, p)

\* A product some vendor has in stock, delivers to the customer and is not too
\* far away is shown to a customer who asks for no vendor and no zone, on the
\* catalogue and on the home page.
DeliverableIsListed ==
    Asked /\ ask.vendor = Anyone /\ ask.zone = Anyone /\ ask.located =>
        \A p \in Variants :
            (\E l \in Active(p) : Located(ask, l) /\ InStock(l) /\ Within(l) /\ Away(l) <= ask.limit)
                => LET best == Best(ask, p) IN Listed(ask, best) /\ InStock(best) /\ OnHome(ask, p)

\* A template's card is one of its variants' own: picking that variant shows
\* the same price, and delivery if the card was listed.
TemplateIsAVariant ==
    Asked =>
        LET card == TemplateBest(ask) IN
        card # NoListing =>
            \E p \in Variants : card = Best(ask, p) /\ (Listed(ask, card) => ~PageOutside(ask, p))

\* The totals preview and the cart charge a vendor's product the same, and a
\* vendor's own card shows that price when it has an unzoned listing.
OnePricePerVendor ==
    Asked /\ ask.vendor # Anyone =>
        \A p \in Variants :
            OfSeller(ask.vendor, p) # {} =>
                /\ EffectivePrice(ask.vendor, p) = CartPrice(ask.vendor, p)
                /\ (ask.zone = Anyone /\ \E l \in OfSeller(ask.vendor, p) : shop.zone[l] = "") =>
                       PriceOf[Best(ask, p)] = CartPrice(ask.vendor, p)

\* What is shown can be put in a cart without naming the vendor, unless nobody
\* tracks it and the customer gave no place; from a vendor that has it, if the
\* customer gave a place and no zone and somebody there has it.
ShownCanBeBought ==
    Asked =>
        \A p \in Variants :
            LET picked == SelectBest(ask, p) IN
            /\ Listed(ask, Best(ask, p)) =>
                   picked # NoListing \/ (~ask.located /\ \A l \in Active(p) : VendorOf[l] \in Untracked)
            /\ (ask.located /\ ask.zone = Anyone /\ picked # NoListing
                 /\ \E l \in Active(p) : Located(ask, l) /\ InStock(l)) => InStock(picked)

\* The ways of choosing a listing (the page, the catalogue, the template's card,
\* the search, the home feeds, the cart, the totals) agree with each other.
SurfacesAgree ==
    /\ ListedIsServed /\ DeliverableIsListed /\ TemplateIsAVariant
    /\ OnePricePerVendor /\ ShownCanBeBought
===============================================================================
