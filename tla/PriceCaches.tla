----------------------------- MODULE PriceCaches ------------------------------
(***************************************************************************)
(* How old a price on the storefront can be (api/products.py,              *)
(* api/cached.py).  The listing of a product is cached where it is         *)
(* resolved, again where that is called, and again in the page that shows  *)
(* it; a change of the price deletes none of the entries (hooks.py), they  *)
(* only expire.  A behaviour is about one product, plain or a template.    *)
(***************************************************************************)
EXTENDS Integers

CONSTANTS
    Life,        \* Life[k]: how long an entry lasts, in ticks
    NotCached    \* no entry, no answer yet

VARIABLES
    template,    \* whether the product has variants
    entry,       \* the entries: how old the listing in it is, how long it stays
    shown        \* the last answer: where it was shown and how old it is

cacheVars == <<template, entry, shown>>

\* sm_best_listing or sm_best_template, sm_resolve_listing, the product's own
\* sm_product, that of a product it is related to, and the catalogue's answer.
Layers == {"base", "resolve", "page", "related", "list"}
Places == {"search", "page", "related", "list"}
Oldest == Life["base"] + Life["resolve"] + Life["page"] + Life["list"]

CachesTypeOK ==
    /\ template \in BOOLEAN
    /\ \A k \in Layers :
          entry[k] = NotCached \/ entry[k] \in [age : 0..Oldest, left : 1..Life[k]]
    /\ shown = NotCached \/ shown \in [at : Places, age : 0..Oldest]

Init ==
    /\ template \in BOOLEAN
    /\ entry = [k \in Layers |-> NotCached]
    /\ shown = NotCached

-----------------------------------------------------------------------------
\* An entry that is there answers as it is; else what was read fills it.
KeptLonger(es, k, age) ==  \* fault: a read prolongs the entry
    [es EXCEPT ![k] = [age |-> IF es[k] = NotCached THEN age ELSE es[k].age, left |-> Life[k]]]
Kept(es, k, age) ==
    IF es[k] = NotCached THEN [es EXCEPT ![k] = [age |-> age, left |-> Life[k]]] ELSE es

\* _get_best_vendor_listing without preloaded data, _get_best_template_listing.
Base(es) == Kept(es, "base", 0)
\* _resolve_best_listing without preloaded data.
Resolved(es) ==
    IF es["resolve"] # NotCached THEN Kept(es, "resolve", 0)
    ELSE Kept(Base(es), "resolve", Base(es)["base"].age)

\* With preloaded data a plain product is read afresh, and for a vendor or a zone
\* that was asked for the entry is written anew; a template's is still used.
Preloaded(es, named) ==
    IF template THEN Base(es)
    ELSE IF named THEN [es EXCEPT !["base"] = [age |-> 0, left |-> Life["base"]]] ELSE es
PreloadedAge(es) == IF template THEN Base(es)["base"].age ELSE 0

Answer(k, es, age) == entry' = es /\ shown' = [at |-> k, age |-> age]

\* search_products: resolved for each result.
Search ==
    /\ Answer("search", Resolved(entry), Resolved(entry)["resolve"].age)
    /\ UNCHANGED template

\* get_product: the page, and this product's card on another one's page.
GetProduct(named) ==
    LET es == IF entry["page"] = NotCached THEN Preloaded(entry, named) ELSE entry
        kept == Kept(es, "page", PreloadedAge(entry)) IN
    /\ Answer("page", kept, kept["page"].age)
    /\ UNCHANGED template
GetRelated ==
    LET es == IF entry["related"] = NotCached THEN Resolved(entry) ELSE entry
        kept == IF entry["related"] = NotCached THEN Kept(es, "related", es["resolve"].age) ELSE Kept(es, "related", 0) IN
    /\ Answer("related", kept, kept["related"].age)
    /\ UNCHANGED template

\* list_products behind cached_response; a request that finds another one
\* filling the entry asks the database itself and fills nothing.
ListProducts(named) ==
    LET es == IF entry["list"] = NotCached THEN Preloaded(entry, named) ELSE entry
        kept == Kept(es, "list", PreloadedAge(entry)) IN
    /\ Answer("list", kept, kept["list"].age)
    /\ UNCHANGED template
ListProductsUnlocked(named) ==
    /\ entry["list"] = NotCached
    /\ Answer("list", Preloaded(entry, named), PreloadedAge(entry))
    /\ UNCHANGED template

\* Saving a brand deletes the pages, not the listings in them.
SaveBrand ==
    /\ entry' = [entry EXCEPT !["page"] = NotCached, !["related"] = NotCached]
    /\ UNCHANGED <<template, shown>>

Tick ==
    /\ entry' = [k \in Layers |->
          IF entry[k] = NotCached \/ entry[k].left = 1 THEN NotCached
          ELSE [age |-> entry[k].age + 1, left |-> entry[k].left - 1]]
    /\ shown' = NotCached
    /\ UNCHANGED template

Next ==
    \/ Search
    \/ GetRelated
    \/ \E named \in BOOLEAN : GetProduct(named)
    \/ \E named \in BOOLEAN : ListProducts(named)
    \/ \E named \in BOOLEAN : ListProductsUnlocked(named)
    \/ SaveBrand
    \/ Tick

Spec == Init /\ [][Next]_cacheVars

-----------------------------------------------------------------------------
\* What a price on the storefront can lag behind the vendor's by: one lifetime on
\* a plain product's page, two in the search or on a template's page, three on a
\* card under "related products"; the catalogue, built to be half a minute old,
\* is that for plain products and one lifetime more for templates.
StalenessBound(k) ==
    CASE k = "search" -> Life["base"] + Life["resolve"]
      [] k = "page" -> Life["page"] + (IF template THEN Life["base"] ELSE 0)
      [] k = "related" -> Life["page"] + Life["base"] + Life["resolve"]
      [] k = "list" -> Life["list"] + (IF template THEN Life["base"] ELSE 0)
AgeIsBounded == shown # NotCached => shown.age < StalenessBound(shown.at)
===============================================================================
