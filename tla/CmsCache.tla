------------------------------- MODULE CmsCache -------------------------------
(***************************************************************************)
(* The storefront's content (api/cms.py): each getter answers from a Redis *)
(* entry or reads the documents and fills the entry, and an on_update hook *)
(* (hooks.py) deletes entries while the editor's save is not yet           *)
(* committed.  A behaviour is about two documents of one kind; the second  *)
(* navigation item is a child of the first, and the second FAQ document an *)
(* item of the category that is the first.  Blog posts are cached as pages *)
(* are.                                                                    *)
(***************************************************************************)
EXTENDS Integers, FiniteSets

CONSTANTS
    Places,      \* the slugs, menu locations or cities a document can have
    Readers,     \* the visitors' requests that run at once
    MaxText,     \* bound: the saves of a document
    Nothing      \* no cached answer, no save under way

VARIABLES
    kind,        \* what the documents are
    rows,        \* the committed documents
    cache,       \* the entry of each key
    saving,      \* the save whose hooks have run and that is not committed
    reading,     \* each visitor's request: its key, what it read, and whether
                 \* a save overlaps it
    behind       \* the keys whose entry the code lets fall behind

cmsVars == <<kind, rows, cache, saving, reading, behind>>

Docs == {"first", "second"}
Kinds == {"single", "page", "navigation", "banner", "faq", "offer", "location", "home"}
Dated == {"banner", "offer"}
Placed == {"page", "navigation", "faq", "offer", "location"}

\* The keys of a kind's entries: sm_navigation:Header is "Header".
KeysOf(k) ==
    CASE k \in {"single", "banner", "home"} -> {"all"}
      [] k \in {"page", "navigation"} -> Places
      [] k = "faq" -> {"all", "categories"} \cup Places
      [] k = "offer" -> {"all", "Published"} \cup Places
      [] k = "location" -> {"all", "cities"} \cup Places
AllKeys == UNION {KeysOf(k) : k \in Kinds}
Keys == KeysOf(kind)

Rows == [at : Places, live : BOOLEAN, inDate : BOOLEAN, text : 0..MaxText]
Views == (SUBSET (Docs \X (0..MaxText))) \cup (SUBSET Places)
NotReading == [key |-> "all", view |-> Nothing, overlapped |-> FALSE]

CmsTypeOK ==
    /\ kind \in Kinds
    /\ rows \in [Docs -> Rows]
    /\ \A k \in AllKeys : cache[k] = Nothing \/ cache[k] \in Views
    /\ saving = Nothing \/ saving \in [doc : Docs, row : Rows]
    /\ \A r \in Readers :
          /\ reading[r].key \in AllKeys /\ reading[r].overlapped \in BOOLEAN
          /\ reading[r].view = Nothing \/ reading[r].view \in Views
    /\ behind \subseteq Keys

-----------------------------------------------------------------------------
\* What a getter's key shows: the published documents, or one of them.
View(rs, ds) == {<<d, rs[d].text>> : d \in ds}
Live(rs) == {d \in Docs : rs[d].live}
At(rs, key) == {d \in Docs : rs[d].at = key}

PageShown(rs, key) == View(rs, Live(rs) \cap At(rs, key))
BannersShown(rs, key) == View(rs, {d \in Live(rs) : rs[d].inDate})
\* The children of a shown item follow it, wherever they are placed.
NavigationShown(rs, key) ==
    View(rs, IF "first" \in Live(rs) \cap At(rs, key) THEN Live(rs) ELSE {})
\* The flat list has the active items; a category's list needs the category.
FaqShown(rs, key) ==
    CASE key = "all" -> View(rs, Live(rs) \ {"first"})
      [] key = "categories" -> View(rs, IF "first" \in Live(rs) THEN Live(rs) ELSE {})
      [] OTHER -> View(rs, IF "first" \in Live(rs) \cap At(rs, key)
                             THEN Live(rs) \ {"first"} ELSE {})
\* The lists check the offer's dates, the offer's own page does not.
OffersShown(rs, key) ==
    IF key \in {"all", "Published"} THEN BannersShown(rs, key) ELSE PageShown(rs, key)
LocationsShown(rs, key) ==
    CASE key = "all" -> View(rs, Live(rs))
      [] key = "cities" -> {rs[d].at : d \in Live(rs)}
      [] OTHER -> View(rs, Live(rs) \cap At(rs, key))

\* The five parts of the home page; a site's only config or static page.
HomeShown(rs, key) == View(rs, Live(rs))
SingleShown(rs, key) == View(rs, Docs)

Shown(rs, key) ==
    CASE kind = "page" -> PageShown(rs, key)
      [] kind = "navigation" -> NavigationShown(rs, key)
      [] kind = "banner" -> BannersShown(rs, key)
      [] kind = "faq" -> FaqShown(rs, key)
      [] kind = "offer" -> OffersShown(rs, key)
      [] kind = "location" -> LocationsShown(rs, key)
      [] kind = "home" -> HomeShown(rs, key)
      [] kind = "single" -> SingleShown(rs, key)

\* "if cached" takes an empty list for a miss, "is not None" does not; a page
\* that is not there, or a list of a category that is not, is not cached.
Hits(key) ==
    /\ cache[key] # Nothing
    /\ cache[key] # {} \/ kind \in {"faq", "offer", "location"}
Answers(rs, key) ==
    /\ (kind = "page" \/ (kind = "offer" /\ key \in Places)) => Shown(rs, key) # {}
    /\ (kind = "faq" /\ key \in Places) => "first" \in Live(rs) \cap At(rs, key)

BustedIfLive(doc, row) ==  \* fault: an unpublished document deletes nothing
    CASE ~row.live -> {}
      [] kind = "page" -> {row.at}
      [] kind = "faq" -> {"all", "categories"}
      [] kind = "offer" -> {"all", row.at}
      [] kind = "location" -> {"all", "cities", row.at}
      [] OTHER -> Keys
PageBusted(row) == {row.at}
FaqBusted(row) == {"all", "categories"}
OfferBusted(row) == {"all", row.at}
LocationBusted(row) == {"all", "cities", row.at}

\* The keys the document's on_update hook deletes.
Busted(doc, row) ==
    CASE kind = "page" -> PageBusted(row)
      [] kind = "faq" -> FaqBusted(row)
      [] kind = "offer" -> OfferBusted(row)
      [] kind = "location" -> LocationBusted(row)
      [] OTHER -> Keys

\* The keys no save deletes, and the one the document moves away from.
Unreached(doc, row) ==
    CASE kind = "faq" -> Places
      [] kind = "offer" -> {"Published", rows[doc].at} \ {row.at}
      [] kind \in {"page", "location"} -> {rows[doc].at} \ {row.at}
      [] OTHER -> {}

-----------------------------------------------------------------------------
FirstRow(p) == [at |-> p, live |-> TRUE, inDate |-> TRUE, text |-> 0]

Init ==
    /\ kind \in Kinds
    /\ \E here \in {CHOOSE p \in Places : TRUE}, there \in Places :
          /\ kind \in {"page", "offer"} => here # there      \* unique slugs
          /\ kind \notin Placed => here = there
          /\ rows = [first |-> FirstRow(here), second |-> FirstRow(there)]
    /\ cache = [k \in AllKeys |-> Nothing]
    /\ saving = Nothing
    /\ reading = [r \in Readers |-> NotReading]
    /\ behind = {}

\* A getter that misses reads the documents, then fills the entry; a save may
\* commit in between.
Read(r, key) ==
    /\ reading[r].view = Nothing /\ ~Hits(key) /\ Answers(rows, key)
    /\ reading' = [reading EXCEPT ![r] =
          [key |-> key, view |-> Shown(rows, key), overlapped |-> saving # Nothing]]
    /\ UNCHANGED <<kind, rows, cache, saving, behind>>

Fill(r) ==
    LET key == reading[r].key IN
    /\ reading[r].view # Nothing
    /\ cache' = [cache EXCEPT ![key] = reading[r].view]
    /\ behind' = IF reading[r].overlapped THEN behind \cup {key} ELSE behind \ {key}
    /\ reading' = [reading EXCEPT ![r] = NotReading]
    /\ UNCHANGED <<kind, rows, saving>>

\* 300 seconds, or 600, after it was filled.
Expire(key) ==
    /\ cache[key] # Nothing
    /\ cache' = [cache EXCEPT ![key] = Nothing]
    /\ behind' = behind \ {key}
    /\ UNCHANGED <<kind, rows, saving, reading>>

\* An editor saves or creates a document: its hook deletes the entries, and the
\* transaction commits afterwards.
Save(doc, row) ==
    /\ saving = Nothing
    /\ row.text = rows[doc].text + 1 /\ \A d \in Docs : rows[d].text < MaxText
    /\ row.inDate \/ kind \in Dated
    /\ row.live \/ kind # "single"
    /\ row.at = rows[doc].at \/ kind \in Placed
    /\ kind \in {"page", "offer"} => \A d \in Docs \ {doc} : row.at # rows[d].at
    /\ saving' = [doc |-> doc, row |-> row]
    /\ LET gone == Busted(doc, row) IN
       /\ cache' = [k \in AllKeys |-> IF k \in gone THEN Nothing ELSE cache[k]]
       /\ behind' = behind \ gone
    /\ reading' = [r \in Readers |-> [reading[r] EXCEPT !.overlapped = reading[r].view # Nothing]]
    /\ UNCHANGED <<kind, rows>>

Commit ==
    /\ saving # Nothing
    /\ rows' = [rows EXCEPT ![saving.doc] = saving.row]
    /\ behind' = behind \cup Unreached(saving.doc, saving.row)
    /\ saving' = Nothing
    /\ UNCHANGED <<kind, cache, reading>>

\* Deleting a document runs no hook, and neither does the day after valid_to.
Unhooked(doc, row) ==
    /\ saving = Nothing
    /\ rows[doc].live /\ rows' = [rows EXCEPT ![doc] = row]
    /\ behind' = Keys
    /\ reading' = [r \in Readers |-> [reading[r] EXCEPT !.overlapped = reading[r].view # Nothing]]
    /\ UNCHANGED <<kind, cache, saving>>
Delete(doc) == kind \notin {"single"} /\ Unhooked(doc, [rows[doc] EXCEPT !.live = FALSE])
NewDay(doc) == kind \in Dated /\ rows[doc].inDate /\ Unhooked(doc, [rows[doc] EXCEPT !.inDate = FALSE])

Next ==
    \/ \E r \in Readers, key \in Keys : Read(r, key)
    \/ \E r \in Readers : Fill(r)
    \/ \E key \in Keys : Expire(key)
    \/ \E doc \in Docs, row \in Rows : Save(doc, row)
    \/ Commit
    \/ \E doc \in Docs : Delete(doc)
    \/ \E doc \in Docs : NewDay(doc)

Spec == Init /\ [][Next]_cmsVars

-----------------------------------------------------------------------------
\* Visitors see what the editors committed: an entry differs from the documents
\* only for a key no hook deletes (a category's FAQ, the offers of a status, a
\* slug or city a document left), after a deletion or a change of day, or when a
\* visitor's request ran across a save.
StaleIsExplained ==
    \A k \in Keys \ behind : cache[k] # Nothing => cache[k] = Shown(rows, k)
===============================================================================
