------------------------------- MODULE Variants -------------------------------
(***************************************************************************)
(* The variants an admin makes of a template product                       *)
(* (api/admin_products.py, doctype/product): a request goes through a list *)
(* of attribute combinations and inserts a Product for each that no active *)
(* variant has, all in one transaction, whose end commits them.  A Product *)
(* is named after the template and the values, and a slug is unique; an    *)
(* insert that another transaction's row is in the way of waits for it.    *)
(***************************************************************************)
EXTENDS Integers, Sequences, FiniteSets, FiniteSetsExt

CONSTANTS
    Requests,    \* the create_variants requests that run at once
    Matrices,    \* the lists of combinations they ask for
    SigOf,       \* SigOf[c]: the attributes and values of a combination
    NameOf,      \* NameOf[c]: the product_name, made of the values only
    SlugOf,      \* SlugOf[c]: the slug made of that name
    MaxStarts    \* bound: requests ever started

VARIABLES
    template,    \* the template product's status, or "none"
    variants,    \* the committed variants
    requests,    \* each request under way
    starts,      \* how many were started
    made,        \* the combinations reported as created
    refused,     \* those reported as failed, and whether a row committed meanwhile
                 \* was in the way
    victims      \* the combinations created and rolled back by a deadlock

variantVars == <<template, variants, requests, starts, made, refused, victims>>

Combinations == DOMAIN SigOf
Variants == [combo : Combinations, slug : {SlugOf[c] : c \in Combinations} \X Nat,
             status : {"Active", "Inactive"}]
Idle == [todo |-> <<>>, known |-> {}, seen |-> {}, rows |-> {}, failed |-> {}, open |-> FALSE]

VariantsTypeOK ==
    /\ template \in {"none", "Active", "Inactive"}
    /\ variants \subseteq Variants
    /\ \A r \in Requests : requests[r].rows \subseteq Variants
    /\ starts \in 0..MaxStarts
    /\ made \cup victims \subseteq Combinations
    /\ refused \subseteq Combinations \X BOOLEAN

Init ==
    /\ template = "none"
    /\ variants = {}
    /\ requests = [r \in Requests |-> Idle]
    /\ starts = 0
    /\ made = {} /\ refused = {} /\ victims = {}

-----------------------------------------------------------------------------
CreateTemplate ==
    /\ template = "none" /\ template' = "Active"
    /\ UNCHANGED <<variants, requests, starts, made, refused, victims>>

\* The status may be set to anything; the variants do not follow.
UpdateTemplate(s) ==
    /\ template # "none" /\ template' = s
    /\ UNCHANGED <<variants, requests, starts, made, refused, victims>>

\* existing_sigs: a snapshot's active variants.
KnownSigs(rows) == {SigOf[v.combo] : v \in {v \in rows : v.status = "Active"}}

StartCreating(r, m) ==
    /\ template # "none"
    /\ ~requests[r].open
    /\ starts < MaxStarts /\ starts' = starts + 1
    /\ requests' = [requests EXCEPT ![r] =
          [todo |-> m, known |-> KnownSigs(variants), seen |-> variants, rows |-> {},
           failed |-> {}, open |-> TRUE]]
    /\ UNCHANGED <<template, variants, made, refused, victims>>

\* Fault: the name gets a number too, where it is taken.
SameNameNever(v, c) == FALSE
SameName(v, c) == NameOf[v.combo] = NameOf[c]

\* Fault: the slug is not numbered.
BareSlug(r, c) == <<SlugOf[c], 1>>
\* The first free number, among the rows the transaction sees.
FreeSlug(r, c) ==
    LET rows == requests[r].seen \cup requests[r].rows
        free == {n \in 1..(Cardinality(rows) + 1) : ~\E v \in rows : v.slug = <<SlugOf[c], n>>}
    IN <<SlugOf[c], Min(free)>>

\* A row the primary key or the index on slug does not admit another beside.
Collides(v, r, c) == SameName(v, c) \/ v.slug = FreeSlug(r, c)

\* The requests whose uncommitted row the insert of r's next one waits for.
WaitsFor(r) ==
    IF requests[r].todo = <<>> \/ SigOf[Head(requests[r].todo)] \in requests[r].known THEN {}
    ELSE {s \in Requests \ {r} :
            \E v \in requests[s].rows : Collides(v, r, Head(requests[r].todo))}

SkipCombination(r) ==
    /\ requests[r].todo # <<>>
    /\ SigOf[Head(requests[r].todo)] \in requests[r].known
    /\ requests' = [requests EXCEPT ![r].todo = Tail(@)]
    /\ UNCHANGED <<template, starts, variants, made, refused, victims>>

CreateVariant(r, c) ==
    /\ requests[r].todo # <<>> /\ c = Head(requests[r].todo)
    /\ SigOf[c] \notin requests[r].known
    /\ WaitsFor(r) = {}
    /\ ~\E v \in variants \cup requests[r].rows : Collides(v, r, c)
    /\ requests' = [requests EXCEPT
          ![r].todo = Tail(@), ![r].known = @ \cup {SigOf[c]},
          ![r].rows = @ \cup {[combo |-> c, slug |-> FreeSlug(r, c), status |-> "Active"]}]
    /\ UNCHANGED <<template, starts, variants, made, refused, victims>>

\* The insert is refused: logged, and on to the next combination.
FailCombination(r, c) ==
    /\ requests[r].todo # <<>> /\ c = Head(requests[r].todo)
    /\ SigOf[c] \notin requests[r].known
    /\ WaitsFor(r) = {}
    /\ \E v \in variants \cup requests[r].rows :
          /\ Collides(v, r, c)
          /\ requests' = [requests EXCEPT ![r].todo = Tail(@),
                ![r].failed = @ \cup {<<c, v \notin requests[r].seen \cup requests[r].rows>>}]
    /\ UNCHANGED <<template, starts, variants, made, refused, victims>>

\* Two inserts wait for each other: the database rolls one transaction back, and
\* the request goes on with the rest of its list in a new one.  What was
\* rolled back stays in its answer, and known.
Deadlock(r) ==
    /\ \E s \in WaitsFor(r) : r \in WaitsFor(s)
    /\ victims' = victims \cup {v.combo : v \in requests[r].rows}
    /\ made' = made \cup {v.combo : v \in requests[r].rows}
    /\ requests' = [requests EXCEPT ![r].todo = Tail(@), ![r].rows = {}, ![r].seen = variants]
    /\ UNCHANGED <<template, starts, variants, refused>>

FinishCreating(r) ==
    /\ requests[r].open /\ requests[r].todo = <<>>
    /\ variants' = variants \cup requests[r].rows
    /\ made' = made \cup {v.combo : v \in requests[r].rows}
    /\ refused' = refused \cup requests[r].failed
    /\ requests' = [requests EXCEPT ![r] = Idle]
    /\ UNCHANGED <<template, starts, victims>>

\* Fault: the row goes, and what was sold of it.
RemovedAway(v) == variants \ {v}
\* delete_variant keeps the row.
Removed(v) == (variants \ {v}) \cup {[v EXCEPT !.status = "Inactive"]}

DeleteVariant(v) ==
    /\ variants' = Removed(v)
    /\ UNCHANGED <<template, requests, starts, made, refused, victims>>

Next ==
    \/ CreateTemplate \/ (\E s \in {"Active", "Inactive"} : UpdateTemplate(s))
    \/ \E r \in Requests :
          \/ \E m \in Matrices : StartCreating(r, m)
          \/ SkipCombination(r) \/ Deadlock(r) \/ FinishCreating(r)
          \/ \E c \in Combinations : CreateVariant(r, c) \/ FailCombination(r, c)
    \/ \E v \in variants : DeleteVariant(v)

Spec == Init /\ [][Next]_variantVars

-----------------------------------------------------------------------------
\* However requests overlap and whatever was deleted before, a template has one
\* variant of a combination.
OneVariantPerCombination ==
    \A v, w \in variants : SigOf[v.combo] = SigOf[w.combo] => v = w

\* What a request reports as created is there for good, but for the victims of a
\* deadlock: "order history keeps working" after a deletion.
CreatedIsKept ==
    \A c \in made \ victims : \E v \in variants : v.combo = c

\* A combination is refused as a duplicate only where a product of its name exists,
\* or did until a deadlock rolled it back, or where one that another request
\* committed meanwhile has the slug: a slug that is taken gets a number, and a
\* deleted variant cannot be created again.
FailedIsTaken ==
    \A f \in refused :
        \/ f[2]
        \/ \E v \in variants : SameName(v, f[1])
        \/ \E c \in victims : NameOf[c] = NameOf[f[1]]

\* What the request reports of each combination is so, and each is made once.
MatrixIsReported == OneVariantPerCombination /\ CreatedIsKept /\ FailedIsTaken
===============================================================================
