-------------------------------- MODULE Carts --------------------------------
(***************************************************************************)
(* The Cart table (api/cart.py, doctype/cart/cart.py): guests' carts keyed *)
(* by the session id their browser keeps, customers' carts keyed by user.  *)
(*                                                                         *)
(* A request reads its cart and saves it later.  Document.save refuses to  *)
(* write a cart whose "modified" stamp has moved since it was read; db_set *)
(* (checkout's, and the end of a merge) writes without looking.  Errors    *)
(* are caught by handle_api_errors, so what a refused request has already  *)
(* written stays written.                                                  *)
(*                                                                         *)
(* A line is a product at a vendor.  Saving an empty cart is refused, and  *)
(* with it every cart the API would create: carts start as rows that a     *)
(* guest writes through the document API with their first line.            *)
(***************************************************************************)
EXTENDS Integers

CONSTANTS
    Users,      \* signed-in customers
    Sessions,   \* session ids that browsers hold
    CartIds,    \* rows of the Cart table
    Lines,      \* products at vendors
    Available,  \* the Vendor Stock quantity the guards compare with
    Nobody,     \* no user
    NoCart,
    Requests,   \* concurrent requests
    MaxQty      \* bound: units of one line

VARIABLES
    carts,   \* status, session, user and units per line of every cart
    open     \* what each request has read

cartVars == <<carts, open>>

NoLines == [l \in Lines |-> 0]
Unused == [status |-> "Unused", session |-> "none", user |-> Nobody, items |-> NoLines]
Idle == [op |-> "none", cart |-> NoCart, other |-> NoCart, copy |-> Unused,
         theirs |-> Unused, moved |-> {}]

CartsTypeOK ==
    /\ carts \in [CartIds -> [status : {"Unused", "Active", "CheckedOut", "Merged"},
                              session : Sessions \cup {"none"},
                              user : Users \cup {Nobody}, items : [Lines -> 0..MaxQty]]]
    /\ \A r \in Requests :
         /\ open[r].op \in {"none", "cart", "checkout", "merge", "adopt"}
         /\ {open[r].cart, open[r].other} \subseteq CartIds \cup {NoCart}
         /\ open[r].moved \subseteq {open[r].cart, open[r].other}

Init ==
    /\ carts = [c \in CartIds |-> Unused]
    /\ open = [r \in Requests |-> Idle]

Active(c) == carts[c].status = "Active"
OfUser(u) == {c \in CartIds : Active(c) /\ carts[c].user = u}
OfSession(s) == {c \in CartIds : Active(c) /\ carts[c].session = s}

\* The cart a request of user u (or Nobody) with session id s works on.  Both
\* find_active_cart and _get_or_create_cart look by user first; only the latter
\* leaves another customer's cart alone.
Found(u, s) == IF u # Nobody /\ OfUser(u) # {} THEN OfUser(u) ELSE OfSession(s)
Mine(u, s) == {c \in Found(u, s) : u = Nobody \/ carts[c].user \in {u, Nobody}}

Empty(items) == items = NoLines

\* A write moves a cart's "modified" stamp under whoever else has read it.
Stamp(cs) ==
    [r \in Requests |->
        [open[r] EXCEPT !.moved = @ \cup (cs \cap {open[r].cart, open[r].other})]]
Done(r, cs) == [Stamp(cs) EXCEPT ![r] = Idle]

\* Fault: the status is written with update_modified=False.
MarkCheckedOutUnstamped(r, c) ==
    /\ carts' = [carts EXCEPT ![c].status = "CheckedOut"]
    /\ open' = Done(r, {})

\* db_set("status", "CheckedOut") moves the stamp like a save.
MarkCheckedOut(r, c) ==
    /\ carts' = [carts EXCEPT ![c].status = "CheckedOut"]
    /\ open' = Done(r, {c})

\* A guest's browser inserts a Cart with its first line; session_id is unique.
Write(c, s, l) ==
    /\ carts[c].status = "Unused"
    /\ \A d \in CartIds : carts[d].session # s
    /\ carts' = [carts EXCEPT ![c] = [status |-> "Active", session |-> s, user |-> Nobody,
                                      items |-> [NoLines EXCEPT ![l] = 1]]]
    /\ UNCHANGED open

\* A request with no cart to work on frees the session id of the ended cart
\* that holds it, then fails to insert the empty cart.
CreateRefused(u, s) ==
    /\ Found(u, s) = {}
    /\ \E c \in CartIds :
         /\ carts[c].session = s
         /\ ~Active(c)
         /\ carts' = [carts EXCEPT ![c].session = "none"]
         /\ open' = Stamp({c})

\* What a shopper's request reads.  A signed-in shopper adopts the guest cart.
Open(r, u, s, op) ==
    /\ open[r].op = "none"
    /\ \E c \in IF op = "checkout" THEN Found(u, s) ELSE Mine(u, s) :
         open' = [open EXCEPT ![r] =
             [Idle EXCEPT !.op = op, !.cart = c,
                          !.copy = [carts[c] EXCEPT !.user =
                              IF op = "checkout" \/ u = Nobody THEN @ ELSE u]]]
    /\ UNCHANGED carts

\* Fault: Cart.validate accepts an empty cart.
SavesAnything(r, copy) == open[r].cart \notin open[r].moved

\* Document.save refuses an empty cart, and one that has moved since it was read.
Saves(r, copy) == open[r].cart \notin open[r].moved /\ ~Empty(copy.items)

Save(r, copy) ==
    IF Saves(r, copy)
    THEN carts' = [carts EXCEPT ![open[r].cart] = copy] /\ open' = Done(r, {open[r].cart})
    ELSE UNCHANGED carts /\ open' = Done(r, {})

\* A handler that fails, or only reads: all that is left of it is the adoption.
Leave(r) ==
    IF open[r].copy.user # carts[open[r].cart].user
    THEN Save(r, open[r].copy) ELSE UNCHANGED carts /\ open' = Done(r, {})

Put(copy, l, q) == [copy EXCEPT !.items[l] = q]

\* The cart is saved once before the availability guard, which refuses a line
\* that would exceed the vendor's stock.
AddToCart(r, l, q) ==
    LET total == open[r].copy.items[l] + q
    IN /\ open[r].op = "cart"
       /\ total <= MaxQty
       /\ Save(r, IF total <= Available[l] THEN Put(open[r].copy, l, total) ELSE open[r].copy)

\* Zero removes the line; a line that is not in the cart is refused.
UpdateCartItem(r, l, q) ==
    /\ open[r].op = "cart"
    /\ IF open[r].copy.items[l] > 0 /\ q <= Available[l] /\ Saves(r, Put(open[r].copy, l, q))
       THEN Save(r, Put(open[r].copy, l, q)) ELSE Leave(r)

\* get_cart, its summary and its count; and clear_cart, whose empty cart is
\* refused.
GetOrClearCart(r) ==
    /\ open[r].op = "cart"
    /\ IF Saves(r, [open[r].copy EXCEPT !.items = NoLines])
       THEN Save(r, [open[r].copy EXCEPT !.items = NoLines]) ELSE Leave(r)

\* The client's lines are added where the server has none; where both have one
\* the server's quantity stays.  No stock is consulted.
SyncCartOffline(r, l, q) ==
    /\ open[r].op = "cart"
    /\ Save(r, IF open[r].copy.items[l] = 0 THEN Put(open[r].copy, l, q) ELSE open[r].copy)

SetCustomerLocation(r) ==
    /\ open[r].op = "cart"
    /\ Save(r, open[r].copy)

\* checkout orders the lines it read and marks the cart, whatever it is by then.
Checkout(r) ==
    /\ open[r].op = "checkout"
    /\ MarkCheckedOut(r, open[r].cart)

\* login -> merge_guest_cart: the guest cart is looked up by session alone.
LoginRead(r, u, s) ==
    /\ open[r].op = "none"
    /\ \E g \in OfSession(s) :
         \/ /\ OfUser(u) = {}
            /\ open' = [open EXCEPT ![r] = [Idle EXCEPT
                   !.op = "adopt", !.cart = g, !.copy = [carts[g] EXCEPT !.user = u]]]
         \/ \E c \in OfUser(u) :
              open' = [open EXCEPT ![r] = [Idle EXCEPT
                   !.op = "merge", !.cart = c, !.other = g,
                   !.copy = carts[c], !.theirs = carts[g]]]
    /\ UNCHANGED carts

Adopt(r) ==
    /\ open[r].op = "adopt"
    /\ Save(r, open[r].copy)

\* Fault: a line both carts have keeps the customer's quantity.
MergedItemsKeepMine(mine, theirs) ==
    [l \in Lines |-> IF mine[l] > 0 THEN mine[l] ELSE theirs[l]]

\* Same product and vendor: the quantities add up.
MergedItems(mine, theirs) == [l \in Lines |-> mine[l] + theirs[l]]

\* The customer's cart is saved, then the guest's marked Merged.
Merge(r) ==
    LET items == MergedItems(open[r].copy.items, open[r].theirs.items)
        both == {open[r].cart, open[r].other}
    IN /\ open[r].op = "merge"
       /\ \A l \in Lines : items[l] <= MaxQty
       /\ IF Saves(r, [open[r].copy EXCEPT !.items = items])
          THEN /\ carts' = [c \in CartIds |->
                     [carts[c] EXCEPT
                        !.items = IF c = open[r].cart THEN items ELSE @,
                        !.status = IF c = open[r].other THEN "Merged" ELSE @]]
               /\ open' = Done(r, both)
          ELSE open' = Done(r, {}) /\ UNCHANGED carts

Next ==
    \/ \E c \in CartIds, s \in Sessions, l \in Lines : Write(c, s, l)
    \/ \E u \in Users \cup {Nobody}, s \in Sessions :
         \/ CreateRefused(u, s)
         \/ \E r \in Requests, op \in {"cart", "checkout"} : Open(r, u, s, op)
    \/ \E r \in Requests, u \in Users, s \in Sessions : LoginRead(r, u, s)
    \/ \E r \in Requests :
         \/ \E l \in Lines, q \in 1..MaxQty : AddToCart(r, l, q) \/ SyncCartOffline(r, l, q)
         \/ \E l \in Lines, q \in 0..MaxQty : UpdateCartItem(r, l, q)
         \/ GetOrClearCart(r) \/ SetCustomerLocation(r) \/ Checkout(r) \/ Adopt(r) \/ Merge(r)

Spec == Init /\ [][Next]_cartVars

-----------------------------------------------------------------------------
\* Document.save never leaves a cart without lines, so a shopper who has a cart
\* has something to check out; add_to_cart's first save depends on it.
ActiveCartsHaveLines == \A c \in CartIds : Active(c) => ~Empty(carts[c].items)

\* Once checked out a cart's lines stay what they were and it is never offered
\* to a shopper again, although requests that read it before may still save.
EndedCartsStayEnded ==
    \A c \in CartIds : carts[c].status = "CheckedOut" =>
        carts'[c].status # "Active" /\ carts'[c].items = carts[c].items

\* A login that merges two carts nobody touched meanwhile keeps every unit the
\* shopper had in either.
MergeKeepsPieces ==
    \A r \in Requests :
        LET mine == open[r].cart  theirs == open[r].other
        IN (/\ open[r].op = "merge" /\ open'[r].op = "none" /\ open[r].moved = {}
            /\ mine # theirs /\ Active(mine) /\ Active(theirs))
           => \A l \in Lines :
                 carts'[mine].items[l] = carts[mine].items[l] + carts[theirs].items[l]

\* A step leaves in a cart what a shopper put there until it is checked out, and
\* as it was afterwards.
LinesAreKept == ActiveCartsHaveLines' /\ EndedCartsStayEnded /\ MergeKeepsPieces
=============================================================================
