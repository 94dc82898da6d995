---------------------------- MODULE StockRowProofs ----------------------------
(***************************************************************************)
(* What the row operations of StockRow yield and preserve, whatever the    *)
(* row and the quantity.                                                   *)
(***************************************************************************)
EXTENDS StockRow, TLAPS

\* The clamp returns a natural number.
LEMMA DropNat ==
    ASSUME NEW n \in Int, NEW q \in Nat
    PROVE  Drop(n, q) \in Nat
  BY DEF Drop

\* Overwriting a row yields a row.
LEMMA OverwriteClosed ==
    ASSUME NEW r \in Row, NEW s \in Row, NEW d \in Int
    PROVE  Overwrite(r, s, d) \in Row
  <1>1. r.reserved \in Int
        BY DEF Row
  <1>2. s.available \in Int /\ s.reserved \in Int
        BY DEF Row
  <1>. QED
        BY <1>1, <1>2 DEF Row, OnHand, Overwrite

\* Every other operation yields a row.
LEMMA RowClosed ==
    ASSUME NEW r \in Row, NEW q \in Nat
    PROVE  /\ OnHand(r) \in Int
           /\ Reserve(r, q) \in Row
           /\ Release(r, q) \in Row
           /\ Deduct(r, q) \in Row
           /\ Recount(r) \in Row
           /\ Recount(Deduct(r, q)) \in Row
  <1>1. r.available \in Int /\ r.reserved \in Int /\ r.physical \in Int
        BY DEF Row
  <1>3. Drop(r.reserved, q) \in Nat
        BY <1>1, DropNat
  <1>4. OnHand(r) \in Int
        BY <1>1 DEF OnHand
  <1>5. Reserve(r, q) \in Row
        BY <1>1 DEF Row, Reserve
  <1>6. Release(r, q) \in Row
        BY <1>1, <1>3 DEF Row, Release
  <1>7. Deduct(r, q) \in Row
        BY <1>3 DEF Row, Deduct
  <1>8. Recount(r) \in Row
        BY <1>4 DEF Row, Recount
  <1>9. Recount(Deduct(r, q)) \in Row
        BY <1>7 DEF Row, OnHand, Recount
  <1>. QED
        BY <1>4, <1>5, <1>6, <1>7, <1>8, <1>9

\* A row whose quantities are not negative.
Sound(r) == r.available >= 0 /\ r.reserved >= 0

\* The operations of an order keep a row sound.
LEMMA RowSound ==
    ASSUME NEW r \in Row, Sound(r), NEW q \in Nat
    PROVE  /\ CanReserve(r, q) => Sound(Reserve(r, q))
           /\ Sound(Release(r, q))
           /\ Sound(Deduct(r, q))
           /\ Sound(Recount(r))
           /\ Sound(Recount(Deduct(r, q)))
  <1>1. r.available \in Int /\ r.reserved \in Int /\ r.physical \in Int
        BY DEF Row
  <1>2. Drop(r.reserved, q) \in Nat
        BY <1>1, DropNat
  <1>. QED
        BY <1>1, <1>2 DEF Row, Sound, OnHand, CanReserve, Reserve, Release, Deduct, Recount
=============================================================================
