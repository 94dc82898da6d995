------------------------------ MODULE StockRow ------------------------------
(***************************************************************************)
(* The arithmetic of one row of the Vendor Stock table (api/stock.py).     *)
(* Each operator is what one SQL UPDATE writes to the row it matches: the  *)
(* database evaluates it on the row's current committed value, so the      *)
(* modules that use these operators apply them in a single step.           *)
(* Quantities are integers: units of stock, the fractions that the Float   *)
(* columns allow play no part in any property.                             *)
(***************************************************************************)
EXTENDS Integers

Row == [available : Int, reserved : Int, physical : Int]

\* A row that get_or_create has just inserted: every quantity defaults to 0.
EmptyRow == [available |-> 0, reserved |-> 0, physical |-> 0]

\* A row holding n sellable units and no reservation.
OpeningRow(n) == [available |-> n, reserved |-> 0, physical |-> n]

OnHand(r) == r.available + r.reserved

\* Fault: no clamp.
DropBelowZero(n, q) == n - q

\* GREATEST(n - q, 0): the clamp of release_reservation and confirm_deduction.
Drop(n, q) == IF n >= q THEN n - q ELSE 0

\* Fault: the check is left to the caller, as with a SELECT before the UPDATE.
CanReserveUnchecked(r, q) == q > 0

\* The WHERE clause of the reserving UPDATE.
CanReserve(r, q) == r.available >= q

Reserve(r, q) ==
    [available |-> r.available - q, reserved |-> r.reserved + q, physical |-> r.physical]

\* Fault: the units go back on sale but stay reserved.
ReleaseKeepsReserved(r, q) == [r EXCEPT !.available = @ + q]

\* physical is not written: it stays right only while reserved >= q.
Release(r, q) ==
    [available |-> r.available + q, reserved |-> Drop(r.reserved, q),
     physical |-> r.physical]

Deduct(r, q) == [r EXCEPT !.reserved = Drop(@, q)]

\* The second write of confirm_deduction.
Recount(r) == [r EXCEPT !.physical = OnHand(r)]

\* The absolute write of _apply_stock_delta and reconcile_vendor_stock: the two
\* totals are computed from the row as it was read, not as it is now.
Overwrite(r, read, delta) ==
    [available |-> read.available + delta, reserved |-> r.reserved,
     physical |-> OnHand(read) + delta]

\* correct_or_flag's write: the vendor's quantity, less what was reserved when
\* the row was read.
Corrected(r, reserved, local) ==
    [available |-> local - reserved, reserved |-> r.reserved, physical |-> local]
=============================================================================
