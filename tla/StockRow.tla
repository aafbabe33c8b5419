------------------------------ MODULE StockRow ------------------------------
(***************************************************************************)
(* A row of the product service's products table and the repository's      *)
(* conditional UPDATE statements on it (product-service,                   *)
(* internal/repository/product.go).  Name, description, category, price    *)
(* and the timestamps are left out: no statement on stock reads them.      *)
(***************************************************************************)
EXTENDS Integers

CONSTANTS Product,    \* product ids
          EventID,    \* ids of stock events (a uuid chosen by the publisher)
          Quantity    \* quantities a caller may ask for, legal or not

ASSUME QuantityAssumption == Quantity \subseteq Int

Row == [exists : BOOLEAN, total : Nat, reserved : Nat, active : BOOLEAN]

\* No row with this id; in the cache, no entry under this key.
Absent == [exists |-> FALSE, total |-> 0, reserved |-> 0, active |-> FALSE]

\* INSERT INTO products: reserved_stock and is_active take their defaults.
NewRow(total) == [exists |-> TRUE, total |-> total, reserved |-> 0, active |-> TRUE]

\* Mutants: a WHERE clause that forgets what is reserved already, ...
CanReserveFromTotal(r, q) == q > 0 /\ r.exists /\ r.active /\ r.total >= q
\* ... and one without its condition on reserved_stock.
CanSettleUnreserved(r, q) == q > 0 /\ r.exists

\* The early return on the quantity and the WHERE clause of each UPDATE.
CanReserve(r, q) == q > 0 /\ r.exists /\ r.active /\ r.total - r.reserved >= q
CanRelease(r, q) == q > 0 /\ r.exists /\ r.reserved >= q
CanConfirm(r, q) == q > 0 /\ r.exists /\ r.reserved >= q

\* Mutants: a release that puts the units on top of total_stock, and a
\* confirmation that leaves total_stock as it is.
ReleaseStockRestocks(r, q)   == [r EXCEPT !.reserved = @ - q, !.total = @ + q]
ConfirmStockKeepsTotal(r, q) == [r EXCEPT !.reserved = @ - q]

\* The SET clause of each UPDATE.
ReserveStock(r, q) == [r EXCEPT !.reserved = @ + q]
ReleaseStock(r, q) == [r EXCEPT !.reserved = @ - q]
ConfirmStock(r, q) == [ReleaseStock(r, q) EXCEPT !.total = @ - q]

(***************************************************************************)
(* Stock events: which statement an event asks for.                        *)
(***************************************************************************)
Kind == {"release", "confirm"}

StockEvent == [id : EventID, kind : Kind, product : Product, quantity : Quantity]

CanApply(r, e) ==
    IF e.kind = "release" THEN CanRelease(r, e.quantity) ELSE CanConfirm(r, e.quantity)

Apply(r, e) ==
    IF e.kind = "release" THEN ReleaseStock(r, e.quantity) ELSE ConfirmStock(r, e.quantity)
=============================================================================
