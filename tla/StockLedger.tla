---------------------------- MODULE StockLedger ----------------------------
(***************************************************************************)
(* What the product service promises about stock, with everything that     *)
(* makes it hard left out: no broker, no redelivery, no cache, no crash.   *)
(* Stock moves only through the conditional statements of StockRow, and a  *)
(* stock event changes stock at most once, in one atomic step.             *)
(* ProductService is shown to implement LedgerSpec: its inbox table, its   *)
(* transactions and its redeliveries are how it keeps that promise.        *)
(***************************************************************************)
EXTENDS StockRow

CONSTANT MaxStock    \* largest total_stock a product is created with

-----------------------------------------------------------------------------
VARIABLES row,        \* table products
          effects     \* effects[i]: how often event i has changed stock

ledgerVars == <<row, effects>>

LedgerInit == /\ row = [p \in Product |-> Absent]
              /\ effects = [i \in EventID |-> 0]

\* A new product.
Stocked(p) ==
    /\ ~row[p].exists
    /\ \E n \in 0 .. MaxStock : row' = [row EXCEPT ![p] = NewRow(n)]
    /\ UNCHANGED effects

\* An administrator (de)activates a product; its stock stays as it is.
Switched(p) ==
    /\ row[p].exists
    /\ \E b \in BOOLEAN : row' = [row EXCEPT ![p].active = b]
    /\ UNCHANGED effects

\* A direct call moves stock, within what the row allows.
Moved(p) ==
    /\ \E q \in Quantity :
          \/ CanReserve(row[p], q) /\ row' = [row EXCEPT ![p] = ReserveStock(@, q)]
          \/ CanRelease(row[p], q) /\ row' = [row EXCEPT ![p] = ReleaseStock(@, q)]
          \/ CanConfirm(row[p], q) /\ row' = [row EXCEPT ![p] = ConfirmStock(@, q)]
    /\ UNCHANGED effects

\* A stock event takes effect, for the first and only time.
Applied(e) ==
    /\ effects[e.id] = 0
    /\ CanApply(row[e.product], e)
    /\ row' = [row EXCEPT ![e.product] = Apply(@, e)]
    /\ effects' = [effects EXCEPT ![e.id] = 1]

LedgerNext == \/ \E p \in Product : Stocked(p) \/ Switched(p) \/ Moved(p)
              \/ \E e \in StockEvent : Applied(e)

LedgerSpec == LedgerInit /\ [][LedgerNext]_ledgerVars
=============================================================================
