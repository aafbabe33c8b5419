------------------------- MODULE MCPaymentService -------------------------
(* Small instances of PaymentService for TLC. *)
EXTENDS PaymentService, TLC

CONSTANTS o1, o2

\* A payable order and one that costs nothing.
PaidAndFree == (o1 :> 1) @@ (o2 :> 0)
=============================================================================
