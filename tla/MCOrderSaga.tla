---------------------------- MODULE MCOrderSaga ----------------------------
(* Small instances of OrderSaga for TLC. *)
EXTENDS OrderSaga, TLC

CONSTANTS p1, p2

One(p)  == [product |-> p, quantity |-> 1]

\* One item, two items, and a product named twice, which the unique
\* constraint on order_items refuses.
MCCarts == {<<One(p1)>>, <<One(p1), One(p2)>>, <<One(p1), One(p1)>>}

\* Two orders for p1 succeed, for p2 only one does: the other one has to
\* compensate p1.
MCStock == (p1 :> 2) @@ (p2 :> 1)

Symmetric == Permutations(Order)
=============================================================================
