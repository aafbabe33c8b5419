------------------------- MODULE MCProductService -------------------------
(* Small instances of ProductService for TLC. *)
EXTENDS ProductService, TLC

\* A negative quantity, which every stock operation has to refuse, the last
\* unit, and more than there is.
LegalAndIllegal == {-1, 1, 2}

\* Replicas, and callers, are interchangeable (safety runs only).
Symmetric == Permutations(Replica) \cup Permutations(Caller)
=============================================================================
