------------------------ MODULE MCPublisherConfirms ------------------------
(* Small instances of PublisherConfirms for TLC. *)
EXTENDS PublisherConfirms, TLC

\* Callers are interchangeable (safety runs only).
Symmetric == Permutations(Caller)
=============================================================================
