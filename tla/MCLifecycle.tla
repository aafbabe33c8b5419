----------------------------- MODULE MCLifecycle -----------------------------
(* The services that exchange events.                                        *)
EXTENDS Lifecycle
=============================================================================
