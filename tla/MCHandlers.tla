------------------------------ MODULE MCHandlers ------------------------------
(* A TLC instance of Handlers: two owners, a heap of two addresses and three *)
(* entries, so that two lie beside each other and an address is used again.  *)
EXTENDS Handlers
=============================================================================
