--------------------------- MODULE MCCircuitBreaker ---------------------------
(* Instances of CircuitBreaker for TLC; the cfg files choose the sizes. *)
EXTENDS CircuitBreaker, TLC
=============================================================================
