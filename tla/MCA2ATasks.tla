----------------------------- MODULE MCA2ATasks -----------------------------
(* TLC instances of A2ATasks. *)
EXTENDS A2ATasks

CONSTANTS w1, w2, t1, t2
=============================================================================
