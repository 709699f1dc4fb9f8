------------------------- MODULE MCMemoryWriteback -------------------------
(* TLC instances of MemoryWriteback. *)
EXTENDS MemoryWriteback, TLC

CONSTANTS w1, t1, t2, t3, b1, b2

(* Two hook turns of one session, and an assistant run in another. *)
TwoSessions == (t1 :> b1) @@ (t2 :> b1) @@ (t3 :> b2)
=============================================================================
