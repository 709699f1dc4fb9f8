----------------------------- MODULE MCModelPool -----------------------------
(* TLC instances of ModelPool: one endpoint under contention, or a chain   *)
(* over providers and tiers.                                               *)
EXTENDS ModelPool

CONSTANTS e1, e2, e3, r1, r2, r3

OnePool   == <<e1>>
ThreePool == <<e1, e2, e3>>

(* e1 and e2 are tiers of one provider, e3 is another provider's.          *)
MCProvider == [e \in Endpoints |-> IF e = e3 THEN "b" ELSE "a"]
MCTier     == [e \in Endpoints |-> IF e = e2 THEN 1 ELSE 2]
=============================================================================
