-------------------------------- MODULE MCMoA --------------------------------
(* TLC instances of MoA.                                                   *)
EXTENDS MoA

CONSTANTS m1, m2
=============================================================================
