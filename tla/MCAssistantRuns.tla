--------------------------- MODULE MCAssistantRuns ---------------------------
(* TLC instances of AssistantRuns.                                         *)
EXTENDS AssistantRuns

CONSTANTS r1, r2, w1
=============================================================================
