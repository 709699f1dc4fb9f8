----------------------------- MODULE MCStepGraphs -----------------------------
(* TLC instances of StepGraphs.                                            *)
EXTENDS StepGraphs

CONSTANTS s1, s2, s3, s4, other

(* No dependency, one, two, or three, one that no step is, and one twice.  *)
Lists ==
    {<<>>, <<other>>, <<s1, s1>>, <<s1, s2>>, <<s2, s3>>, <<s1, s2, s3>>}
    \cup {<<d>> : d \in Steps}

Executors == [s \in Steps |-> CASE s = s1 -> "moa" [] s = s2 -> "multimodal" [] OTHER -> "other"]
===============================================================================
