------------------------------ MODULE StepOrder ------------------------------
(***************************************************************************)
(* What every scheduler of step graphs promises: the graph stays as it is, *)
(* a step starts once at most, and only when all that it depends on has    *)
(* ended.  Which steps start together, and whether all of them ever do, is *)
(* left open.                                                              *)
(***************************************************************************)
CONSTANT Steps

VARIABLES deps,     (* deps[s]: the steps that s depends on, as listed      *)
          stage     (* stage[s]: "waiting", "open" or "over"                *)

Init == stage = [s \in Steps |-> "waiting"]

Over(s) == \A i \in DOMAIN deps[s] : deps[s][i] \in Steps /\ stage[deps[s][i]] = "over"

Move(S, from, to) ==
    /\ \A s \in S : stage[s] = from
    /\ stage' = [s \in Steps |-> IF s \in S THEN to ELSE stage[s]]

Start(S) == (\A s \in S : Over(s)) /\ Move(S, "waiting", "open")

End(S) == Move(S, "open", "over")

Next == (\E S \in SUBSET Steps : Start(S) \/ End(S)) /\ UNCHANGED deps

Spec == Init /\ [][Next]_<<deps, stage>>
=============================================================================
