---------------------------- MODULE TurnPromise ----------------------------
(***************************************************************************)
(* What the memory layer promises about a conversation turn: it is taken   *)
(* at most once, and once its text is buffered the text is there until it  *)
(* is stored, and then stays stored.  Nothing is promised about a turn     *)
(* between taken and buffered: a crash leaves it there for ever, and so    *)
(* does a turn without meaningful text.                                    *)
(***************************************************************************)
CONSTANT Turns      (* the turns of all sessions *)

VARIABLE fate       (* fate[t]: how far turn t has come *)

Init == fate = [t \in Turns |-> "new"]

Take(t) ==
    /\ fate[t] = "new"
    /\ fate' = [fate EXCEPT ![t] = "taken"]

Buffer(t) ==
    /\ fate[t] = "taken"
    /\ fate' = [fate EXCEPT ![t] = "buffered"]

(* A flush stores the turns of one buffer together.                        *)
Store(batch) ==
    /\ \A t \in batch : fate[t] = "buffered"
    /\ fate' = [t \in Turns |-> IF t \in batch THEN "stored" ELSE fate[t]]

Next ==
    \/ \E t \in Turns : Take(t) \/ Buffer(t)
    \/ \E batch \in SUBSET Turns : Store(batch)

Spec == Init /\ [][Next]_fate
=============================================================================
