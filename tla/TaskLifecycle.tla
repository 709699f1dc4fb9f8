--------------------------- MODULE TaskLifecycle ---------------------------
(***************************************************************************)
(* What the A2A server promises about its tasks: each is created once and  *)
(* then moves along VALID_TRANSITIONS, so a task that has completed,       *)
(* failed or been cancelled stays so.                                      *)
(***************************************************************************)
CONSTANT Tasks      (* the task ids *)

VARIABLE state      (* state[t]: "absent" until t is created *)

VALID_TRANSITIONS ==
    [submitted |-> {"working", "failed", "cancelled"},
     working   |-> {"completed", "failed", "cancelled"},
     completed |-> {}, failed |-> {}, cancelled |-> {}]

TaskState == DOMAIN VALID_TRANSITIONS

TERMINAL_STATES == {s \in TaskState : VALID_TRANSITIONS[s] = {}}

Init == state = [t \in Tasks |-> "absent"]

Create(t) ==
    /\ state[t] = "absent"
    /\ state' = [state EXCEPT ![t] = "submitted"]

Move(t) ==
    /\ state[t] # "absent"
    /\ \E s \in VALID_TRANSITIONS[state[t]] : state' = [state EXCEPT ![t] = s]

Next == \E t \in Tasks : Create(t) \/ Move(t)

Spec == Init /\ [][Next]_state
=============================================================================
