--------------------------- MODULE MCDialogueRooms ---------------------------
(* TLC instances of DialogueRooms.                                         *)
EXTENDS DialogueRooms

CONSTANTS t1, t2, t3, p1, p2

Both == <<p1, p2>>

Kind(mode, rounds, requests) ==
    [mode |-> mode, rounds |-> rounds, requests |-> requests]

(* Many rounds for one request, few for two, three where nobody decides.   *)
MCRooms ==
    {Kind("round_robin", 2, {t1, t2}), Kind("round_robin", 1, {t1, t2, t3}),
     Kind("parallel_think", 3, {t1}), Kind("parallel_think", 1, {t1, t2}),
     Kind("free_talk", 4, {t1}), Kind("free_talk", 2, {t1, t2})}
=============================================================================
