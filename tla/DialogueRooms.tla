---------------------------- MODULE DialogueRooms ----------------------------
(***************************************************************************)
(* moa_gateway/dialogue: one room, in one gateway process.  A message of a *)
(* user triggers a turn, in which the participants (models of the pool)    *)
(* speak one after the other, all at once, or as their host decides.  The  *)
(* room's turns wait for a lock, first come first served.                  *)
(*                                                                         *)
(* Every message is stored when it is complete.  Storing may fail, which   *)
(* ends the turn; a request may be cancelled, and the room deleted, at any *)
(* time.  Left out: prompts and texts (no reply is blank), the number of   *)
(* the turn, the events for subscribers, and whether an endpoint is the    *)
(* mock provider.                                                          *)
(***************************************************************************)
EXTENDS Naturals, Sequences, FiniteSets

CONSTANTS Requests,          (* the users' messages                         *)
          Order,             (* the names of the participants; the first    *)
                             (* one's endpoint is the host's                *)
          Rooms,             (* mode, max_rounds and requests of a room     *)
          HistoryLimit,      (* CONTEXT_HISTORY_LIMIT                       *)
          NoProgressLimit,   (* NO_PROGRESS_LIMIT                           *)
          SameSpeakerLimit,  (* SAME_SPEAKER_LIMIT                          *)
          MaxFaults          (* bound on failures of the storage            *)

Names == {Order[i] : i \in DOMAIN Order}

Modes == {"round_robin", "parallel_think", "free_talk"}

(* Messages have a role next to the speaker's name, and a host names a     *)
(* participant before it names the end: the model gives all of them names. *)
ASSUME DialogueAssumption ==
    /\ Order \in Seq(Names) /\ Order # <<>>
    /\ \A i, j \in DOMAIN Order : Order[i] = Order[j] => i = j
    /\ Names \cap {"user", "moderator", "nobody", "END", "unclear", "failure"} = {}
    /\ Rooms \subseteq [mode : Modes, rounds : Nat \ {0}, requests : SUBSET Requests]
    /\ {HistoryLimit, NoProgressLimit, SameSpeakerLimit} \subseteq Nat \ {0}
    /\ MaxFaults \in Nat

VARIABLES room,      (* the kind of room                                    *)
          exists,    (* whether it is stored                                *)
          log,       (* the stored messages of the room                     *)
          queue,     (* who has, and who waits for, the room's lock         *)
          turn,      (* turn[t]: the turn of request t                      *)
          faults     (* number of failures of the storage                   *)

vars == <<room, exists, log, queue, turn, faults>>

Message(t, step, speaker, ok) ==
    [turn |-> t, step |-> step, speaker |-> speaker, ok |-> ok]

Speakers == Names \cup {"user", "moderator"}

Messages == [turn : Requests, step : Nat, speaker : Speakers, ok : BOOLEAN]

Over == {"ended", "broken"}

(* step counts the rounds of the turn; history is what contexts are built  *)
(* from (without the failures in it); calls are the participants whose     *)
(* answer is awaited, back the answers to a round of thoughts.  idle is    *)
(* no_progress, streak same_speaker_streak, last last_speaker.             *)
Turn == [state : {"idle", "waiting", "calling", "deciding"} \cup Over,
         step : Nat, history : SUBSET Messages,
         calls : SUBSET Names, back : SUBSET Messages,
         idle : Nat, streak : Nat, last : Names \cup {"nobody"}]

Idle == [state |-> "idle", step |-> 0, history |-> {}, calls |-> {},
         back |-> {}, idle |-> 0, streak |-> 0, last |-> "nobody"]

TypeOK ==
    /\ room \in Rooms
    /\ exists \in BOOLEAN
    /\ log \in Seq(Messages)
    /\ queue \in Seq(Requests)
    /\ turn \in [Requests -> Turn]
    /\ faults \in 0 .. MaxFaults
    /\ \A t \in Requests :
          /\ turn[t].step <= room.rounds
          /\ turn[t].state \in {"waiting", "calling", "deciding"} <=>
                \E i \in DOMAIN queue : queue[i] = t
          /\ turn[t].state = "calling" => turn[t].calls # {}

(***************************************************************************)
(* How a turn goes on.                                                     *)
(***************************************************************************)
End(r) == [Idle EXCEPT !.state = "ended"]

(* An exception ends the turn, but not the calls that nobody cancels.      *)
Break(r, calls) ==
    [Idle EXCEPT !.state = "broken", !.step = r.step, !.calls = calls]

(* The first calls of the next round, until max_rounds.                    *)
NextRound(r) ==
    LET s == [r EXCEPT !.step = @ + 1]
    IN  IF r.step = room.rounds THEN End(r)
        ELSE CASE room.mode = "round_robin"    -> [s EXCEPT !.calls = {Order[1]}]
               [] room.mode = "parallel_think" -> [s EXCEPT !.calls = Names]
               [] room.mode = "free_talk"      -> [s EXCEPT !.state = "deciding"]

Heard(ms) == {m \in ms : m.ok}

AfterSpeaker(r, m) ==
    LET i == CHOOSE i \in DOMAIN Order : Order[i] = m.speaker
        s == [r EXCEPT !.history = @ \cup Heard({m})]
    IN  IF i = Len(Order) THEN NextRound(s) ELSE [s EXCEPT !.calls = {Order[i + 1]}]

AfterThought_AtOnce(r, m) ==
    LET s == [r EXCEPT !.calls = @ \ {m.speaker}, !.history = @ \cup Heard({m})]
    IN  IF s.calls = {} THEN NextRound(s) ELSE s

AfterThought(r, m) ==
    LET s == [r EXCEPT !.calls = @ \ {m.speaker}, !.back = @ \cup {m}]
    IN  IF s.calls # {} THEN s
        ELSE NextRound([s EXCEPT !.history = @ \cup Heard(s.back), !.back = {}])

(* A free talk converges when nothing comes of it.                         *)
Converge_OnSpeaker(r) ==
    IF r.streak >= SameSpeakerLimit THEN End(r) ELSE NextRound(r)

Converge(r) ==
    IF r.idle >= NoProgressLimit \/ r.streak >= SameSpeakerLimit
    THEN End(r) ELSE NextRound(r)

AfterTalk(r, m) ==
    Converge([r EXCEPT !.calls = {}, !.history = @ \cup {m},
                       !.idle = IF m.ok THEN 0 ELSE @ + 1,
                       !.streak = IF r.last = m.speaker THEN @ + 1 ELSE 1,
                       !.last = m.speaker])

After(r, m) ==
    CASE room.mode = "round_robin"    -> AfterSpeaker(r, m)
      [] room.mode = "parallel_think" -> AfterThought(r, m)
      [] room.mode = "free_talk"      -> AfterTalk(r, m)

(***************************************************************************)
(* Turns begin.  The lock is left by a turn that is over, wherever it is   *)
(* in the queue; the calls that a broken turn has left behind have none.   *)
(***************************************************************************)
Leave(q, t) ==
    LET i == CHOOSE i \in DOMAIN q : q[i] = t
    IN  SubSeq(q, 1, i - 1) \o SubSeq(q, i + 1, Len(q))

Put_KeepsLock(t, r, q) ==
    /\ turn' = [turn EXCEPT ![t] = r]
    /\ queue' = IF r.state = "ended" THEN Leave(q, t) ELSE q

Put(t, r, q) ==
    /\ turn' = [turn EXCEPT ![t] = r]
    /\ queue' = IF r.state \in Over /\ turn[t].state \notin Over THEN Leave(q, t) ELSE q

(* list_messages is ascending: its limit keeps the oldest.                 *)
Oldest_Shifted(messages) == {messages[i] : i \in {j \in DOMAIN messages : j < HistoryLimit}}

Oldest(messages) == {messages[i] : i \in {j \in DOMAIN messages : j <= HistoryLimit}}

(* The round number and the user's message are stored, which may fail;     *)
(* then the context is read.  Messages are stored of deleted rooms, too.   *)
Begin(t, q) ==
    \/ LET said == Append(log, Message(t, 0, "user", TRUE))
       IN  /\ log' = said
           /\ Put(t, NextRound([Idle EXCEPT !.state = "calling",
                                            !.history = Oldest(said)]), q)
           /\ UNCHANGED faults
    \/ /\ faults < MaxFaults
       /\ faults' = faults + 1
       /\ Put(t, Break(turn[t], {}), q)
       /\ UNCHANGED log

(* Between the reading of the room and the lock nothing waits.             *)
Post(t) ==
    /\ turn[t].state = "idle" /\ exists /\ t \in room.requests
    /\ IF queue = <<>>
       THEN Begin(t, <<t>>)
       ELSE /\ Put(t, [Idle EXCEPT !.state = "waiting"], Append(queue, t))
            /\ UNCHANGED <<log, faults>>
    /\ UNCHANGED <<room, exists>>

Enter_Anyone(t) ==
    /\ turn[t].state = "waiting"
    /\ Begin(t, queue)
    /\ UNCHANGED <<room, exists>>

(* The turn before is over, and the first waiter is woken.                 *)
Enter(t) ==
    /\ turn[t].state = "waiting" /\ Head(queue) = t
    /\ Begin(t, queue)
    /\ UNCHANGED <<room, exists>>

(***************************************************************************)
(* Calls return.                                                           *)
(***************************************************************************)
(* The answer, or the evidence of a failure or timeout, of a participant.  *)
(* Calls that a broken gather has left behind store theirs all the same.   *)
Reply(t, p, ok) ==
    /\ p \in turn[t].calls
    /\ LET m == Message(t, turn[t].step, p, ok)
       IN  /\ log' = Append(log, m)
           /\ IF turn[t].state = "broken"
              THEN Put(t, [turn[t] EXCEPT !.calls = @ \ {p}], queue)
              ELSE Put(t, After(turn[t], m), queue)
    /\ UNCHANGED <<room, exists, faults>>

(* The host names a participant or the end, or nothing useful.  (That its  *)
(* call failed is stored under its name as a participant.)                 *)
Decide(t, d) ==
    /\ turn[t].state = "deciding"
    /\ LET r == turn[t]
           m == Message(t, r.step, "moderator", d # "failure")
       IN  /\ log' = Append(log, m)
           /\ Put(t, CASE d \in Names -> [r EXCEPT !.state = "calling", !.calls = {d}]
                       [] d = "END"   -> End(r)
                       [] OTHER       -> Converge([r EXCEPT !.history = @ \cup {m},
                                                            !.idle = @ + 1]),
                  queue)
    /\ UNCHANGED <<room, exists, faults>>

(* A message cannot be stored: an exception that only the route handles.   *)
(* The gather of parallel_think does not wait for its other calls then.    *)
Unstored(t, p) ==
    /\ \/ p \in turn[t].calls
       \/ turn[t].state = "deciding" /\ p = Order[1]
    /\ faults < MaxFaults
    /\ faults' = faults + 1
    /\ Put(t, Break(turn[t], turn[t].calls \ {p}), queue)
    /\ UNCHANGED <<room, exists, log>>

(* The request is cancelled, and with it the calls it awaits.              *)
Cancel(t) ==
    /\ turn[t].state \in {"waiting", "calling", "deciding"}
    /\ Put(t, Break(turn[t], {}), queue)
    /\ UNCHANGED <<room, exists, log, faults>>

(* The room and its messages, in one transaction.                          *)
Delete ==
    /\ exists
    /\ exists' = FALSE
    /\ log' = <<>>
    /\ UNCHANGED <<room, queue, turn, faults>>

Init ==
    /\ room \in Rooms
    /\ exists = TRUE
    /\ log = <<>> /\ queue = <<>>
    /\ turn = [t \in Requests |-> Idle]
    /\ faults = 0

Returns(t) ==
    \/ \E p \in Names, ok \in BOOLEAN : Reply(t, p, ok)
    \/ \E d \in Names \cup {"END", "unclear", "failure"} : Decide(t, d)

Next ==
    \/ Delete
    \/ \E t \in Requests : \/ Post(t) \/ Enter(t) \/ Returns(t) \/ Cancel(t)
                           \/ \E p \in Names : Unstored(t, p)

Spec == Init /\ [][Next]_vars

(* A lock that is free wakes its first waiter, and calls end, by their     *)
(* participant_timeout at the latest.                                      *)
FairSpec == Spec /\ \A t \in Requests : WF_vars(Enter(t)) /\ WF_vars(Returns(t))

(***************************************************************************)
(* Properties.                                                             *)
(***************************************************************************)
Running(t) == turn[t].state \in {"calling", "deciding"}

Stored == {log[i] : i \in DOMAIN log}

(* The turns of a room are serialised ("同一房间的并发 turn 串行化"): the  *)
(* messages of two turns do not mix, but for the calls that a turn has     *)
(* left behind when a message could not be stored.                         *)
TurnsDoNotMix ==
    \A i, j, k \in DOMAIN log :
        i < j /\ j < k /\ log[i].turn = log[k].turn /\ log[j].turn # log[i].turn =>
            /\ room.mode = "parallel_think" /\ faults > 0
            /\ \E t \in {log[i].turn, log[j].turn} : turn[t].state = "broken"

(* Who speaks in turns, or is called upon, has heard all that was said in  *)
(* the turn before; who thinks in parallel has heard all of the rounds     *)
(* before and nothing of this one.                                         *)
Said(t) == {m \in Stored : m.turn = t /\ m.step > 0 /\ m.ok /\ m.speaker \in Names}

PeersAreHeard ==
    \A t \in Requests : Running(t) =>
        IF room.mode = "parallel_think"
        THEN /\ {m \in Said(t) : m.step < turn[t].step} \subseteq turn[t].history
             /\ \A m \in turn[t].history : m.turn = t => m.step < turn[t].step
        ELSE Said(t) \subseteq turn[t].history

(* The context of every call is the whole shared history of the room       *)
(* (engine.py:5), as long as all messages of the room are within the limit *)
(* and nothing is stored behind the turn's back: what was said in the      *)
(* turns before, and the message that is to be answered.                   *)
Whole(t) == {m \in Stored : m.ok /\ (m.turn # t \/ m.step = 0)} \subseteq turn[t].history

ShortContextIsWhole ==
    exists /\ Len(log) <= HistoryLimit /\ faults = 0 =>
        \A t \in Requests : Running(t) => Whole(t)

(* In longer rooms, at least the message that is to be answered.           *)
QuestionIsHeard ==
    \A t \in Requests : Running(t) =>
        \E m \in turn[t].history : m.turn = t /\ m.speaker = "user"

(* A free talk does not go on when one participant was called upon         *)
(* SameSpeakerLimit times in a row (engine.py:303), ...                    *)
Spoken(t) == {m \in turn[t].history : m.turn = t /\ m.speaker \in Names /\ m.step > 0}

NoMonologue ==
    \A t \in Requests : Running(t) /\ room.mode = "free_talk" =>
        LET recent == {m \in Spoken(t) :
                          Cardinality({n \in Spoken(t) : n.step > m.step}) < SameSpeakerLimit}
        IN  \/ Cardinality(recent) < SameSpeakerLimit
            \/ \E m, n \in recent : m.speaker # n.speaker

(* ... nor when NoProgressLimit rounds in a row had no answer.             *)
NoIdling ==
    \A t \in Requests : Running(t) /\ room.mode = "free_talk" =>
        \A k \in 0 .. room.rounds :
            k + NoProgressLimit < turn[t].step =>
                \E m \in Spoken(t) : m.ok /\ m.step \in k + 1 .. k + NoProgressLimit

(* A free talk converges: in each of its two ways, whatever the host says. *)
FreeTalkConverges == NoMonologue /\ NoIdling

(* Every message of a user has its turn, and every turn an end.            *)
TurnsEnd ==
    \A t \in Requests : turn[t].state = "waiting" \/ Running(t) ~> turn[t].state \in Over
=============================================================================
