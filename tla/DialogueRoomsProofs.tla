------------------------- MODULE DialogueRoomsProofs -------------------------
(***************************************************************************)
(* Theorems about the dialogue rooms, for every number of requests and     *)
(* participants and every value of the limits.  Each step moves the turn   *)
(* of one request (Stirs), in one of five ways, or deletes the room: the   *)
(* parts of the inductive invariant are preserved by each of the ways.     *)
(***************************************************************************)
EXTENDS DialogueRooms, SequenceTheorems, FiniteSetTheorems, TLAPS

-----------------------------------------------------------------------------
(* Queues.                                                                 *)
Waits(q, t) == \E i \in 1 .. Len(q) : q[i] = t

Distinct(q) == \A i, j \in 1 .. Len(q) : q[i] = q[j] => i = j

(* Who leaves a queue leaves the others in it, in their order.             *)
LEMMA LeaveQueue ==
  ASSUME NEW S, NEW q \in Seq(S), NEW t, Distinct(q), Waits(q, t)
  PROVE  /\ Leave(q, t) \in Seq(S) /\ Distinct(Leave(q, t))
         /\ \A x : Waits(Leave(q, t), x) <=> Waits(q, x) /\ x # t
         /\ q[1] # t => Leave(q, t) # <<>> /\ Leave(q, t)[1] = q[1]
<1> DEFINE i == CHOOSE i \in DOMAIN q : q[i] = t
           n == Len(q)
           a == SubSeq(q, 1, i - 1)
           b == SubSeq(q, i + 1, n)
<1>1. n \in Nat /\ DOMAIN q = 1 .. n /\ \A j \in 1 .. n : q[j] \in S
  OBVIOUS
<1>2. i \in 1 .. n /\ q[i] = t
  BY <1>1 DEF Waits
<1>3. Leave(q, t) = a \o b
  BY DEF Leave
<1>0. \A j, k \in 1 .. n : q[j] = q[k] => j = k
  BY DEF Distinct
<1> HIDE DEF i, n
<1>4. /\ a \in Seq(S) /\ Len(a) = i - 1
      /\ \A j \in 1 .. i - 1 : a[j] = q[j]
  <2>1. i - 1 \in Int /\ \A j \in 1 .. i - 1 : q[j] \in S
    BY <1>1, <1>2
  <2>2. /\ a \in Seq(S) /\ Len(a) = IF 1 <= i - 1 THEN (i - 1) - 1 + 1 ELSE 0
        /\ \A j \in 1 .. (i - 1) - 1 + 1 : a[j] = q[1 + j - 1]
    BY <2>1, SubSeqProperties
  <2> HIDE DEF a
  <2>3. \A j \in 1 .. i - 1 : 1 + j - 1 = j
    OBVIOUS
  <2> QED BY <1>1, <1>2, <2>2, <2>3
<1>5. /\ b \in Seq(S) /\ Len(b) = n - i
      /\ \A j \in 1 .. n - i : b[j] = q[i + j]
  <2>1. i + 1 \in Int /\ n \in Int /\ \A j \in i + 1 .. n : q[j] \in S
    BY <1>1, <1>2
  <2>2. /\ b \in Seq(S) /\ Len(b) = IF i + 1 <= n THEN n - (i + 1) + 1 ELSE 0
        /\ \A j \in 1 .. n - (i + 1) + 1 : b[j] = q[i + 1 + j - 1]
    BY <2>1, SubSeqProperties
  <2> HIDE DEF b
  <2>3. \A j \in 1 .. n - i : i + 1 + j - 1 = i + j
    BY <1>1, <1>2
  <2> QED BY <1>1, <1>2, <2>2, <2>3
<1> HIDE DEF a, b
<1> DEFINE c == a \o b
<1>6. /\ c \in Seq(S) /\ Len(c) = n - 1
      /\ \A j \in 1 .. n - 1 : c[j] = IF j < i THEN q[j] ELSE q[j + 1]
  <2>1. /\ c \in Seq(S) /\ Len(c) = Len(a) + Len(b)
        /\ \A j \in 1 .. Len(a) + Len(b) :
              c[j] = IF j <= Len(a) THEN a[j] ELSE b[j - Len(a)]
    BY <1>4, <1>5, ConcatProperties
  <2> HIDE DEF c
  <2>2. ASSUME NEW j \in 1 .. n - 1
        PROVE  c[j] = IF j < i THEN q[j] ELSE q[j + 1]
    <3>1. CASE j < i
      <4>1. j \in 1 .. i - 1 /\ j <= Len(a) /\ j \in 1 .. Len(a) + Len(b)
        BY <1>1, <1>2, <1>4, <1>5, <3>1
      <4> QED BY <1>4, <2>1, <3>1, <4>1
    <3>2. CASE ~ (j < i)
      <4>1. j - (i - 1) \in 1 .. n - i /\ ~ (j <= Len(a)) /\ j \in 1 .. Len(a) + Len(b)
        BY <1>1, <1>2, <1>4, <1>5, <3>2
      <4>2. c[j] = b[j - (i - 1)]
        BY <1>4, <2>1, <4>1
      <4>3. i + (j - (i - 1)) = j + 1
        BY <1>1, <1>2
      <4> QED BY <1>5, <3>2, <4>1, <4>2, <4>3
    <3> QED BY <3>1, <3>2
  <2> QED BY <1>1, <1>2, <1>4, <1>5, <2>1, <2>2
<1> HIDE DEF c
<1>7. ASSUME NEW x, x # t, Waits(q, x)
      PROVE  Waits(c, x)
  <2>1. PICK j \in 1 .. n : q[j] = x
    BY <1>7 DEF Waits, n
  <2>2. CASE j < i
    <3>1. j \in 1 .. n - 1 /\ c[j] = x
      BY <1>1, <1>2, <1>6, <2>1, <2>2
    <3> QED BY <1>6, <3>1 DEF Waits
  <2>3. CASE ~ (j < i)
    <3>1. j # i
      BY <1>2, <1>7, <2>1
    <3>2. j - 1 \in 1 .. n - 1 /\ ~ (j - 1 < i) /\ j - 1 + 1 = j
      BY <1>1, <1>2, <2>1, <2>3, <3>1
    <3>3. c[j - 1] = x
      BY <1>6, <2>1, <3>2
    <3> QED BY <1>6, <3>2, <3>3 DEF Waits
  <2> QED BY <2>2, <2>3
<1>8. ASSUME NEW j \in 1 .. n - 1
      PROVE  \E k \in 1 .. n : /\ c[j] = q[k] /\ k # i
                              /\ k = IF j < i THEN j ELSE j + 1
  <2>1. CASE j < i
    BY <1>1, <1>2, <1>6, <1>8, <2>1
  <2>2. CASE ~ (j < i)
    <3>1. j + 1 \in 1 .. n /\ j + 1 # i
      BY <1>1, <1>2, <2>2
    <3> QED BY <1>6, <2>2, <3>1
  <2> QED BY <2>1, <2>2
<1>9. ASSUME NEW x, Waits(c, x)
      PROVE  Waits(q, x) /\ x # t
  <2>1. PICK j \in 1 .. n - 1 : c[j] = x
    BY <1>6, <1>9 DEF Waits
  <2>2. PICK k \in 1 .. n : q[k] = x /\ k # i
    BY <1>8, <2>1
  <2> QED BY <1>0, <1>2, <2>2 DEF Waits, n
<1>10. Distinct(c)
  <2>1. ASSUME NEW j \in 1 .. n - 1, NEW k \in 1 .. n - 1, c[j] = c[k]
        PROVE  j = k
    <3>1. (IF j < i THEN j ELSE j + 1) = (IF k < i THEN k ELSE k + 1)
      BY <1>0, <1>8, <2>1
    <3> QED BY <1>1, <1>2, <3>1
  <2> QED BY <1>6, <2>1 DEF Distinct
<1>11. q[1] # t => c # <<>> /\ c[1] = q[1]
  <2>1. ASSUME q[1] # t
        PROVE  c # <<>> /\ c[1] = q[1]
    <3>1. i # 1
      BY <1>2, <2>1
    <3>2. 1 \in 1 .. n - 1 /\ 1 < i
      BY <1>1, <1>2, <3>1
    <3> QED BY <1>6, <3>2, EmptySeq
  <2> QED BY <2>1
<1> QED BY <1>3, <1>6, <1>7, <1>9, <1>10, <1>11 DEF c

(* Who joins a queue stands behind the others.                             *)
LEMMA JoinQueue ==
  ASSUME NEW S, NEW q \in Seq(S), NEW t \in S, Distinct(q), ~ Waits(q, t)
  PROVE  /\ Append(q, t) \in Seq(S) /\ Distinct(Append(q, t))
         /\ \A x : Waits(Append(q, t), x) <=> Waits(q, x) \/ x = t
         /\ q # <<>> => Append(q, t) # <<>> /\ Append(q, t)[1] = q[1]
<1> DEFINE c == Append(q, t)
<1>1. /\ c \in Seq(S) /\ c # <<>> /\ Len(c) = Len(q) + 1 /\ c[Len(q) + 1] = t
      /\ \A i \in 1 .. Len(q) : c[i] = q[i]
  BY AppendProperties
<1> HIDE DEF c
<1>2. Len(q) \in Nat /\ (q # <<>> => 1 \in 1 .. Len(q))
  BY EmptySeq
<1>3. \A i \in 1 .. Len(c) : i = Len(q) + 1 \/ i \in 1 .. Len(q)
  BY <1>1, <1>2
<1>4. ASSUME NEW x
      PROVE  Waits(c, x) <=> Waits(q, x) \/ x = t
  BY <1>1, <1>2, <1>3 DEF Waits
<1>5. Distinct(c)
  <2>1. ASSUME NEW i \in 1 .. Len(c), NEW j \in 1 .. Len(c), c[i] = c[j]
        PROVE  i = j
    BY <1>1, <1>2, <1>3, <2>1 DEF Distinct, Waits
  <2> QED BY <2>1 DEF Distinct
<1> QED BY <1>1, <1>2, <1>4, <1>5 DEF c
-----------------------------------------------------------------------------
(* The inductive invariant.                                                *)
Parallel == room.mode = "parallel_think"

Active(r) == r.state \in {"waiting", "calling", "deciding"}

Runs(r) == r.state \in {"calling", "deciding"}

Fresh(r) == r.state \in {"idle", "waiting"}

(* A turn that calls has calls, one but for parallel thoughts.             *)
TurnShape(r) ==
    /\ r.step <= room.rounds
    /\ r.state = "calling" => r.calls # {}
    /\ r.state \in {"idle", "waiting", "deciding", "ended"} => r.calls = {}
    /\ Runs(r) => r.step > 0
    /\ r.state = "deciding" => room.mode = "free_talk"
    /\ Parallel \/ \A p, o \in r.calls : p = o

(* The turns that may have left calls behind.                              *)
Behind == {t \in Requests : Parallel /\ faults > 0 /\ turn[t].state = "broken"}

Shapes ==
    /\ room \in Rooms /\ exists \in BOOLEAN /\ faults \in 0 .. MaxFaults
    /\ log \in Seq(Messages)
    /\ turn \in [Requests -> Turn]
    /\ \A t \in Requests :
          /\ TurnShape(turn[t])
          /\ turn[t].state = "broken" /\ turn[t].calls # {} => t \in Behind

(* Who runs is the first in the queue: one turn at a time.                 *)
Queued(q, turns) ==
    /\ q \in Seq(Requests) /\ Distinct(q)
    /\ \A t \in Requests : Active(turns[t]) <=> Waits(q, t)
    /\ \A t \in Requests : Runs(turns[t]) => q # <<>> /\ q[1] = t

Queues == Queued(queue, turn)
-----------------------------------------------------------------------------
(* How a turn goes on.                                                     *)

(* n is the turn r in its next round, or over.                             *)
GoesOn(r, n) ==
    /\ n \in Turn /\ TurnShape(n)
    /\ \/ n.state = "ended"
       \/ /\ Runs(n) /\ n.step = r.step + 1
          /\ n.history = r.history /\ n.back = r.back
          /\ n.idle = r.idle /\ n.streak = r.streak /\ n.last = r.last

(* What a turn is when its round is through.                               *)
Through(r) ==
    /\ r \in Turn /\ r.step <= room.rounds
    /\ r.state = "calling" \/ (r.state = "deciding" /\ room.mode = "free_talk")
    /\ room.mode = "free_talk" => r.calls = {}

LEMMA TurnFields ==
  ASSUME NEW r \in Turn
  PROVE  /\ r.step \in Nat /\ r.idle \in Nat /\ r.streak \in Nat
         /\ r.calls \in SUBSET Names /\ r.history \in SUBSET Messages
         /\ r.back \in SUBSET Messages
BY DEF Turn

LEMMA RoomFields ==
  ASSUME room \in Rooms
  PROVE  room.rounds \in Nat \ {0} /\ room.mode \in Modes /\ room.requests \subseteq Requests
BY DialogueAssumption

LEMMA OrderNames ==
  /\ \A i \in DOMAIN Order : Order[i] \in Names
  /\ DOMAIN Order = 1 .. Len(Order) /\ Len(Order) \in Nat /\ 1 \in DOMAIN Order
  /\ Names # {}
<1>1. Order \in Seq(Names) /\ Order # <<>>
  BY DialogueAssumption
<1>2. DOMAIN Order = 1 .. Len(Order) /\ Len(Order) \in Nat
  BY <1>1
<1>3. Len(Order) # 0
  BY <1>1, EmptySeq
<1> QED BY <1>2, <1>3 DEF Names

LEMMA Ends ==
  ASSUME NEW r, room \in Rooms
  PROVE  GoesOn(r, End(r)) /\ End(r).state = "ended" /\ End(r).calls = {}
<1> DEFINE n == End(r)
<1>1. /\ n.state = "ended" /\ n.step = 0 /\ n.calls = {} /\ n \in Turn
  BY DEF End, Idle, Turn, Over
<1> HIDE DEF n
<1>2. TurnShape(n)
  BY <1>1, RoomFields DEF TurnShape, Runs
<1> QED BY <1>1, <1>2 DEF GoesOn, n

LEMMA RoundGoesOn ==
  ASSUME NEW r, room \in Rooms, Through(r)
  PROVE  GoesOn(r, NextRound(r))
<1> DEFINE s == [r EXCEPT !.step = @ + 1]
           N == NextRound(r)
<1>0. /\ r \in Turn /\ r.step <= room.rounds
      /\ r.state = "calling" \/ (r.state = "deciding" /\ room.mode = "free_talk")
      /\ room.mode = "free_talk" => r.calls = {}
  BY DEF Through
<1>1. /\ s.state = r.state /\ s.step = r.step + 1 /\ s.history = r.history
      /\ s.back = r.back /\ s.idle = r.idle /\ s.streak = r.streak
      /\ s.last = r.last /\ s.calls = r.calls /\ s \in Turn
  BY <1>0 DEF Turn
<1>2. room.rounds \in Nat \ {0} /\ room.mode \in Modes /\ r.step \in Nat
  BY <1>0, RoomFields, TurnFields
<1>3. N = IF r.step = room.rounds THEN End(r)
          ELSE CASE room.mode = "round_robin"    -> [s EXCEPT !.calls = {Order[1]}]
                 [] room.mode = "parallel_think" -> [s EXCEPT !.calls = Names]
                 [] room.mode = "free_talk"      -> [s EXCEPT !.state = "deciding"]
  BY DEF NextRound
<1> HIDE DEF s, N
<1>4. CASE r.step = room.rounds
  <2>1. N = End(r)
    BY <1>3, <1>4
  <2> QED BY <2>1, Ends DEF N
<1>5. CASE r.step # room.rounds
  <2>0. r.step + 1 <= room.rounds
    BY <1>0, <1>2, <1>5
  <2>1. CASE room.mode = "round_robin"
    <3>1. N = [s EXCEPT !.calls = {Order[1]}]
      BY <1>3, <1>5, <2>1
    <3>2. {Order[1]} \in SUBSET Names
      BY OrderNames
    <3>3. /\ N \in Turn /\ N.state = r.state /\ N.calls = {Order[1]}
          /\ N.step = r.step + 1 /\ N.history = r.history /\ N.back = r.back
          /\ N.idle = r.idle /\ N.streak = r.streak /\ N.last = r.last
      BY <1>1, <3>1, <3>2 DEF Turn
    <3>4. r.state = "calling"
      BY <1>0, <2>1
    <3>5. TurnShape(N)
      BY <1>2, <2>0, <3>3, <3>4 DEF TurnShape, Runs
    <3> QED BY <3>3, <3>4, <3>5 DEF GoesOn, Runs, N
  <2>2. CASE room.mode = "parallel_think"
    <3>1. N = [s EXCEPT !.calls = Names]
      BY <1>3, <1>5, <2>2
    <3>3. /\ N \in Turn /\ N.state = r.state /\ N.calls = Names
          /\ N.step = r.step + 1 /\ N.history = r.history /\ N.back = r.back
          /\ N.idle = r.idle /\ N.streak = r.streak /\ N.last = r.last
      BY <1>1, <3>1 DEF Turn
    <3>4. r.state = "calling"
      BY <1>0, <2>2
    <3>5. TurnShape(N)
      BY <1>2, <2>0, <2>2, <3>3, <3>4, OrderNames DEF TurnShape, Runs, Parallel
    <3> QED BY <3>3, <3>4, <3>5 DEF GoesOn, Runs, N
  <2>3. CASE room.mode = "free_talk"
    <3>1. N = [s EXCEPT !.state = "deciding"]
      BY <1>3, <1>5, <2>3
    <3>3. /\ N \in Turn /\ N.state = "deciding" /\ N.calls = r.calls
          /\ N.step = r.step + 1 /\ N.history = r.history /\ N.back = r.back
          /\ N.idle = r.idle /\ N.streak = r.streak /\ N.last = r.last
      BY <1>1, <3>1 DEF Turn
    <3>5. TurnShape(N)
      BY <1>0, <1>2, <2>0, <2>3, <3>3 DEF TurnShape, Runs
    <3> QED BY <3>3, <3>5 DEF GoesOn, Runs, N
  <2> QED BY <1>2, <2>1, <2>2, <2>3 DEF Modes
<1> QED BY <1>4, <1>5

(* A talk that goes on has had neither of its two ends.                    *)
LEMMA TalkGoesOn ==
  ASSUME NEW r, room \in Rooms, Through(r), room.mode = "free_talk"
  PROVE  /\ GoesOn(r, Converge(r))
         /\ Runs(Converge(r)) => r.idle < NoProgressLimit /\ r.streak < SameSpeakerLimit
<1>1. r.idle \in Nat /\ r.streak \in Nat
  BY TurnFields DEF Through
<1>2. NoProgressLimit \in Nat /\ SameSpeakerLimit \in Nat
  BY DialogueAssumption
<1>3. CASE r.idle >= NoProgressLimit \/ r.streak >= SameSpeakerLimit
  <2>1. Converge(r) = End(r)
    BY <1>3 DEF Converge
  <2> QED BY <2>1, Ends DEF Runs
<1>4. CASE ~ (r.idle >= NoProgressLimit \/ r.streak >= SameSpeakerLimit)
  <2>1. Converge(r) = NextRound(r)
    BY <1>4 DEF Converge
  <2>2. r.idle < NoProgressLimit /\ r.streak < SameSpeakerLimit
    BY <1>1, <1>2, <1>4
  <2> QED BY <2>1, <2>2, RoundGoesOn
<1> QED BY <1>3, <1>4

(* What a turn has heard after the answer m: thoughts are kept back until  *)
(* the last of their round.                                                *)
Listens(r, m, n) ==
    IF Parallel
    THEN \/ n.step = r.step /\ n.history = r.history /\ n.back = r.back \cup {m}
         \/ /\ n.step = r.step + 1 /\ n.back = {}
            /\ n.history = r.history \cup Heard(r.back \cup {m})
    ELSE /\ n.back = r.back
         /\ n.history = r.history \cup {m} \/ (~ m.ok /\ n.history = r.history)

(* A call of the turn r is answered.                                       *)
Answers(r, m) ==
    /\ r \in Turn /\ TurnShape(r) /\ r.state = "calling"
    /\ m \in Messages /\ m.speaker \in r.calls

Answered(r, m, n) ==
    /\ n \in Turn /\ TurnShape(n)
    /\ n.state = "ended" \/ (Runs(n) /\ Listens(r, m, n))

(* What a talk is after the answer m.                                      *)
Talked(r, m, n) ==
    /\ n.step = r.step + 1 /\ n.history = r.history \cup {m} /\ n.last = m.speaker
    /\ n.idle = IF m.ok THEN 0 ELSE r.idle + 1
    /\ n.streak = IF r.last = m.speaker THEN r.streak + 1 ELSE 1
    /\ n.idle < NoProgressLimit /\ n.streak < SameSpeakerLimit

LEMMA SpeakerAnswered ==
  ASSUME NEW r, NEW m, room \in Rooms, room.mode = "round_robin", Answers(r, m)
  PROVE  Answered(r, m, AfterSpeaker(r, m))
<1> DEFINE i == CHOOSE i \in DOMAIN Order : Order[i] = m.speaker
           s == [r EXCEPT !.history = @ \cup Heard({m})]
           N == IF i = Len(Order) THEN NextRound(s) ELSE [s EXCEPT !.calls = {Order[i + 1]}]
<1>1. AfterSpeaker(r, m) = N
  BY DEF AfterSpeaker
<1>2. /\ r \in Turn /\ r.step <= room.rounds /\ r.state = "calling" /\ m \in Messages
      /\ r.step > 0 /\ m.speaker \in Names /\ ~ Parallel
  BY TurnFields DEF Answers, TurnShape, Runs, Parallel
<1>3. i \in DOMAIN Order
  BY <1>2 DEF Names
<1>4. Heard({m}) \in SUBSET Messages
  BY <1>2 DEF Heard
<1>5. /\ s \in Turn /\ s.state = "calling" /\ s.step = r.step /\ s.back = r.back
      /\ s.history = r.history \cup Heard({m})
  BY <1>2, <1>4 DEF Turn
<1>6. s.history = r.history \cup {m} \/ (~ m.ok /\ s.history = r.history)
  BY <1>5 DEF Heard
<1> HIDE DEF i, s
<1>7. CASE i = Len(Order)
  <2>1. Through(s)
    BY <1>2, <1>5 DEF Through
  <2>2. GoesOn(s, N)
    BY <1>7, <2>1, RoundGoesOn
  <2> HIDE DEF N
  <2>3. Answered(r, m, N)
    BY <1>2, <1>5, <1>6, <2>2 DEF GoesOn, Answered, Listens
  <2> QED BY <1>1, <2>3
<1>8. CASE i # Len(Order)
  <2>1. N = [s EXCEPT !.calls = {Order[i + 1]}]
    BY <1>8
  <2>2. Order[i + 1] \in Names
    <3>1. i + 1 \in DOMAIN Order
      BY <1>3, <1>8, OrderNames
    <3> QED BY <3>1, OrderNames
  <2> DEFINE next == {Order[i + 1]}
  <2>a. next \in SUBSET Names /\ next # {} /\ N = [s EXCEPT !.calls = next]
    BY <2>1, <2>2
  <2>b. \A p, o \in next : p = o
    OBVIOUS
  <2> HIDE DEF next
  <2>3. /\ N \in Turn /\ N.state = "calling" /\ N.step = r.step /\ N.back = r.back
        /\ N.history = s.history /\ N.calls = next
    BY <1>5, <2>a DEF Turn
  <2> HIDE DEF N
  <2>4. TurnShape(N)
    BY <1>2, <2>3, <2>a, <2>b DEF TurnShape, Runs
  <2>5. Answered(r, m, N)
    BY <1>2, <1>6, <2>3, <2>4 DEF Answered, Listens, Runs
  <2> QED BY <1>1, <2>5
<1> QED BY <1>7, <1>8

LEMMA ThoughtAnswered ==
  ASSUME NEW r, NEW m, room \in Rooms, room.mode = "parallel_think", Answers(r, m)
  PROVE  Answered(r, m, AfterThought(r, m))
<1> DEFINE s == [r EXCEPT !.calls = @ \ {m.speaker}, !.back = @ \cup {m}]
           u == [s EXCEPT !.history = @ \cup Heard(s.back), !.back = {}]
           N == IF s.calls # {} THEN s ELSE NextRound(u)
<1>1. AfterThought(r, m) = N
  BY DEF AfterThought
<1>2. /\ r \in Turn /\ r.step <= room.rounds /\ r.state = "calling" /\ m \in Messages
      /\ r.step > 0 /\ Parallel
  BY DEF Answers, TurnShape, Runs, Parallel
<1>3. /\ s \in Turn /\ s.state = "calling" /\ s.step = r.step /\ s.back = r.back \cup {m}
      /\ s.history = r.history
  BY <1>2 DEF Turn
<1> HIDE DEF s
<1>4. s.back \in SUBSET Messages
  BY <1>3, TurnFields
<1>5. Heard(s.back) \in SUBSET Messages
  BY <1>4 DEF Heard
<1>6. /\ u \in Turn /\ u.state = "calling" /\ u.step = r.step /\ u.back = {}
      /\ u.history = r.history \cup Heard(s.back)
  BY <1>3, <1>5 DEF Turn
<1> HIDE DEF u
<1>7. CASE s.calls # {}
  <2>1. TurnShape(s)
    BY <1>2, <1>3, <1>7 DEF TurnShape, Runs
  <2>2. Answered(r, m, s)
    BY <1>2, <1>3, <2>1 DEF Answered, Listens, Runs
  <2> QED BY <1>1, <1>7, <2>2
<1>8. CASE s.calls = {}
  <2>1. Through(u)
    BY <1>2, <1>6 DEF Through
  <2>2. GoesOn(u, N)
    BY <1>8, <2>1, RoundGoesOn
  <2> HIDE DEF N
  <2>3. Answered(r, m, N)
    BY <1>2, <1>3, <1>6, <2>2 DEF GoesOn, Answered, Listens
  <2> QED BY <1>1, <2>3
<1> QED BY <1>7, <1>8

LEMMA TalkAnswered ==
  ASSUME NEW r, NEW m, room \in Rooms, room.mode = "free_talk", Answers(r, m)
  PROVE  /\ Answered(r, m, AfterTalk(r, m))
         /\ Runs(AfterTalk(r, m)) => Talked(r, m, AfterTalk(r, m))
<1> DEFINE h == r.history \cup {m}
           idle == IF m.ok THEN 0 ELSE r.idle + 1
           streak == IF r.last = m.speaker THEN r.streak + 1 ELSE 1
           s == [r EXCEPT !.calls = {}, !.history = h, !.idle = idle,
                          !.streak = streak, !.last = m.speaker]
           N == Converge(s)
<1>1. AfterTalk(r, m) = N
  BY DEF AfterTalk
<1>2. /\ r \in Turn /\ r.step <= room.rounds /\ r.state = "calling" /\ m \in Messages
      /\ r.step > 0 /\ m.speaker \in Names /\ ~ Parallel
  BY TurnFields DEF Answers, TurnShape, Runs, Parallel
<1>a. h \in SUBSET Messages /\ idle \in Nat /\ streak \in Nat
  BY <1>2, TurnFields
<1>b. m.speaker \in Names \cup {"nobody"} /\ {} \in SUBSET Names
  BY <1>2
<1> HIDE DEF h, idle, streak
<1>3. /\ s.state = "calling" /\ s.step = r.step /\ s.back = r.back
      /\ s.history = h /\ s.calls = {} /\ s.last = m.speaker
      /\ s.idle = idle /\ s.streak = streak /\ s \in Turn
  BY <1>2, <1>a, <1>b DEF Turn
<1> HIDE DEF s
<1>4. Through(s)
  BY <1>2, <1>3 DEF Through
<1>5. /\ GoesOn(s, N)
      /\ Runs(N) => s.idle < NoProgressLimit /\ s.streak < SameSpeakerLimit
  BY <1>4, TalkGoesOn
<1> HIDE DEF N
<1>6. Answered(r, m, N)
  BY <1>2, <1>3, <1>5 DEF GoesOn, Answered, Listens, h
<1>7. ASSUME Runs(N)
      PROVE  Talked(r, m, N)
  <2>1. /\ N.step = s.step + 1 /\ N.history = s.history /\ N.idle = s.idle
        /\ N.streak = s.streak /\ N.last = s.last
    BY <1>5, <1>7 DEF GoesOn, Runs
  <2> QED BY <1>3, <1>5, <1>7, <2>1 DEF Talked, h, idle, streak
<1> QED BY <1>1, <1>6, <1>7

LEMMA TurnAnswered ==
  ASSUME NEW r, NEW m, room \in Rooms, Answers(r, m)
  PROVE  /\ Answered(r, m, After(r, m))
         /\ room.mode = "free_talk" /\ Runs(After(r, m)) => Talked(r, m, After(r, m))
<1>1. CASE room.mode = "round_robin"
  <2>1. After(r, m) = AfterSpeaker(r, m)
    BY <1>1 DEF After
  <2> QED BY <1>1, <2>1, SpeakerAnswered
<1>2. CASE room.mode = "parallel_think"
  <2>1. After(r, m) = AfterThought(r, m)
    BY <1>2 DEF After
  <2> QED BY <1>2, <2>1, ThoughtAnswered
<1>3. CASE room.mode = "free_talk"
  <2>1. After(r, m) = AfterTalk(r, m)
    BY <1>3 DEF After
  <2> QED BY <1>3, <2>1, TalkAnswered
<1> QED BY <1>1, <1>2, <1>3, RoomFields DEF Modes
-----------------------------------------------------------------------------
(* The lock.                                                               *)

(* The queue q, which t may just have joined, before t's turn moves.       *)
Ready(q, t) ==
    /\ q \in Seq(Requests) /\ Distinct(q)
    /\ \A u \in Requests \ {t} : Active(turn[u]) <=> Waits(q, u)
    /\ \A u \in Requests \ {t} : Runs(turn[u]) => q # <<>> /\ q[1] = u
    /\ turn[t].state \in Over \/ Waits(q, t)
    /\ turn[t].state \in Over => ~ Waits(q, t)

(* t's turn moves to r: a turn that is over remains so, and one that runs  *)
(* has the lock.                                                           *)
Advances(q, t, r) ==
    /\ r \in Turn /\ r.state # "idle"
    /\ turn[t].state \in Over => r.state \in Over
    /\ Runs(r) => q # <<>> /\ q[1] = t

LEMMA PutQueued ==
  ASSUME turn \in [Requests -> Turn], NEW t \in Requests, NEW r, NEW q,
         Ready(q, t), Advances(q, t, r), Put(t, r, q)
  PROVE  /\ Queues'
         /\ turn' \in [Requests -> Turn] /\ turn'[t] = r
         /\ \A u \in Requests \ {t} : turn'[u] = turn[u]
<1>1. /\ turn' = [turn EXCEPT ![t] = r]
      /\ queue' = IF r.state \in Over /\ turn[t].state \notin Over THEN Leave(q, t) ELSE q
  BY Zenon DEF Put
<1>2. /\ turn' \in [Requests -> Turn] /\ turn'[t] = r
      /\ \A u \in Requests \ {t} : turn'[u] = turn[u]
  BY <1>1 DEF Advances
<1>3. /\ q \in Seq(Requests) /\ Distinct(q)
      /\ \A u \in Requests \ {t} : Active(turn[u]) <=> Waits(q, u)
      /\ \A u \in Requests \ {t} : Runs(turn[u]) => q # <<>> /\ q[1] = u
      /\ turn[t].state \in Over \/ Waits(q, t)
      /\ turn[t].state \in Over => ~ Waits(q, t)
  BY DEF Ready
<1>4. /\ r.state # "idle" /\ (turn[t].state \in Over => r.state \in Over)
      /\ Runs(r) => q # <<>> /\ q[1] = t
      /\ r.state \in Over <=> ~ Active(r)
      /\ r.state \in Over => ~ Runs(r)
  BY DEF Advances, Turn, Over, Active, Runs
<1>5. Queued(queue', turn')
  <2>1. CASE r.state \in Over /\ turn[t].state \notin Over
    <3>1. queue' = Leave(q, t) /\ Waits(q, t)
      BY <1>1, <1>3, <2>1
    <3>2. /\ queue' \in Seq(Requests) /\ Distinct(queue')
          /\ \A x : Waits(queue', x) <=> Waits(q, x) /\ x # t
          /\ q[1] # t => queue' # <<>> /\ queue'[1] = q[1]
      BY <1>3, <3>1, LeaveQueue
    <3>3. ASSUME NEW u \in Requests
          PROVE  Active(turn'[u]) <=> Waits(queue', u)
      BY <1>2, <1>3, <1>4, <2>1, <3>2
    <3>4. ASSUME NEW u \in Requests, Runs(turn'[u])
          PROVE  queue' # <<>> /\ queue'[1] = u
      <4>1. u # t
        BY <1>2, <1>4, <2>1, <3>4
      <4> QED BY <1>2, <1>3, <3>2, <3>4, <4>1
    <3> QED BY <3>2, <3>3, <3>4 DEF Queued
  <2>2. CASE ~ (r.state \in Over /\ turn[t].state \notin Over)
    <3>1. queue' = q
      BY <1>1, <2>2
    <3>2. Active(r) <=> Waits(q, t)
      BY <1>3, <1>4, <2>2
    <3>3. ASSUME NEW u \in Requests
          PROVE  Active(turn'[u]) <=> Waits(queue', u)
      BY <1>2, <1>3, <3>1, <3>2
    <3>4. ASSUME NEW u \in Requests, Runs(turn'[u])
          PROVE  queue' # <<>> /\ queue'[1] = u
      BY <1>2, <1>3, <1>4, <3>1, <3>4
    <3> QED BY <1>3, <3>1, <3>3, <3>4 DEF Queued
  <2> QED BY <2>1, <2>2
<1> QED BY <1>2, <1>5 DEF Queues

(* A turn that has begun finds the queue ready.                            *)
LEMMA QueueReady ==
  ASSUME Queues, turn \in [Requests -> Turn], NEW t \in Requests, turn[t].state # "idle"
  PROVE  Ready(queue, t)
<1>1. turn[t] \in Turn
  OBVIOUS
<1>2. turn[t].state \in Over <=> ~ Active(turn[t])
  BY <1>1 DEF Turn, Over, Active
<1> QED BY <1>2 DEF Queues, Queued, Ready

(* One that begins joins it.                                               *)
LEMMA QueueJoined ==
  ASSUME Queues, turn \in [Requests -> Turn], NEW t \in Requests, turn[t].state = "idle"
  PROVE  /\ Ready(Append(queue, t), t)
         /\ queue = <<>> => Append(queue, t) = <<t>> /\ <<t>> # <<>> /\ <<t>>[1] = t
<1>1. queue \in Seq(Requests) /\ Distinct(queue) /\ ~ Waits(queue, t)
  BY DEF Queues, Queued, Active
<1> DEFINE q == Append(queue, t)
<1>2. /\ q \in Seq(Requests) /\ Distinct(q)
      /\ \A x : Waits(q, x) <=> Waits(queue, x) \/ x = t
      /\ queue # <<>> => q # <<>> /\ q[1] = queue[1]
  BY <1>1, JoinQueue
<1>3. queue = <<>> => q = <<t>> /\ <<t>> # <<>> /\ <<t>>[1] = t
  OBVIOUS
<1> HIDE DEF q
<1>4. turn[t].state \notin Over
  BY DEF Over
<1>5. Ready(q, t)
  BY <1>2, <1>4 DEF Ready, Queues, Queued
<1> QED BY <1>3, <1>5 DEF q
-----------------------------------------------------------------------------
(* What the actions do to the turn of a request.                           *)

(* Only the turn of t moves, and keeps its shape.                          *)
Moves(t) ==
    /\ room' = room /\ exists' = exists
    /\ faults' \in 0 .. MaxFaults /\ faults <= faults'
    /\ turn' \in [Requests -> Turn] /\ TurnShape(turn'[t])
    /\ turn'[t].state = "broken" /\ turn'[t].calls # {} => Parallel /\ faults' > 0
    /\ \A u \in Requests \ {t} : turn'[u] = turn[u]

(* Nobody but t runs.                                                      *)
Alone(t) == \A u \in Requests \ {t} : ~ Runs(turn[u])

(* Says(t, m): t's turn stores m.                                          *)
Says(t, m) ==
    /\ m \in Messages /\ m.turn = t /\ log' = Append(log, m)

(* It stores nothing: it waits for the lock, or breaks.                    *)
Silent(t) ==
    /\ log' = log
    /\ turn'[t].state = "broken" \/ (Fresh(turn[t]) /\ turn'[t].state = "waiting")

(* It begins, with the user's message.                                     *)
Opening(ms) == [Idle EXCEPT !.state = "calling", !.history = ms]

Opens(t, m) ==
    /\ Fresh(turn[t]) /\ Alone(t) /\ Says(t, m)
    /\ m.step = 0 /\ m.speaker = "user"
    /\ GoesOn(Opening(Oldest(log')), turn'[t])

(* A participant answers it.                                               *)
Replies(t, m) ==
    /\ Alone(t) /\ Says(t, m)
    /\ Answers(turn[t], m) /\ m.step = turn[t].step
    /\ Answered(turn[t], m, turn'[t])
    /\ room.mode = "free_talk" /\ Runs(turn'[t]) => Talked(turn[t], m, turn'[t])

(* Its host answers: a participant is called upon, or the round is over.   *)
Called(r, n) ==
    /\ Runs(n) /\ n.step = r.step /\ n.history = r.history /\ n.back = r.back
    /\ n.idle = r.idle /\ n.streak = r.streak /\ n.last = r.last

Unused(r, m, n) ==
    /\ Runs(n) /\ n.step = r.step + 1 /\ n.history = r.history \cup {m}
    /\ n.back = r.back /\ n.idle = r.idle + 1 /\ n.streak = r.streak /\ n.last = r.last
    /\ n.idle < NoProgressLimit

Rules(t, m) ==
    /\ Alone(t) /\ Says(t, m)
    /\ turn[t].state = "deciding" /\ m.step = turn[t].step /\ m.speaker = "moderator"
    /\ \/ turn'[t].state = "ended"
       \/ Called(turn[t], turn'[t])
       \/ Unused(turn[t], m, turn'[t])

(* A call that was left behind is answered.                                *)
Trails(t, m) == t \in Behind /\ Says(t, m) /\ turn'[t].state = "broken"

Stirs(t) ==
    /\ Moves(t)
    /\ \/ Silent(t)
       \/ \E m \in Messages : Opens(t, m) \/ Replies(t, m) \/ Rules(t, m) \/ Trails(t, m)

LEMMA BrokenTurn ==
  ASSUME NEW r \in Turn, NEW c \in SUBSET Names
  PROVE  /\ Break(r, c) \in Turn /\ Break(r, c).state = "broken"
         /\ Break(r, c).calls = c /\ Break(r, c).step = r.step
BY DEF Break, Idle, Turn, Over

(* A turn that breaks.                                                     *)
LEMMA BreakStirs ==
  ASSUME Shapes, NEW t \in Requests, NEW c \in SUBSET turn[t].calls, NEW q, Ready(q, t),
         Put(t, Break(turn[t], c), q),
         room' = room, exists' = exists, log' = log, faults' \in {faults, faults + 1},
         faults' <= MaxFaults, c = {} \/ faults' > 0,
         \A p \in c : \E o \in turn[t].calls : o # p
  PROVE  Queues' /\ Stirs(t)
<1> DEFINE n == Break(turn[t], c)
<1>1. turn[t] \in Turn /\ TurnShape(turn[t]) /\ turn[t].calls \in SUBSET Names
  BY TurnFields DEF Shapes
<1>2. n \in Turn /\ n.state = "broken" /\ n.calls = c /\ n.step = turn[t].step
  BY <1>1, BrokenTurn
<1> HIDE DEF n
<1>3. Advances(q, t, n)
  BY <1>2 DEF Advances, Over, Runs
<1>4. turn \in [Requests -> Turn]
  BY DEF Shapes
<1>5. /\ Queues'
      /\ turn' \in [Requests -> Turn] /\ turn'[t] = n
      /\ \A u \in Requests \ {t} : turn'[u] = turn[u]
  BY <1>3, <1>4, PutQueued DEF n
<1>6. TurnShape(n) /\ (c # {} => Parallel)
  BY <1>1, <1>2 DEF TurnShape, Runs
<1>7. faults \in 0 .. MaxFaults /\ MaxFaults \in Nat
  BY DialogueAssumption DEF Shapes
<1>8. Moves(t)
  BY <1>2, <1>5, <1>6, <1>7 DEF Moves
<1>9. Silent(t)
  BY <1>2, <1>5 DEF Silent
<1> QED BY <1>5, <1>8, <1>9 DEF Stirs

(* One that has the lock is alone.                                         *)
LEMMA FirstAlone ==
  ASSUME NEW t \in Requests, NEW q, Ready(q, t), q[1] = t
  PROVE  Alone(t)
BY DEF Ready, Alone

LEMMA RunnerFirst ==
  ASSUME Queues, NEW t \in Requests, Runs(turn[t])
  PROVE  queue # <<>> /\ queue[1] = t /\ Alone(t)
BY DEF Queues, Queued, Alone

LEMMA MessageFields ==
  ASSUME NEW t \in Requests, NEW s \in Nat, NEW p \in Speakers, NEW ok \in BOOLEAN
  PROVE  /\ Message(t, s, p, ok) \in Messages
         /\ Message(t, s, p, ok).turn = t /\ Message(t, s, p, ok).step = s
         /\ Message(t, s, p, ok).speaker = p /\ Message(t, s, p, ok).ok = ok
BY DEF Message, Messages

LEMMA OldestMessages ==
  ASSUME NEW ms \in Seq(Messages)
  PROVE  Oldest(ms) \in SUBSET Messages /\ Oldest(ms) \subseteq {ms[i] : i \in DOMAIN ms}
BY DEF Oldest

LEMMA OpeningFields ==
  ASSUME NEW ms \in SUBSET Messages
  PROVE  /\ Opening(ms) \in Turn /\ Opening(ms).state = "calling"
         /\ Opening(ms).step = 0 /\ Opening(ms).history = ms
         /\ Opening(ms).calls = {} /\ Opening(ms).back = {}
         /\ Opening(ms).idle = 0 /\ Opening(ms).streak = 0 /\ Opening(ms).last = "nobody"
BY DEF Opening, Idle, Turn

LEMMA BeginStirs ==
  ASSUME Shapes, NEW t \in Requests, NEW q, Ready(q, t), q # <<>>, q[1] = t,
         Fresh(turn[t]), Begin(t, q), room' = room, exists' = exists
  PROVE  Queues' /\ Stirs(t)
<1> DEFINE ok == TRUE
           m == Message(t, 0, "user", ok)
           said == Append(log, m)
           o == Opening(Oldest(said))
           n == NextRound(o)
<1>1. /\ turn[t] \in Turn /\ turn[t].calls \in SUBSET Names /\ log \in Seq(Messages)
      /\ turn \in [Requests -> Turn] /\ room \in Rooms
      /\ faults \in 0 .. MaxFaults /\ MaxFaults \in Nat
  BY TurnFields, DialogueAssumption DEF Shapes
<1>2. CASE log' = said /\ Put(t, n, q) /\ faults' = faults
  <2>1. /\ m \in Messages /\ m.turn = t /\ m.step = 0 /\ m.speaker = "user"
    <3>1. "user" \in Speakers /\ 0 \in Nat /\ ok \in BOOLEAN
      BY DEF Speakers
    <3> HIDE DEF ok
    <3> QED BY <3>1, MessageFields
  <2> HIDE DEF m
  <2>2. said \in Seq(Messages)
    BY <1>1, <2>1
  <2>3. Oldest(said) \in SUBSET Messages
    BY <2>2, OldestMessages
  <2> HIDE DEF said
  <2>4. /\ o \in Turn /\ o.state = "calling" /\ o.step = 0 /\ o.calls = {}
    BY <2>3, OpeningFields
  <2> HIDE DEF o
  <2>5. Through(o)
    BY <1>1, <2>4, RoomFields DEF Through
  <2>6. GoesOn(o, n)
    BY <1>1, <2>5, RoundGoesOn
  <2> HIDE DEF n
  <2>7. n \in Turn /\ TurnShape(n) /\ (n.state = "ended" \/ Runs(n))
    BY <2>6 DEF GoesOn
  <2>8. turn[t].state \notin Over /\ n.state # "idle" /\ n.state # "broken"
    BY <2>7 DEF Fresh, Over, Runs
  <2>9. Advances(q, t, n)
    BY <2>7, <2>8 DEF Advances
  <2>10. /\ Queues'
         /\ turn' \in [Requests -> Turn] /\ turn'[t] = n
         /\ \A u \in Requests \ {t} : turn'[u] = turn[u]
    BY <1>1, <1>2, <2>9, PutQueued
  <2>11. Moves(t)
    BY <1>1, <1>2, <2>7, <2>8, <2>10 DEF Moves
  <2>12. Opens(t, m)
    BY <1>2, <2>1, <2>6, <2>10, FirstAlone DEF Opens, Says, said, o
  <2> QED BY <2>1, <2>10, <2>11, <2>12 DEF Stirs
<1>3. CASE /\ faults < MaxFaults /\ faults' = faults + 1 /\ log' = log
           /\ Put(t, Break(turn[t], {}), q)
  <2> DEFINE c == {}
  <2>1. c \in SUBSET turn[t].calls /\ (c = {} \/ faults' > 0)
        /\ \A p \in c : \E u \in turn[t].calls : u # p
    OBVIOUS
  <2>2. Put(t, Break(turn[t], c), q) /\ log' = log
    BY <1>3
  <2>3. faults' \in {faults, faults + 1} /\ faults' <= MaxFaults
    BY <1>1, <1>3
  <2> HIDE DEF c
  <2> QED BY <2>1, <2>2, <2>3, BreakStirs
<1>4. \/ log' = said /\ Put(t, n, q) /\ faults' = faults
      \/ /\ faults < MaxFaults /\ faults' = faults + 1 /\ log' = log
         /\ Put(t, Break(turn[t], {}), q)
  BY DEF Begin, Opening
<1> QED BY <1>2, <1>3, <1>4

LEMMA PostStirs ==
  ASSUME Shapes, Queues, NEW t \in Requests, Post(t)
  PROVE  Queues' /\ Stirs(t)
<1>1. turn \in [Requests -> Turn] /\ turn[t].state = "idle" /\ Fresh(turn[t])
      /\ room' = room /\ exists' = exists
      /\ faults \in 0 .. MaxFaults /\ MaxFaults \in Nat
  BY DialogueAssumption DEF Shapes, Post, Fresh
<1> DEFINE q == Append(queue, t)
<1>2. /\ Ready(q, t)
      /\ queue = <<>> => q = <<t>> /\ <<t>> # <<>> /\ <<t>>[1] = t
  BY <1>1, QueueJoined
<1> HIDE DEF q
<1>3. CASE queue = <<>>
  <2>1. Begin(t, q) /\ q # <<>> /\ q[1] = t
    BY <1>2, <1>3 DEF Post
  <2> QED BY <1>1, <1>2, <2>1, BeginStirs
<1>4. CASE queue # <<>>
  <2> DEFINE n == [Idle EXCEPT !.state = "waiting"]
  <2>1. Put(t, n, q) /\ log' = log /\ faults' = faults
    BY <1>4 DEF Post, q
  <2>2. /\ n \in Turn /\ n.state = "waiting" /\ n.calls = {} /\ n.step = 0
    BY DEF Idle, Turn
  <2> HIDE DEF n
  <2>3. room \in Rooms
    BY DEF Shapes
  <2>4. TurnShape(n) /\ ~ Runs(n)
    BY <2>2, <2>3, RoomFields DEF TurnShape, Runs
  <2>5. Advances(q, t, n)
    BY <1>1, <2>2, <2>4 DEF Advances, Over
  <2>6. /\ Queues'
        /\ turn' \in [Requests -> Turn] /\ turn'[t] = n
        /\ \A u \in Requests \ {t} : turn'[u] = turn[u]
    BY <1>1, <1>2, <2>1, <2>5, PutQueued
  <2>7. Moves(t)
    BY <1>1, <2>1, <2>2, <2>4, <2>6 DEF Moves
  <2>8. Silent(t)
    BY <1>1, <2>1, <2>2, <2>6 DEF Silent
  <2> QED BY <2>6, <2>7, <2>8 DEF Stirs
<1> QED BY <1>3, <1>4

LEMMA EnterStirs ==
  ASSUME Shapes, Queues, NEW t \in Requests, Enter(t)
  PROVE  Queues' /\ Stirs(t)
<1>1. /\ turn \in [Requests -> Turn] /\ turn[t].state = "waiting" /\ Head(queue) = t
      /\ Begin(t, queue) /\ room' = room /\ exists' = exists
  BY DEF Enter, Shapes
<1>2. Ready(queue, t)
  BY <1>1, QueueReady
<1>3. queue \in Seq(Requests) /\ queue # <<>> /\ queue[1] = t
  <2>1. queue \in Seq(Requests) /\ Waits(queue, t)
    BY <1>1 DEF Queues, Queued, Active
  <2>2. queue # <<>>
    BY <2>1, EmptySeq DEF Waits
  <2> QED BY <1>1, <2>1, <2>2
<1>4. Fresh(turn[t])
  BY <1>1 DEF Fresh
<1> QED BY <1>1, <1>2, <1>3, <1>4, BeginStirs

LEMMA ReplyStirs ==
  ASSUME Shapes, Queues, NEW t \in Requests, NEW p \in Names, NEW ok \in BOOLEAN,
         Reply(t, p, ok)
  PROVE  Queues' /\ Stirs(t)
<1> DEFINE r == turn[t]
           m == Message(t, r.step, p, ok)
           left == [r EXCEPT !.calls = @ \ {p}]
           n == After(r, m)
<1>1. /\ turn \in [Requests -> Turn] /\ r \in Turn /\ r.step \in Nat
      /\ r.calls \in SUBSET Names /\ log \in Seq(Messages) /\ room \in Rooms
      /\ faults \in 0 .. MaxFaults /\ MaxFaults \in Nat /\ TurnShape(r)
      /\ r.state = "broken" /\ r.calls # {} => t \in Behind
  BY TurnFields, DialogueAssumption DEF Shapes
<1>2. /\ p \in r.calls /\ log' = Append(log, m)
      /\ IF r.state = "broken" THEN Put(t, left, queue) ELSE Put(t, n, queue)
      /\ room' = room /\ exists' = exists /\ faults' = faults
  BY DEF Reply
<1>3. p \in Speakers
  BY DEF Speakers
<1>4. m \in Messages /\ m.turn = t /\ m.step = r.step /\ m.speaker = p
  BY <1>1, <1>3, MessageFields
<1> HIDE DEF m
<1>5. r.state \in {"calling", "broken"}
  BY <1>1, <1>2 DEF TurnShape, Turn, Over
<1>6. Ready(queue, t)
  BY <1>1, <1>5, QueueReady
<1>7. Says(t, m)
  BY <1>2, <1>4 DEF Says
<1>8. CASE r.state = "broken"
  <2>1. left \in Turn /\ left.state = "broken" /\ left.step = r.step /\ left.calls = r.calls \ {p}
    BY <1>1, <1>8 DEF Turn
  <2>2. t \in Behind /\ Put(t, left, queue)
    BY <1>1, <1>2, <1>8
  <2> HIDE DEF left
  <2>3. TurnShape(left) /\ Parallel /\ faults > 0
    BY <1>1, <2>1, <2>2 DEF TurnShape, Behind, Runs
  <2>4. Advances(queue, t, left)
    BY <2>1 DEF Advances, Over, Runs
  <2>5. /\ Queues'
        /\ turn' \in [Requests -> Turn] /\ turn'[t] = left
        /\ \A u \in Requests \ {t} : turn'[u] = turn[u]
    BY <1>1, <1>6, <2>2, <2>4, PutQueued
  <2>6. Moves(t)
    BY <1>1, <1>2, <2>3, <2>5 DEF Moves
  <2>7. Trails(t, m)
    BY <1>7, <2>1, <2>2, <2>5 DEF Trails
  <2> QED BY <1>4, <2>5, <2>6, <2>7 DEF Stirs
<1>9. CASE r.state = "calling"
  <2>1. Runs(r) /\ Put(t, n, queue)
    BY <1>2, <1>9 DEF Runs
  <2>2. Answers(r, m)
    BY <1>1, <1>2, <1>4, <1>9 DEF Answers
  <2>3. /\ Answered(r, m, n)
        /\ room.mode = "free_talk" /\ Runs(n) => Talked(r, m, n)
    BY <1>1, <2>2, TurnAnswered
  <2> HIDE DEF n
  <2>4. n \in Turn /\ TurnShape(n) /\ (n.state = "ended" \/ Runs(n))
    BY <2>3 DEF Answered
  <2>5. queue # <<>> /\ queue[1] = t /\ Alone(t)
    BY <2>1, RunnerFirst
  <2>6. n.state # "idle" /\ n.state # "broken" /\ r.state \notin Over
    BY <1>9, <2>4 DEF Runs, Over
  <2>7. Advances(queue, t, n)
    BY <2>4, <2>5, <2>6 DEF Advances
  <2>8. /\ Queues'
        /\ turn' \in [Requests -> Turn] /\ turn'[t] = n
        /\ \A u \in Requests \ {t} : turn'[u] = turn[u]
    BY <1>1, <1>6, <2>1, <2>7, PutQueued
  <2>9. Moves(t)
    BY <1>1, <1>2, <2>4, <2>6, <2>8 DEF Moves
  <2>10. Replies(t, m)
    BY <1>4, <1>7, <2>2, <2>3, <2>5, <2>8 DEF Replies
  <2> QED BY <1>4, <2>8, <2>9, <2>10 DEF Stirs
<1> QED BY <1>5, <1>8, <1>9

LEMMA DecideStirs ==
  ASSUME Shapes, Queues, NEW t \in Requests,
         NEW d \in Names \cup {"END", "unclear", "failure"}, Decide(t, d)
  PROVE  Queues' /\ Stirs(t)
<1> DEFINE r == turn[t]
           ok == d # "failure"
           m == Message(t, r.step, "moderator", ok)
           called == [r EXCEPT !.state = "calling", !.calls = {d}]
           h == r.history \cup {m}
           k == r.idle + 1
           unused == [r EXCEPT !.history = h, !.idle = k]
           n == CASE d \in Names -> called
                  [] d = "END"   -> End(r)
                  [] OTHER       -> Converge(unused)
<1>1. /\ turn \in [Requests -> Turn] /\ r \in Turn /\ r.step \in Nat /\ r.idle \in Nat
      /\ r.history \in SUBSET Messages /\ log \in Seq(Messages) /\ room \in Rooms
      /\ faults \in 0 .. MaxFaults /\ MaxFaults \in Nat /\ TurnShape(r)
  BY TurnFields, DialogueAssumption DEF Shapes
<1>2. /\ r.state = "deciding" /\ log' = Append(log, m) /\ Put(t, n, queue)
      /\ room' = room /\ exists' = exists /\ faults' = faults
  BY DEF Decide
<1>3. "moderator" \in Speakers /\ ok \in BOOLEAN
  BY DEF Speakers
<1> HIDE DEF ok
<1>4. m \in Messages /\ m.turn = t /\ m.step = r.step /\ m.speaker = "moderator"
  BY <1>1, <1>3, MessageFields
<1> HIDE DEF m
<1>5. h \in SUBSET Messages /\ k \in Nat
  BY <1>1, <1>4
<1> HIDE DEF h, k
<1>6. /\ room.mode = "free_talk" /\ r.calls = {} /\ r.step > 0 /\ r.step <= room.rounds
      /\ Runs(r) /\ ~ Parallel
  BY <1>1, <1>2 DEF TurnShape, Runs, Parallel
<1>7. Ready(queue, t) /\ queue # <<>> /\ queue[1] = t /\ Alone(t)
  BY <1>1, <1>2, <1>6, QueueReady, RunnerFirst
<1>8. Says(t, m)
  BY <1>2, <1>4 DEF Says
<1>9. /\ n \in Turn /\ TurnShape(n)
      /\ \/ n.state = "ended"
         \/ Called(r, n)
         \/ Unused(r, m, n)
  <2>1. CASE d \in Names
    <3>1. d # "END"
      BY <2>1, DialogueAssumption
    <3>2. n = called
      BY <2>1, <3>1
    <3> DEFINE c == {d}
    <3>3. c \in SUBSET Names /\ c # {} /\ \A o, p \in c : o = p
      BY <2>1
    <3>4. n = [r EXCEPT !.state = "calling", !.calls = c]
      BY <3>2
    <3> HIDE DEF c, n
    <3>5. /\ n \in Turn /\ n.state = "calling" /\ n.calls = c /\ n.step = r.step
          /\ n.history = r.history /\ n.back = r.back /\ n.idle = r.idle
          /\ n.streak = r.streak /\ n.last = r.last
      BY <1>1, <3>3, <3>4 DEF Turn
    <3>6. TurnShape(n) /\ Called(r, n)
      BY <1>6, <3>3, <3>5 DEF TurnShape, Called, Runs
    <3> QED BY <3>5, <3>6
  <2>2. CASE d = "END"
    <3>1. d \notin Names
      BY <2>2, DialogueAssumption
    <3>2. n = End(r)
      BY <2>2, <3>1
    <3> HIDE DEF n
    <3> QED BY <1>1, <3>2, Ends DEF GoesOn
  <2>3. CASE d \notin Names /\ d # "END"
    <3>1. n = Converge(unused)
      BY <2>3
    <3> HIDE DEF n
    <3>2. /\ unused \in Turn /\ unused.state = r.state /\ unused.step = r.step
          /\ unused.calls = r.calls /\ unused.history = h /\ unused.back = r.back
          /\ unused.idle = k /\ unused.streak = r.streak /\ unused.last = r.last
      BY <1>1, <1>5 DEF Turn
    <3> HIDE DEF unused
    <3>3. Through(unused)
      BY <1>2, <1>6, <3>2 DEF Through
    <3>4. GoesOn(unused, n) /\ (Runs(n) => unused.idle < NoProgressLimit)
      BY <1>1, <1>6, <3>1, <3>3, TalkGoesOn
    <3> QED BY <3>2, <3>4 DEF GoesOn, Unused, h, k
  <2> QED BY <2>1, <2>2, <2>3
<1> HIDE DEF n
<1>10. (n.state = "ended" \/ Runs(n)) /\ r.state \notin Over
  BY <1>2, <1>9 DEF Called, Unused, Over
<1>11. n.state # "idle" /\ n.state # "broken"
  BY <1>10 DEF Runs
<1>12. Advances(queue, t, n)
  BY <1>7, <1>9, <1>10, <1>11 DEF Advances
<1>13. /\ Queues'
       /\ turn' \in [Requests -> Turn] /\ turn'[t] = n
       /\ \A u \in Requests \ {t} : turn'[u] = turn[u]
  BY <1>1, <1>2, <1>7, <1>12, PutQueued
<1>14. Moves(t)
  BY <1>1, <1>2, <1>9, <1>11, <1>13 DEF Moves
<1>15. Rules(t, m)
  BY <1>2, <1>4, <1>7, <1>8, <1>9, <1>13 DEF Rules
<1> QED BY <1>4, <1>13, <1>14, <1>15 DEF Stirs

LEMMA UnstoredStirs ==
  ASSUME Shapes, Queues, NEW t \in Requests, NEW p \in Names, Unstored(t, p)
  PROVE  Queues' /\ Stirs(t)
<1> DEFINE c == turn[t].calls \ {p}
<1>1. /\ turn \in [Requests -> Turn] /\ turn[t] \in Turn /\ TurnShape(turn[t])
      /\ faults \in 0 .. MaxFaults /\ MaxFaults \in Nat
  BY DialogueAssumption DEF Shapes
<1>2. /\ p \in turn[t].calls \/ turn[t].state = "deciding"
      /\ faults < MaxFaults /\ faults' = faults + 1
      /\ Put(t, Break(turn[t], c), queue)
      /\ room' = room /\ exists' = exists /\ log' = log
  BY DEF Unstored
<1>3. turn[t].state # "idle" /\ c \in SUBSET turn[t].calls
  BY <1>1, <1>2 DEF TurnShape
<1>4. \A o \in c : \E u \in turn[t].calls : u # o
  BY <1>1, <1>2 DEF TurnShape
<1>5. faults' \in {faults, faults + 1} /\ faults' <= MaxFaults /\ (c = {} \/ faults' > 0)
  BY <1>1, <1>2
<1>6. Ready(queue, t)
  BY <1>1, <1>3, QueueReady
<1> HIDE DEF c
<1> QED BY <1>2, <1>3, <1>4, <1>5, <1>6, BreakStirs

LEMMA CancelStirs ==
  ASSUME Shapes, Queues, NEW t \in Requests, Cancel(t)
  PROVE  Queues' /\ Stirs(t)
<1> DEFINE c == {}
<1>1. turn \in [Requests -> Turn] /\ faults \in 0 .. MaxFaults /\ MaxFaults \in Nat
  BY DialogueAssumption DEF Shapes
<1>2. /\ turn[t].state # "idle" /\ Put(t, Break(turn[t], c), queue)
      /\ room' = room /\ exists' = exists /\ log' = log /\ faults' = faults
  BY DEF Cancel
<1>3. faults' \in {faults, faults + 1} /\ faults' <= MaxFaults /\ (c = {} \/ faults' > 0)
  BY <1>1, <1>2
<1>4. c \in SUBSET turn[t].calls /\ \A o \in c : \E u \in turn[t].calls : u # o
  OBVIOUS
<1>5. Ready(queue, t)
  BY <1>1, <1>2, QueueReady
<1> HIDE DEF c
<1> QED BY <1>2, <1>3, <1>4, <1>5, BreakStirs

(* Every step is the room's deletion or moves one turn.                    *)
LEMMA StepStirs ==
  ASSUME Shapes, Queues, Next
  PROVE  Queues' /\ (Delete \/ \E t \in Requests : Stirs(t))
<1>1. CASE Delete
  BY <1>1 DEF Delete, Queues, Queued
<1>2. ASSUME NEW t \in Requests, Post(t)
      PROVE  Queues' /\ Stirs(t)
  BY <1>2, PostStirs
<1>3. ASSUME NEW t \in Requests, Enter(t)
      PROVE  Queues' /\ Stirs(t)
  BY <1>3, EnterStirs
<1>4. ASSUME NEW t \in Requests, NEW p \in Names, NEW ok \in BOOLEAN, Reply(t, p, ok)
      PROVE  Queues' /\ Stirs(t)
  BY <1>4, ReplyStirs
<1>5. ASSUME NEW t \in Requests, NEW d \in Names \cup {"END", "unclear", "failure"},
             Decide(t, d)
      PROVE  Queues' /\ Stirs(t)
  BY <1>5, DecideStirs
<1>6. ASSUME NEW t \in Requests, Cancel(t)
      PROVE  Queues' /\ Stirs(t)
  BY <1>6, CancelStirs
<1>7. ASSUME NEW t \in Requests, NEW p \in Names, Unstored(t, p)
      PROVE  Queues' /\ Stirs(t)
  BY <1>7, UnstoredStirs
<1> QED BY <1>1, <1>2, <1>3, <1>4, <1>5, <1>6, <1>7 DEF Next, Returns
-----------------------------------------------------------------------------
(* What a step does to the order of the messages.                          *)
LEMMA StirsSummary ==
  ASSUME Shapes, NEW t \in Requests, Stirs(t)
  PROVE  /\ \A u \in Requests : u \in Behind => u \in Behind'
         /\ \A u \in Requests :
               Runs(turn'[u]) => Runs(turn[u]) \/ (u = t /\ Fresh(turn[t]))
         /\ \/ log' = log /\ (Fresh(turn'[t]) => Fresh(turn[t]))
            \/ /\ ~ Fresh(turn'[t])
               /\ \E m \in Messages :
                     /\ m.turn = t /\ log' = Append(log, m)
                     /\ t \in Behind' \/ (Alone(t) /\ (Runs(turn[t]) \/ Fresh(turn[t])))
<1>1. /\ room' = room /\ faults \in Nat /\ faults' \in Nat /\ faults <= faults'
      /\ \A u \in Requests \ {t} : turn'[u] = turn[u]
  BY DialogueAssumption DEF Stirs, Moves, Shapes
<1>2. \A u \in Requests \ {t} : u \in Behind => u \in Behind'
  BY <1>1 DEF Behind, Parallel
<1>3. turn'[t].state = "broken" => (t \in Behind => t \in Behind')
  BY <1>1 DEF Behind, Parallel
<1>4. turn[t].state # "broken" => t \notin Behind
  BY DEF Behind
<1>5. CASE Silent(t)
  <2>1. log' = log /\ (Fresh(turn'[t]) => Fresh(turn[t])) /\ ~ Runs(turn'[t])
    BY <1>5 DEF Silent, Fresh, Runs
  <2>2. turn[t].state = "broken" => turn'[t].state = "broken"
    BY <1>5 DEF Silent, Fresh
  <2> QED BY <1>1, <1>2, <1>3, <1>4, <2>1, <2>2
<1>6. ASSUME NEW m \in Messages, Opens(t, m) \/ Replies(t, m) \/ Rules(t, m) \/ Trails(t, m)
      PROVE  /\ m.turn = t /\ log' = Append(log, m)
             /\ ~ Fresh(turn'[t])
             /\ Runs(turn'[t]) => Runs(turn[t]) \/ Fresh(turn[t])
             /\ turn[t].state = "broken" => turn'[t].state = "broken"
             /\ t \in Behind' \/ (Alone(t) /\ (Runs(turn[t]) \/ Fresh(turn[t])))
  <2>1. CASE Opens(t, m)
    <3>1. Fresh(turn[t]) /\ Alone(t) /\ Says(t, m) /\ turn[t].state # "broken"
      BY <2>1 DEF Opens, Fresh
    <3>2. turn'[t].state = "ended" \/ Runs(turn'[t])
      BY <2>1 DEF Opens, GoesOn
    <3> QED BY <3>1, <3>2 DEF Says, Fresh, Runs
  <2>2. CASE Replies(t, m)
    <3>1. turn[t].state = "calling" /\ Alone(t) /\ Says(t, m)
      BY <2>2 DEF Replies, Answers
    <3>2. turn'[t].state = "ended" \/ Runs(turn'[t])
      BY <2>2 DEF Replies, Answered
    <3> QED BY <3>1, <3>2 DEF Says, Fresh, Runs
  <2>3. CASE Rules(t, m)
    <3>1. turn[t].state = "deciding" /\ Alone(t) /\ Says(t, m)
      BY <2>3 DEF Rules
    <3>2. turn'[t].state = "ended" \/ Runs(turn'[t])
      BY <2>3 DEF Rules, Called, Unused
    <3> QED BY <3>1, <3>2 DEF Says, Fresh, Runs
  <2>4. CASE Trails(t, m)
    <3>1. t \in Behind /\ Says(t, m) /\ turn'[t].state = "broken"
      BY <2>4 DEF Trails
    <3> QED BY <1>3, <3>1 DEF Says, Fresh, Runs
  <2> QED BY <1>6, <2>1, <2>2, <2>3, <2>4
<1>7. CASE \E m \in Messages : Opens(t, m) \/ Replies(t, m) \/ Rules(t, m) \/ Trails(t, m)
  <2>1. PICK m \in Messages : Opens(t, m) \/ Replies(t, m) \/ Rules(t, m) \/ Trails(t, m)
    BY <1>7
  <2>2. /\ m.turn = t /\ log' = Append(log, m)
        /\ ~ Fresh(turn'[t])
        /\ Runs(turn'[t]) => Runs(turn[t]) \/ Fresh(turn[t])
        /\ turn[t].state = "broken" => turn'[t].state = "broken"
        /\ t \in Behind' \/ (Alone(t) /\ (Runs(turn[t]) \/ Fresh(turn[t])))
    BY <1>6, <2>1
  <2> QED BY <1>1, <1>2, <1>3, <1>4, <2>2
<1> QED BY <1>5, <1>7 DEF Stirs

LEMMA AppendedAt ==
  ASSUME NEW S, NEW ms \in Seq(S), NEW m \in S
  PROVE  /\ Len(ms) \in Nat /\ Append(ms, m) \in Seq(S)
         /\ Len(Append(ms, m)) = Len(ms) + 1
         /\ \A i \in 1 .. Len(ms) : Append(ms, m)[i] = ms[i]
         /\ Append(ms, m)[Len(ms) + 1] = m
         /\ \A i \in 1 .. Len(ms) + 1 : i \in 1 .. Len(ms) \/ i = Len(ms) + 1
BY AppendProperties

LEMMA StirsShapes ==
  ASSUME Shapes, NEW t \in Requests, Stirs(t)
  PROVE  Shapes'
<1>1. /\ room \in Rooms /\ exists \in BOOLEAN /\ log \in Seq(Messages)
      /\ \A u \in Requests :
            /\ TurnShape(turn[u])
            /\ turn[u].state = "broken" /\ turn[u].calls # {} => u \in Behind
  BY DEF Shapes
<1>2. /\ room' = room /\ exists' = exists /\ faults' \in 0 .. MaxFaults
      /\ turn' \in [Requests -> Turn] /\ TurnShape(turn'[t])
      /\ turn'[t].state = "broken" /\ turn'[t].calls # {} => Parallel /\ faults' > 0
      /\ \A u \in Requests \ {t} : turn'[u] = turn[u]
  BY DEF Stirs, Moves
<1>3. log' \in Seq(Messages)
  BY <1>1, StirsSummary, AppendedAt
<1>4. ASSUME NEW u \in Requests
      PROVE  TurnShape(turn[u])'
  <2>1. TurnShape(turn'[u])
    BY <1>1, <1>2
  <2> QED BY <1>2, <2>1 DEF TurnShape, Runs, Parallel
<1>5. ASSUME NEW u \in Requests, turn'[u].state = "broken", turn'[u].calls # {}
      PROVE  u \in Behind'
  <2>1. CASE u = t
    BY <1>2, <1>5, <2>1 DEF Behind, Parallel
  <2>2. CASE u # t
    <3>1. u \in Behind
      BY <1>1, <1>2, <1>5, <2>2
    <3> QED BY <3>1, StirsSummary
  <2> QED BY <2>1, <2>2
<1> QED BY <1>1, <1>2, <1>3, <1>4, <1>5 DEF Shapes

(* The messages are those of turns that have begun; a turn that runs is    *)
(* not interrupted.                                                        *)
Begun == \A i \in 1 .. Len(log) : ~ Fresh(turn[log[i].turn])

Apart ==
    \A i, j \in 1 .. Len(log) :
       i < j /\ log[j].turn # log[i].turn /\ Runs(turn[log[i].turn])
          => log[j].turn \in Behind

Unmixed ==
    \A i, j, k \in 1 .. Len(log) :
       i < j /\ j < k /\ log[i].turn = log[k].turn /\ log[j].turn # log[i].turn
          => log[i].turn \in Behind \/ log[j].turn \in Behind

Serial == Begun /\ Apart /\ Unmixed

LEMMA StirsSerial ==
  ASSUME Shapes, Serial, NEW t \in Requests, Stirs(t)
  PROVE  Serial'
<1> DEFINE n == Len(log)
<1>1. /\ log \in Seq(Messages) /\ n \in Nat
      /\ \A i \in 1 .. n : log[i].turn \in Requests
  <2>1. \A m \in Messages : m.turn \in Requests
    BY DEF Messages
  <2> QED BY <2>1 DEF Shapes
<1>2. /\ \A u \in Requests \ {t} : turn'[u] = turn[u]
      /\ room' = room
  BY DEF Stirs, Moves
<1>3. /\ \A u \in Requests : u \in Behind => u \in Behind'
      /\ \A u \in Requests :
            Runs(turn'[u]) => Runs(turn[u]) \/ (u = t /\ Fresh(turn[t]))
      /\ \/ log' = log /\ (Fresh(turn'[t]) => Fresh(turn[t]))
         \/ /\ ~ Fresh(turn'[t])
            /\ \E m \in Messages :
                  /\ m.turn = t /\ log' = Append(log, m)
                  /\ t \in Behind' \/ (Alone(t) /\ (Runs(turn[t]) \/ Fresh(turn[t])))
  BY StirsSummary
<1>4. \A i \in 1 .. n : ~ Fresh(turn[log[i].turn])
  BY DEF Serial, Begun
<1>5. \A i, j \in 1 .. n :
         i < j /\ log[j].turn # log[i].turn /\ Runs(turn[log[i].turn])
            => log[j].turn \in Behind
  BY DEF Serial, Apart
<1>6. \A i, j, k \in 1 .. n :
         i < j /\ j < k /\ log[i].turn = log[k].turn /\ log[j].turn # log[i].turn
            => log[i].turn \in Behind \/ log[j].turn \in Behind
  BY DEF Serial, Unmixed
<1>7. \A i \in 1 .. n : Runs(turn'[log[i].turn]) => Runs(turn[log[i].turn])
  BY <1>1, <1>3, <1>4
<1>8. \A i \in 1 .. n : (Fresh(turn'[t]) => Fresh(turn[t])) => ~ Fresh(turn'[log[i].turn])
  BY <1>1, <1>2, <1>4
<1> HIDE DEF n
<1>9. CASE log' = log /\ (Fresh(turn'[t]) => Fresh(turn[t]))
  <2>0. Len(log') = n
    BY <1>9 DEF n
  <2>1. Begun'
    BY <1>8, <1>9, <2>0 DEF Begun
  <2>2. Apart'
    BY <1>1, <1>3, <1>5, <1>7, <1>9, <2>0 DEF Apart
  <2>3. Unmixed'
    BY <1>1, <1>3, <1>6, <1>9, <2>0 DEF Unmixed
  <2> QED BY <2>1, <2>2, <2>3 DEF Serial
<1>10. CASE /\ ~ Fresh(turn'[t])
            /\ \E m \in Messages :
                  /\ m.turn = t /\ log' = Append(log, m)
                  /\ t \in Behind' \/ (Alone(t) /\ (Runs(turn[t]) \/ Fresh(turn[t])))
  <2>1. PICK m \in Messages :
                  /\ m.turn = t /\ log' = Append(log, m)
                  /\ t \in Behind' \/ (Alone(t) /\ (Runs(turn[t]) \/ Fresh(turn[t])))
    BY <1>10
  <2>2. /\ Len(log') = n + 1 /\ log'[n + 1].turn = t
        /\ \A i \in 1 .. n : log'[i] = log[i]
        /\ \A i \in 1 .. n + 1 : i \in 1 .. n \/ i = n + 1
    BY <1>1, <2>1, AppendedAt DEF n
  <2>3. \A i \in 1 .. n : ~ Fresh(turn'[log[i].turn])
    BY <1>8, <1>10
  <2>4. Begun'
    <3>1. ASSUME NEW i \in 1 .. n + 1
          PROVE  ~ Fresh(turn'[log'[i].turn])
      BY <1>10, <2>2, <2>3
    <3> QED BY <2>2, <3>1 DEF Begun, Fresh
  <2>5. ASSUME NEW i \in 1 .. n, Runs(turn'[log[i].turn]), log[i].turn # t
        PROVE  t \in Behind'
    <3>1. Runs(turn[log[i].turn]) /\ log[i].turn \in Requests
      BY <1>1, <1>7, <2>5
    <3>2. ~ Alone(t)
      BY <2>5, <3>1 DEF Alone
    <3> QED BY <2>1, <3>2
  <2>6. ASSUME NEW i \in 1 .. n + 1, NEW j \in 1 .. n + 1, i < j,
               log'[j].turn # log'[i].turn, Runs(turn'[log'[i].turn])
        PROVE  log'[j].turn \in Behind'
    <3>1. i \in 1 .. n
      BY <1>1, <2>6
    <3>2. CASE j = n + 1
      BY <2>2, <2>5, <2>6, <3>1, <3>2
    <3>3. CASE j \in 1 .. n
      BY <1>1, <1>3, <1>5, <1>7, <2>2, <2>6, <3>1, <3>3
    <3> QED BY <2>2, <3>2, <3>3
  <2>7. Apart'
    BY <2>2, <2>6 DEF Apart
  <2>8. ASSUME NEW i \in 1 .. n + 1, NEW j \in 1 .. n + 1, NEW k \in 1 .. n + 1,
               i < j, j < k, log'[i].turn = log'[k].turn, log'[j].turn # log'[i].turn
        PROVE  log'[i].turn \in Behind' \/ log'[j].turn \in Behind'
    <3>1. i \in 1 .. n /\ j \in 1 .. n
      BY <1>1, <2>8
    <3>2. CASE k = n + 1
      <4>1. log[i].turn = t /\ log[j].turn # t
        BY <2>2, <2>8, <3>1, <3>2
      <4>2. CASE t \in Behind'
        BY <2>2, <3>1, <4>1, <4>2
      <4>3. CASE Runs(turn[t])
        <5>1. log[j].turn \in Behind
          BY <1>5, <2>8, <3>1, <4>1, <4>3
        <5> QED BY <1>1, <1>3, <2>2, <3>1, <5>1
      <4>4. CASE Fresh(turn[t])
        BY <1>4, <3>1, <4>1, <4>4
      <4> QED BY <2>1, <4>2, <4>3, <4>4
    <3>3. CASE k \in 1 .. n
      <4>1. log[i].turn \in Behind \/ log[j].turn \in Behind
        BY <1>6, <2>2, <2>8, <3>1, <3>3
      <4> QED BY <1>1, <1>3, <2>2, <3>1, <4>1
    <3> QED BY <2>2, <3>2, <3>3
  <2>9. Unmixed'
    BY <2>2, <2>8 DEF Unmixed
  <2> QED BY <2>4, <2>7, <2>9 DEF Serial
<1> QED BY <1>3, <1>9, <1>10
-----------------------------------------------------------------------------
(* What has been stored, and who has heard it.                             *)

LEMMA StoredAppend ==
  ASSUME log \in Seq(Messages), NEW m \in Messages, log' = Append(log, m)
  PROVE  Stored' = Stored \cup {m}
<1> DEFINE n == Len(log)
<1>1. /\ n \in Nat /\ log' \in Seq(Messages) /\ Len(log') = n + 1
      /\ \A i \in 1 .. n : log'[i] = log[i]
      /\ log'[n + 1] = m
      /\ \A i \in 1 .. n + 1 : i \in 1 .. n \/ i = n + 1
      /\ DOMAIN log = 1 .. n /\ DOMAIN log' = 1 .. n + 1
  BY AppendedAt
<1> HIDE DEF n
<1>2. 1 .. n + 1 = 1 .. n \cup {n + 1}
  BY <1>1
<1>3. Stored = {log[i] : i \in 1 .. n} /\ Stored' = {log'[i] : i \in 1 .. n + 1}
  BY <1>1 DEF Stored
<1> QED BY <1>1, <1>2, <1>3

LEMMA StoredSame ==
  ASSUME log' = log
  PROVE  Stored' = Stored
BY DEF Stored

LEMMA StoredMessages ==
  ASSUME log \in Seq(Messages)
  PROVE  /\ Stored \subseteq Messages
         /\ \A m \in Stored : \E i \in 1 .. Len(log) : m = log[i]
BY DEF Stored

(* What t says is of t; what is stored is of turns that have begun.        *)
LEMMA StirsStored ==
  ASSUME Shapes, NEW t \in Requests, Stirs(t)
  PROVE  \A m \in Stored' : m \in Stored \/ m.turn = t
<1>1. log \in Seq(Messages)
  BY DEF Shapes
<1>2. CASE log' = log
  BY <1>2, StoredSame
<1>3. CASE \E m \in Messages : m.turn = t /\ log' = Append(log, m)
  BY <1>1, <1>3, StoredAppend
<1> QED BY <1>2, <1>3, StirsSummary

LEMMA FreshUnsaid ==
  ASSUME Shapes, Serial, NEW t \in Requests, Fresh(turn[t])
  PROVE  \A m \in Stored : m.turn # t
<1>1. log \in Seq(Messages)
  BY DEF Shapes
<1> QED BY <1>1, StoredMessages DEF Serial, Begun

(* A turn that has just begun has the user's message and the older ones.   *)
LEMMA OpensWith ==
  ASSUME Shapes, Serial, NEW t \in Requests, NEW m \in Messages,
         Opens(t, m), Runs(turn'[t])
  PROVE  /\ turn'[t].history = Oldest(log') /\ turn'[t].history \subseteq Stored'
         /\ turn'[t].back = {} /\ turn'[t].step = 1
         /\ turn'[t].idle = 0 /\ turn'[t].streak = 0
         /\ Stored' = Stored \cup {m} /\ m.turn = t /\ m.step = 0 /\ m.speaker = "user"
         /\ \A o \in Stored : o.turn # t
<1>1. /\ Fresh(turn[t]) /\ m.turn = t /\ log' = Append(log, m)
      /\ m.step = 0 /\ m.speaker = "user"
      /\ GoesOn(Opening(Oldest(log')), turn'[t])
  BY DEF Opens, Says
<1>2. log \in Seq(Messages)
  BY DEF Shapes
<1>3. log' \in Seq(Messages) /\ Stored' = Stored \cup {m}
  BY <1>1, <1>2, AppendedAt, StoredAppend
<1>4. Oldest(log') \in SUBSET Messages /\ Oldest(log') \subseteq {log'[i] : i \in DOMAIN log'}
  BY <1>3, OldestMessages
<1> DEFINE o == Opening(Oldest(log'))
<1>5. /\ o.step = 0 /\ o.history = Oldest(log') /\ o.back = {} /\ o.idle = 0 /\ o.streak = 0
  BY <1>4, OpeningFields
<1>6. GoesOn(o, turn'[t])
  BY <1>1
<1> HIDE DEF o
<1>7. /\ turn'[t].history = Oldest(log') /\ turn'[t].back = {} /\ turn'[t].step = 1
      /\ turn'[t].idle = 0 /\ turn'[t].streak = 0
  BY <1>5, <1>6 DEF GoesOn, Runs
<1>8. turn'[t].history \subseteq Stored'
  BY <1>4, <1>7 DEF Stored
<1>9. \A x \in Stored : x.turn # t
  BY <1>1, FreshUnsaid
<1> QED BY <1>1, <1>3, <1>7, <1>8, <1>9

(* Who runs has heard what its turn said, but for the thoughts of this     *)
(* round.                                                                  *)
Hears(t) ==
    /\ Said(t) \subseteq turn[t].history \cup turn[t].back
    /\ \A m \in turn[t].back : m.turn = t /\ m.step = turn[t].step
    /\ IF Parallel THEN \A m \in turn[t].history : m.turn = t => m.step < turn[t].step
                   ELSE turn[t].back = {}

Hearing == \A t \in Requests : Runs(turn[t]) => Hears(t)

LEMMA RepliesHears ==
  ASSUME Shapes, NEW t \in Requests, room' = room, Hears(t),
         NEW m \in Messages, Replies(t, m), Runs(turn'[t])
  PROVE  Hears(t)'
<1> DEFINE r == turn[t]
           n == turn'[t]
<1>1. /\ Listens(r, m, n) /\ m.turn = t /\ m.step = r.step /\ log' = Append(log, m)
  BY DEF Replies, Answered, Says, Runs
<1>2. log \in Seq(Messages) /\ r \in Turn
  BY DEF Shapes
<1>3. Stored' = Stored \cup {m} /\ r.step \in Nat
  BY <1>1, <1>2, StoredAppend, TurnFields
<1>4. Said(t)' \subseteq Said(t) \cup Heard({m})
  BY <1>3 DEF Said, Heard
<1>5. /\ Said(t) \subseteq r.history \cup r.back
      /\ \A o \in r.back : o.turn = t /\ o.step = r.step
      /\ IF Parallel THEN \A o \in r.history : o.turn = t => o.step < r.step
                     ELSE r.back = {}
  BY DEF Hears
<1>6. \A o \in Said(t) : o.ok
  BY DEF Said
<1> HIDE DEF r, n
<1>7. /\ Said(t)' \subseteq n.history \cup n.back
      /\ \A o \in n.back : o.turn = t /\ o.step = n.step
      /\ IF Parallel THEN \A o \in n.history : o.turn = t => o.step < n.step
                     ELSE n.back = {}
  <2>1. CASE ~ Parallel
    BY <1>1, <1>4, <1>5, <2>1 DEF Listens, Heard
  <2>2. CASE Parallel /\ n.step = r.step /\ n.history = r.history /\ n.back = r.back \cup {m}
    BY <1>1, <1>4, <1>5, <2>2 DEF Heard
  <2>3. CASE /\ Parallel /\ n.step = r.step + 1 /\ n.back = {}
             /\ n.history = r.history \cup Heard(r.back \cup {m})
    <3>1. Said(t)' \subseteq n.history
      BY <1>4, <1>5, <1>6, <2>3 DEF Heard
    <3>2. ASSUME NEW o \in n.history, o.turn = t
          PROVE  o.step < n.step
      <4>1. CASE o \in r.history
        <5>1. o.step < r.step /\ o.step \in Nat
          BY <1>2, <1>5, <2>3, <3>2, <4>1, TurnFields DEF Messages, r
        <5> QED BY <1>3, <2>3, <5>1
      <4>2. CASE o \in Heard(r.back \cup {m})
        <5>1. o.step = r.step
          BY <1>1, <1>5, <4>2 DEF Heard
        <5> QED BY <1>3, <2>3, <5>1
      <4> QED BY <2>3, <3>2, <4>1, <4>2
    <3> QED BY <2>3, <3>1, <3>2
  <2> QED BY <1>1, <2>1, <2>2, <2>3 DEF Listens
<1> QED BY <1>7 DEF Hears, Parallel, n

LEMMA RulesHears ==
  ASSUME Shapes, NEW t \in Requests, room' = room, Hears(t),
         NEW m \in Messages, Rules(t, m), Runs(turn'[t])
  PROVE  Hears(t)'
<1>1. /\ Called(turn[t], turn'[t]) \/ Unused(turn[t], m, turn'[t])
      /\ m.turn = t /\ m.speaker = "moderator" /\ log' = Append(log, m)
      /\ turn[t].state = "deciding"
  BY DEF Rules, Says, Runs
<1>2. log \in Seq(Messages) /\ TurnShape(turn[t])
  BY DEF Shapes
<1>3. Stored' = Stored \cup {m} /\ ~ Parallel
  BY <1>1, <1>2, StoredAppend DEF TurnShape, Parallel
<1>4. Said(t)' \subseteq Said(t)
  BY <1>1, <1>3, DialogueAssumption DEF Said
<1>5. Said(t) \subseteq turn[t].history \cup turn[t].back /\ turn[t].back = {}
  BY <1>3 DEF Hears
<1>6. turn[t].history \subseteq turn'[t].history /\ turn'[t].back = {}
  BY <1>1, <1>5 DEF Called, Unused
<1> QED BY <1>3, <1>4, <1>5, <1>6 DEF Hears, Parallel

LEMMA OpensHears ==
  ASSUME Shapes, Serial, NEW t \in Requests, room' = room,
         NEW m \in Messages, Opens(t, m), Runs(turn'[t])
  PROVE  Hears(t)'
<1>1. /\ turn'[t].history \subseteq Stored'
      /\ turn'[t].back = {} /\ turn'[t].step = 1
      /\ Stored' = Stored \cup {m} /\ m.step = 0
      /\ \A o \in Stored : o.turn # t
  BY OpensWith
<1>2. Said(t)' = {}
  BY <1>1 DEF Said
<1>3. \A o \in turn'[t].history : o.turn = t => o.step < turn'[t].step
  BY <1>1
<1> QED BY <1>1, <1>2, <1>3 DEF Hears

LEMMA StirsHears ==
  ASSUME Shapes, Serial, Hearing, NEW t \in Requests, Stirs(t)
  PROVE  Hearing'
<1> SUFFICES ASSUME NEW u \in Requests, Runs(turn'[u])
             PROVE  Hears(u)'
  BY DEF Hearing, Runs
<1>1. room' = room /\ \A x \in Requests \ {t} : turn'[x] = turn[x]
  BY DEF Stirs, Moves
<1>2. CASE u # t
  <2>1. turn'[u] = turn[u] /\ Hears(u)
    BY <1>1, <1>2 DEF Hearing
  <2>2. Said(u)' \subseteq Said(u)
    BY <1>2, StirsStored DEF Said
  <2> QED BY <1>1, <2>1, <2>2 DEF Hears, Parallel
<1>3. CASE u = t
  <2>1. CASE Silent(t)
    BY <1>3, <2>1 DEF Silent, Runs
  <2>2. ASSUME NEW m \in Messages, Opens(t, m)
        PROVE  Hears(t)'
    BY <1>1, <1>3, <2>2, OpensHears
  <2>3. ASSUME NEW m \in Messages, Replies(t, m)
        PROVE  Hears(t)'
    <3>1. Hears(t)
      BY <2>3 DEF Hearing, Replies, Answers, Runs
    <3> QED BY <1>1, <1>3, <2>3, <3>1, RepliesHears
  <2>4. ASSUME NEW m \in Messages, Rules(t, m)
        PROVE  Hears(t)'
    <3>1. Hears(t)
      BY <2>4 DEF Hearing, Rules, Runs
    <3> QED BY <1>1, <1>3, <2>4, <3>1, RulesHears
  <2>5. ASSUME NEW m \in Messages
        PROVE  ~ Trails(t, m)
    BY <1>3 DEF Trails, Runs
  <2> QED BY <1>3, <2>1, <2>2, <2>3, <2>4, <2>5 DEF Stirs
<1> QED BY <1>2, <1>3

(* Short contexts are whole.                                               *)
LEMMA StirsWhole ==
  ASSUME Shapes, Serial, ShortContextIsWhole, NEW t \in Requests, Stirs(t)
  PROVE  ShortContextIsWhole'
<1> SUFFICES ASSUME exists', Len(log') <= HistoryLimit, faults' = 0,
                    NEW u \in Requests, Runs(turn'[u])
             PROVE  Whole(u)'
  BY DEF ShortContextIsWhole, Running, Runs
<1>1. /\ log \in Seq(Messages) /\ faults \in Nat /\ TurnShape(turn[t])
      /\ turn[t].step \in Nat /\ HistoryLimit \in Nat
  BY DialogueAssumption, TurnFields DEF Shapes
<1>2. /\ exists' = exists /\ faults = 0 /\ \A x \in Requests \ {t} : turn'[x] = turn[x]
  BY <1>1 DEF Stirs, Moves
<1>3. Len(log) <= HistoryLimit
  BY <1>1, StirsSummary, AppendedAt
<1>4. \A x \in Requests : Runs(turn[x]) => Whole(x)
  BY <1>2, <1>3 DEF ShortContextIsWhole, Running, Runs
<1>5. ASSUME NEW m \in Messages
      PROVE  ~ Trails(t, m)
  BY <1>2 DEF Trails, Behind
<1>6. CASE u # t
  <2>1. turn'[u] = turn[u] /\ Runs(turn[u]) /\ ~ Alone(t)
    BY <1>2, <1>6 DEF Alone
  <2>2. log' = log
    BY <1>5, <2>1 DEF Stirs, Silent, Opens, Replies, Rules
  <2> QED BY <1>4, <2>1, <2>2 DEF Whole, Stored
<1>7. CASE u = t
  <2>1. CASE Silent(t)
    BY <1>7, <2>1 DEF Silent, Runs
  <2>2. ASSUME NEW m \in Messages, Opens(t, m)
        PROVE  Whole(t)'
    <3>1. turn'[t].history = Oldest(log')
      BY <1>7, <2>2, OpensWith
    <3>2. log' \in Seq(Messages)
      BY <1>1, <2>2, AppendedAt DEF Opens, Says
    <3>3. Stored' \subseteq Oldest(log')
      BY <1>1, <3>2 DEF Oldest, Stored
    <3> QED BY <3>1, <3>3 DEF Whole
  <2>3. ASSUME NEW m \in Messages, Runs(turn[t]), m.turn = t, m.step = turn[t].step,
               log' = Append(log, m), turn[t].history \subseteq turn'[t].history
        PROVE  Whole(t)'
    <3>1. Stored' = Stored \cup {m}
      BY <1>1, <2>3, StoredAppend
    <3>2. m.step # 0
      BY <1>1, <2>3 DEF TurnShape
    <3>3. Whole(t)
      BY <1>4, <2>3
    <3> QED BY <2>3, <3>1, <3>2, <3>3 DEF Whole
  <2>4. ASSUME NEW m \in Messages, Replies(t, m)
        PROVE  Whole(t)'
    <3>1. turn[t].history \subseteq turn'[t].history
      <4>1. Listens(turn[t], m, turn'[t])
        BY <1>7, <2>4 DEF Replies, Answered, Runs
      <4> QED BY <4>1 DEF Listens
    <3>2. /\ Runs(turn[t]) /\ m.turn = t /\ m.step = turn[t].step
          /\ log' = Append(log, m)
      BY <2>4 DEF Replies, Answers, Says, Runs
    <3> QED BY <2>3, <3>1, <3>2
  <2>5. ASSUME NEW m \in Messages, Rules(t, m)
        PROVE  Whole(t)'
    <3>1. turn[t].history \subseteq turn'[t].history
      <4>1. Called(turn[t], turn'[t]) \/ Unused(turn[t], m, turn'[t])
        BY <1>7, <2>5 DEF Rules, Runs
      <4> QED BY <4>1 DEF Called, Unused
    <3>2. /\ Runs(turn[t]) /\ m.turn = t /\ m.step = turn[t].step
          /\ log' = Append(log, m)
      BY <2>5 DEF Rules, Says, Runs
    <3> QED BY <2>3, <3>1, <3>2
  <2> QED BY <1>5, <1>7, <2>1, <2>2, <2>4, <2>5 DEF Stirs
<1> QED BY <1>6, <1>7
-----------------------------------------------------------------------------
(* A free talk.  S is what was said in it, and r its turn: r.last spoke    *)
(* the last of S, alone for no longer than streak, and idle rounds have    *)
(* passed since the last answer.                                           *)
Trailing(S, name) == {m \in S : \A n \in S : n.step >= m.step => n.speaker = name}

LastSpoke(S, name) ==
    S # {} => \E m \in S : m.speaker = name /\ \A n \in S : n.step <= m.step

Heeded(S, step) == \E m \in S : m.ok /\ m.step = step

Progress(S, step) ==
    \A k \in Nat :
       k + NoProgressLimit < step =>
          \E m \in S : m.ok /\ m.step \in k + 1 .. k + NoProgressLimit

Talks(S, r) ==
    /\ IsFiniteSet(S) /\ \A m \in S : m.step \in Nat /\ m.step < r.step
    /\ LastSpoke(S, r.last)
    /\ Cardinality(Trailing(S, r.last)) <= r.streak /\ r.streak < SameSpeakerLimit
    /\ r.idle < r.step /\ r.idle < NoProgressLimit
    /\ r.idle = r.step - 1 \/ Heeded(S, r.step - 1 - r.idle)
    /\ Progress(S, r.step)

LEMMA TrailingSubset ==
  ASSUME NEW S, IsFiniteSet(S), NEW name
  PROVE  IsFiniteSet(Trailing(S, name)) /\ Cardinality(Trailing(S, name)) \in Nat
<1>1. Trailing(S, name) \subseteq S
  BY DEF Trailing
<1> QED BY <1>1, FS_Subset, FS_CardinalityType

(* One more round without an answer.                                       *)
LEMMA RoundPasses ==
  ASSUME NEW S, NEW T, S \subseteq T, NEW step \in Nat, NEW idle \in Nat,
         idle < step, idle + 1 < NoProgressLimit,
         idle = step - 1 \/ Heeded(S, step - 1 - idle), Progress(S, step)
  PROVE  /\ idle + 1 = step + 1 - 1 \/ Heeded(T, step + 1 - 1 - (idle + 1))
         /\ Progress(T, step + 1)
<1>1. NoProgressLimit \in Nat \ {0}
  BY DialogueAssumption
<1>2. step + 1 - 1 - (idle + 1) = step - 1 - idle
  OBVIOUS
<1>3. idle + 1 = step + 1 - 1 \/ Heeded(T, step + 1 - 1 - (idle + 1))
  BY <1>2 DEF Heeded
<1>4. ASSUME NEW k \in Nat, k + NoProgressLimit < step + 1
      PROVE  \E m \in T : m.ok /\ m.step \in k + 1 .. k + NoProgressLimit
  <2>1. CASE k + NoProgressLimit < step
    BY <2>1 DEF Progress
  <2>2. CASE ~ (k + NoProgressLimit < step)
    <3>1. k + NoProgressLimit = step
      BY <1>1, <1>4, <2>2
    <3>2. idle # step - 1
      BY <1>1, <3>1
    <3>3. PICK m \in S : m.ok /\ m.step = step - 1 - idle
      BY <3>2 DEF Heeded
    <3>4. step - 1 - idle \in k + 1 .. k + NoProgressLimit
      BY <1>1, <3>1
    <3> QED BY <3>3, <3>4
  <2> QED BY <2>1, <2>2
<1> QED BY <1>3, <1>4 DEF Progress

(* One with an answer.                                                     *)
LEMMA RoundHeeded ==
  ASSUME NEW S, NEW T, S \subseteq T, NEW step \in Nat, Heeded(T, step), Progress(S, step)
  PROVE  /\ Heeded(T, step + 1 - 1 - 0)
         /\ Progress(T, step + 1)
<1>1. NoProgressLimit \in Nat \ {0}
  BY DialogueAssumption
<1>2. step + 1 - 1 - 0 = step
  OBVIOUS
<1>3. ASSUME NEW k \in Nat, k + NoProgressLimit < step + 1
      PROVE  \E m \in T : m.ok /\ m.step \in k + 1 .. k + NoProgressLimit
  <2>1. CASE k + NoProgressLimit < step
    BY <2>1 DEF Progress
  <2>2. CASE ~ (k + NoProgressLimit < step)
    <3>1. k + NoProgressLimit = step
      BY <1>1, <1>3, <2>2
    <3>2. step \in k + 1 .. k + NoProgressLimit
      BY <1>1, <3>1
    <3> QED BY <3>2 DEF Heeded
  <2> QED BY <2>1, <2>2
<1> QED BY <1>2, <1>3 DEF Progress

(* The talk of a turn that has just begun.                                 *)
LEMMA TalkBegins ==
  ASSUME NEW r, r.step = 1, r.idle = 0, r.streak = 0
  PROVE  Talks({}, r)
<1>1. NoProgressLimit \in Nat \ {0} /\ SameSpeakerLimit \in Nat \ {0}
  BY DialogueAssumption
<1>2. Trailing({}, r.last) = {}
  BY DEF Trailing
<1>3. IsFiniteSet({}) /\ Cardinality({}) = 0
  BY FS_EmptySet
<1>4. Progress({}, 1)
  BY <1>1 DEF Progress
<1>5. LastSpoke({}, r.last)
  BY DEF LastSpoke
<1> QED BY <1>1, <1>2, <1>3, <1>4, <1>5 DEF Talks

(* A participant speaks.                                                   *)
LEMMA TalkGoesOnWith ==
  ASSUME NEW S, NEW r, NEW n, NEW m, Talks(S, r), Talked(r, m, n),
         r.step \in Nat, r.idle \in Nat, r.streak \in Nat, m.step = r.step
  PROVE  Talks(S \cup {m}, n)
<1> DEFINE T == S \cup {m}
<1>1. /\ IsFiniteSet(S) /\ \A x \in S : x.step \in Nat /\ x.step < r.step
      /\ LastSpoke(S, r.last)
      /\ Cardinality(Trailing(S, r.last)) <= r.streak
      /\ r.idle < r.step
      /\ r.idle = r.step - 1 \/ Heeded(S, r.step - 1 - r.idle)
      /\ Progress(S, r.step)
  BY DEF Talks
<1>2. /\ n.step = r.step + 1 /\ n.last = m.speaker
      /\ n.idle = IF m.ok THEN 0 ELSE r.idle + 1
      /\ n.streak = IF r.last = m.speaker THEN r.streak + 1 ELSE 1
      /\ n.idle < NoProgressLimit /\ n.streak < SameSpeakerLimit
  BY DEF Talked
<1>3. IsFiniteSet(T) /\ \A x \in T : x.step \in Nat /\ x.step < n.step
  <2>1. IsFiniteSet(T)
    BY <1>1, FS_AddElement
  <2> QED BY <1>1, <1>2, <2>1
<1>4. LastSpoke(T, n.last)
  <2>1. \A x \in T : x.step <= m.step
    BY <1>1
  <2> QED BY <1>2, <2>1 DEF LastSpoke
<1>5. Cardinality(Trailing(T, n.last)) <= n.streak
  <2> DEFINE A == Trailing(S, r.last)
             B == Trailing(T, n.last)
  <2>1. IsFiniteSet(A) /\ Cardinality(A) \in Nat /\ IsFiniteSet(B) /\ Cardinality(B) \in Nat
    BY <1>1, <1>3, TrailingSubset
  <2>2. CASE r.last = m.speaker
    <3>1. B \subseteq A \cup {m}
      BY <1>2, <2>2 DEF Trailing
    <3>2. IsFiniteSet(A \cup {m}) /\ Cardinality(A \cup {m}) <= Cardinality(A) + 1
          /\ Cardinality(A \cup {m}) \in Nat
      <4> HIDE DEF A
      <4>1. /\ IsFiniteSet(A \cup {m})
            /\ Cardinality(A \cup {m}) = IF m \in A THEN Cardinality(A) ELSE Cardinality(A) + 1
        BY <2>1, FS_AddElement
      <4> QED BY <2>1, <4>1
    <3> HIDE DEF A, B
    <3>3. Cardinality(B) <= Cardinality(A \cup {m})
      BY <3>1, <3>2, FS_Subset
    <3>4. Cardinality(A) <= r.streak
      BY <1>1 DEF A
    <3> QED BY <1>2, <2>1, <2>2, <3>2, <3>3, <3>4 DEF B
  <2>3. CASE r.last # m.speaker
    <3>1. ASSUME NEW x \in B
          PROVE  x = m
      <4>1. SUFFICES ASSUME x # m PROVE FALSE
        OBVIOUS
      <4>2. x \in S /\ \A y \in S : y.step >= x.step => y.speaker = m.speaker
        BY <1>2, <3>1, <4>1 DEF Trailing
      <4>3. PICK y \in S : y.speaker = r.last /\ \A z \in S : z.step <= y.step
        BY <1>1, <4>2 DEF LastSpoke
      <4>4. y.step >= x.step
        BY <1>1, <4>2, <4>3
      <4> QED BY <2>3, <4>2, <4>3, <4>4
    <3>2. B \subseteq {m}
      BY <3>1
    <3> HIDE DEF B
    <3>3. Cardinality(B) <= 1
      <4>1. IsFiniteSet({m}) /\ Cardinality({m}) = 1
        BY FS_Singleton
      <4> QED BY <3>2, <4>1, FS_Subset
    <3> QED BY <1>2, <2>3, <3>3 DEF B
  <2> QED BY <2>2, <2>3
<1>6. /\ n.idle = n.step - 1 \/ Heeded(T, n.step - 1 - n.idle)
      /\ Progress(T, n.step) /\ n.idle < n.step
  <2>1. S \subseteq T
    OBVIOUS
  <2>2. CASE m.ok
    <3>1. Heeded(T, r.step)
      BY <2>2 DEF Heeded
    <3> HIDE DEF T
    <3>2. Heeded(T, r.step + 1 - 1 - 0) /\ Progress(T, r.step + 1)
      BY <1>1, <2>1, <3>1, RoundHeeded
    <3> QED BY <1>2, <2>2, <3>2
  <2>3. CASE ~ m.ok
    <3> HIDE DEF T
    <3>1. n.idle = r.idle + 1
      BY <1>2, <2>3
    <3>2. /\ r.idle + 1 = r.step + 1 - 1 \/ Heeded(T, r.step + 1 - 1 - (r.idle + 1))
          /\ Progress(T, r.step + 1)
      BY <1>1, <1>2, <2>1, <3>1, RoundPasses
    <3> QED BY <1>1, <1>2, <3>1, <3>2
  <2> QED BY <2>2, <2>3
<1> HIDE DEF T
<1>7. Talks(T, n)
  BY <1>2, <1>3, <1>4, <1>5, <1>6 DEF Talks
<1> QED BY <1>7 DEF T

(* The host says nothing useful, or calls somebody.                        *)
LEMMA TalkUnused ==
  ASSUME NEW S, NEW r, NEW n, NEW m, Talks(S, r), Unused(r, m, n),
         r.step \in Nat, r.idle \in Nat, r.streak \in Nat
  PROVE  Talks(S, n)
<1>1. /\ IsFiniteSet(S) /\ \A x \in S : x.step \in Nat /\ x.step < r.step
      /\ LastSpoke(S, r.last)
      /\ Cardinality(Trailing(S, r.last)) <= r.streak /\ r.streak < SameSpeakerLimit
      /\ r.idle < r.step
      /\ r.idle = r.step - 1 \/ Heeded(S, r.step - 1 - r.idle)
      /\ Progress(S, r.step)
  BY DEF Talks
<1>2. /\ n.step = r.step + 1 /\ n.last = r.last /\ n.idle = r.idle + 1
      /\ n.streak = r.streak /\ n.idle < NoProgressLimit
  BY DEF Unused
<1>3. /\ r.idle + 1 = r.step + 1 - 1 \/ Heeded(S, r.step + 1 - 1 - (r.idle + 1))
      /\ Progress(S, r.step + 1)
  BY <1>1, <1>2, RoundPasses
<1> QED BY <1>1, <1>2, <1>3 DEF Talks

LEMMA TalkCalled ==
  ASSUME NEW S, NEW r, NEW n, Talks(S, r), Called(r, n)
  PROVE  Talks(S, n)
BY DEF Talks, Called

Talking ==
    room.mode = "free_talk" =>
       \A t \in Requests : Runs(turn[t]) => Talks(Spoken(t), turn[t])

LEMMA StirsTalks ==
  ASSUME Shapes, Serial, Talking, NEW t \in Requests, Stirs(t)
  PROVE  Talking'
<1>1. /\ room' = room /\ \A x \in Requests \ {t} : turn'[x] = turn[x]
      /\ turn[t].step \in Nat /\ turn[t].idle \in Nat /\ turn[t].streak \in Nat
      /\ TurnShape(turn[t])
  BY TurnFields DEF Stirs, Moves, Shapes
<1> SUFFICES ASSUME room.mode = "free_talk", NEW u \in Requests, Runs(turn'[u])
             PROVE  Talks(Spoken(u)', turn'[u])
  BY <1>1 DEF Talking, Runs
<1>2. CASE u # t
  <2>1. turn'[u] = turn[u] /\ Spoken(u)' = Spoken(u)
    BY <1>1, <1>2 DEF Spoken
  <2> QED BY <2>1 DEF Talking
<1>3. CASE u = t
  <2>1. CASE Silent(t)
    BY <1>3, <2>1 DEF Silent, Runs
  <2>2. ASSUME NEW m \in Messages, Opens(t, m)
        PROVE  Talks(Spoken(t)', turn'[t])
    <3>1. /\ turn'[t].history \subseteq Stored'
          /\ turn'[t].step = 1 /\ turn'[t].idle = 0 /\ turn'[t].streak = 0
          /\ Stored' = Stored \cup {m} /\ m.step = 0
          /\ \A o \in Stored : o.turn # t
      BY <1>3, <2>2, OpensWith
    <3>2. Spoken(t)' = {}
      BY <3>1 DEF Spoken
    <3> QED BY <3>1, <3>2, TalkBegins
  <2>3. ASSUME NEW m \in Messages, Replies(t, m)
        PROVE  Talks(Spoken(t)', turn'[t])
    <3>1. /\ Runs(turn[t]) /\ m.turn = t /\ m.step = turn[t].step /\ m.speaker \in Names
          /\ Talked(turn[t], m, turn'[t])
      BY <1>3, <2>3, TurnFields DEF Replies, Answers, Runs, Says
    <3>2. Talks(Spoken(t), turn[t])
      BY <3>1 DEF Talking
    <3>3. m.step > 0 /\ turn'[t].history = turn[t].history \cup {m}
      BY <1>1, <3>1 DEF TurnShape, Talked
    <3>4. Spoken(t)' = Spoken(t) \cup {m}
      BY <3>1, <3>3 DEF Spoken
    <3>5. Talks(Spoken(t) \cup {m}, turn'[t])
      BY <1>1, <3>1, <3>2, TalkGoesOnWith
    <3> QED BY <3>4, <3>5
  <2>4. ASSUME NEW m \in Messages, Rules(t, m)
        PROVE  Talks(Spoken(t)', turn'[t])
    <3>1. /\ Called(turn[t], turn'[t]) \/ Unused(turn[t], m, turn'[t])
          /\ Runs(turn[t]) /\ m.speaker = "moderator"
      BY <1>3, <2>4 DEF Rules, Runs
    <3>2. Talks(Spoken(t), turn[t])
      BY <3>1 DEF Talking
    <3>3. m.speaker \notin Names
      BY <3>1, DialogueAssumption
    <3>4. Spoken(t)' = Spoken(t)
      BY <3>1, <3>3 DEF Spoken, Called, Unused
    <3>5. Talks(Spoken(t), turn'[t])
      BY <1>1, <3>1, <3>2, TalkCalled, TalkUnused
    <3> QED BY <3>4, <3>5
  <2>5. ASSUME NEW m \in Messages
        PROVE  ~ Trails(t, m)
    BY <1>3 DEF Trails, Runs
  <2> QED BY <1>3, <2>1, <2>2, <2>3, <2>4, <2>5 DEF Stirs
<1> QED BY <1>2, <1>3

(* The last SameSpeakerLimit messages are not all of one speaker: if they  *)
(* were, they would be trailing ones.                                      *)
LEMMA RecentDiffer ==
  ASSUME NEW S, NEW r, Talks(S, r), r.streak \in Nat, NEW recent,
         recent = {m \in S : Cardinality({n \in S : n.step > m.step}) < SameSpeakerLimit}
  PROVE  \/ Cardinality(recent) < SameSpeakerLimit
         \/ \E m, n \in recent : m.speaker # n.speaker
<1>1. /\ IsFiniteSet(S) /\ \A x \in S : x.step \in Nat /\ LastSpoke(S, r.last)
      /\ Cardinality(Trailing(S, r.last)) <= r.streak /\ r.streak < SameSpeakerLimit
  BY DEF Talks, LastSpoke
<1>2. SameSpeakerLimit \in Nat \ {0}
  BY DialogueAssumption
<1> DEFINE later(m) == {n \in S : n.step > m.step}
<1>3. ASSUME NEW m \in S
      PROVE  IsFiniteSet(later(m)) /\ Cardinality(later(m)) \in Nat
  BY <1>1, FS_Subset, FS_CardinalityType
<1> SUFFICES ASSUME \A m, n \in recent : m.speaker = n.speaker
             PROVE  Cardinality(recent) < SameSpeakerLimit
  OBVIOUS
<1>4. recent \subseteq Trailing(S, r.last)
  <2>1. SUFFICES ASSUME NEW m \in recent, NEW n \in S, n.step >= m.step
                 PROVE  n.speaker = r.last
    BY DEF Trailing
  <2>2. PICK e \in S : e.speaker = r.last /\ \A x \in S : x.step <= e.step
    BY <1>1, <2>1 DEF LastSpoke
  <2>3. ASSUME NEW x \in S, x.step >= m.step
        PROVE  x \in recent
    <3>1. m \in S /\ Cardinality(later(m)) < SameSpeakerLimit
      BY <2>1
    <3>2. later(x) \subseteq later(m)
      BY <1>1, <2>3, <3>1
    <3>3. Cardinality(later(x)) <= Cardinality(later(m))
      BY <1>3, <3>1, <3>2, FS_Subset
    <3>4. Cardinality(later(x)) \in Nat /\ Cardinality(later(m)) \in Nat
      BY <1>3, <3>1
    <3>5. Cardinality(later(x)) < SameSpeakerLimit
      <4> HIDE DEF later
      <4> QED BY <1>2, <3>1, <3>3, <3>4
    <3> QED BY <3>5
  <2>4. m \in S /\ e.step >= m.step
    BY <1>1, <2>1, <2>2
  <2>5. e \in recent /\ n \in recent
    BY <2>1, <2>2, <2>3, <2>4
  <2> QED BY <2>2, <2>5
<1>5. /\ IsFiniteSet(Trailing(S, r.last)) /\ Cardinality(Trailing(S, r.last)) \in Nat
  BY <1>1, TrailingSubset
<1>6. IsFiniteSet(recent) /\ Cardinality(recent) <= Cardinality(Trailing(S, r.last))
  BY <1>4, <1>5, FS_Subset
<1>7. Cardinality(recent) \in Nat
  BY <1>6, FS_CardinalityType
<1> QED BY <1>1, <1>2, <1>5, <1>6, <1>7

LEMMA TalkingConverges ==
  ASSUME Shapes, Talking
  PROVE  FreeTalkConverges
<1>1. ASSUME NEW t \in Requests, Running(t), room.mode = "free_talk"
      PROVE  Talks(Spoken(t), turn[t]) /\ turn[t].streak \in Nat
  BY <1>1, TurnFields DEF Talking, Running, Runs, Shapes
<1>2. NoMonologue
  <2>1. SUFFICES ASSUME NEW t \in Requests, Running(t), room.mode = "free_talk"
                 PROVE  LET recent ==
                              {m \in Spoken(t) :
                                 Cardinality({n \in Spoken(t) : n.step > m.step})
                                    < SameSpeakerLimit}
                        IN  \/ Cardinality(recent) < SameSpeakerLimit
                            \/ \E m, n \in recent : m.speaker # n.speaker
    BY DEF NoMonologue
  <2> DEFINE recent ==
        {m \in Spoken(t) :
           Cardinality({n \in Spoken(t) : n.step > m.step}) < SameSpeakerLimit}
  <2>2. Talks(Spoken(t), turn[t]) /\ turn[t].streak \in Nat
    BY <1>1, <2>1
  <2>3. \/ Cardinality(recent) < SameSpeakerLimit
        \/ \E m, n \in recent : m.speaker # n.speaker
    BY <2>2, RecentDiffer
  <2> QED BY <2>3
<1>3. NoIdling
  <2>1. SUFFICES ASSUME NEW t \in Requests, Running(t), room.mode = "free_talk",
                        NEW k \in 0 .. room.rounds, k + NoProgressLimit < turn[t].step
                 PROVE  \E m \in Spoken(t) : m.ok /\ m.step \in k + 1 .. k + NoProgressLimit
    BY DEF NoIdling
  <2>2. Progress(Spoken(t), turn[t].step)
    BY <1>1, <2>1 DEF Talks
  <2>3. k \in Nat
    BY RoomFields DEF Shapes
  <2> QED BY <2>1, <2>2, <2>3 DEF Progress
<1> QED BY <1>2, <1>3 DEF FreeTalkConverges
-----------------------------------------------------------------------------
(* The theorems.                                                           *)
DialogueInv ==
    Shapes /\ Queues /\ Serial /\ Hearing /\ ShortContextIsWhole /\ Talking

LEMMA InitDialogueInv ==
  ASSUME Init
  PROVE  DialogueInv
<1>1. /\ room \in Rooms /\ exists = TRUE /\ log = <<>> /\ queue = <<>>
      /\ turn = [t \in Requests |-> Idle] /\ faults = 0
  BY DEF Init
<1>2. Idle \in Turn /\ Idle.state = "idle" /\ Idle.step = 0 /\ Idle.calls = {}
  BY DEF Idle, Turn
<1>3. \A t \in Requests : turn[t] = Idle
  BY <1>1
<1>4. turn \in [Requests -> Turn]
  BY <1>1, <1>2
<1>5. Len(log) = 0 /\ Len(queue) = 0 /\ log \in Seq(Messages) /\ queue \in Seq(Requests)
  BY <1>1
<1>6. \A t \in Requests : ~ Runs(turn[t]) /\ ~ Active(turn[t])
  BY <1>2, <1>3 DEF Runs, Active
<1>7. TurnShape(Idle)
  BY <1>1, <1>2, RoomFields DEF TurnShape, Runs
<1>8. faults \in 0 .. MaxFaults
  BY <1>1, DialogueAssumption
<1>9. Shapes
  BY <1>1, <1>2, <1>3, <1>4, <1>5, <1>7, <1>8 DEF Shapes
<1>10. Queues
  BY <1>5, <1>6 DEF Queues, Queued, Distinct, Waits
<1>11. Serial
  BY <1>5 DEF Serial, Begun, Apart, Unmixed
<1>12. Hearing /\ Talking
  BY <1>6 DEF Hearing, Talking
<1>13. ShortContextIsWhole
  BY <1>6 DEF ShortContextIsWhole, Running, Runs
<1> QED BY <1>9, <1>10, <1>11, <1>12, <1>13 DEF DialogueInv

LEMMA DeleteDialogueInv ==
  ASSUME DialogueInv, Delete
  PROVE  DialogueInv'
<1>1. /\ exists' = FALSE /\ log' = <<>>
      /\ room' = room /\ queue' = queue /\ turn' = turn /\ faults' = faults
  BY DEF Delete
<1>2. Len(log') = 0 /\ log' \in Seq(Messages)
  BY <1>1
<1>3. Shapes'
  BY <1>1, <1>2 DEF DialogueInv, Shapes, TurnShape, Runs, Parallel, Behind
<1>4. Queues'
  BY <1>1 DEF DialogueInv, Queues
<1>5. Serial'
  BY <1>2 DEF Serial, Begun, Apart, Unmixed
<1>6. Hearing'
  <2>1. Stored' = {}
    BY <1>1 DEF Stored
  <2>2. ASSUME NEW t \in Requests
        PROVE  Said(t)' = {}
    BY <2>1 DEF Said
  <2> QED BY <1>1, <2>2 DEF DialogueInv, Hearing, Hears, Parallel
<1>7. Talking'
  BY <1>1 DEF DialogueInv, Talking, Spoken
<1>8. ShortContextIsWhole'
  BY <1>1 DEF ShortContextIsWhole
<1> QED BY <1>3, <1>4, <1>5, <1>6, <1>7, <1>8 DEF DialogueInv

LEMMA NextDialogueInv ==
  ASSUME DialogueInv, [Next]_vars
  PROVE  DialogueInv'
<1>1. Shapes /\ Queues /\ Serial /\ Hearing /\ ShortContextIsWhole /\ Talking
  BY DEF DialogueInv
<1>2. ASSUME NEW t \in Requests, Stirs(t), Queues'
      PROVE  DialogueInv'
  BY <1>1, <1>2, StirsShapes, StirsSerial, StirsHears, StirsWhole, StirsTalks
     DEF DialogueInv
<1>3. CASE Next
  <2>1. Queues' /\ (Delete \/ \E t \in Requests : Stirs(t))
    BY <1>1, <1>3, StepStirs
  <2> QED BY <1>2, <2>1, DeleteDialogueInv
<1>4. CASE UNCHANGED vars
  <2>1. /\ room' = room /\ exists' = exists /\ log' = log
        /\ queue' = queue /\ turn' = turn /\ faults' = faults
    BY <1>4 DEF vars
  <2>2. Shapes' /\ Queues'
    BY <1>1, <2>1 DEF Shapes, TurnShape, Runs, Parallel, Behind, Queues
  <2>3. Serial'
    BY <1>1, <2>1 DEF Serial, Begun, Apart, Unmixed, Behind, Parallel
  <2>4. Stored' = Stored
    BY <2>1 DEF Stored
  <2>5. Hearing'
    BY <1>1, <2>1, <2>4 DEF Hearing, Hears, Said, Parallel
  <2>6. ShortContextIsWhole'
    BY <1>1, <2>1, <2>4 DEF ShortContextIsWhole, Whole, Running
  <2>7. Talking'
    BY <1>1, <2>1 DEF Talking, Spoken
  <2> QED BY <2>2, <2>3, <2>5, <2>6, <2>7 DEF DialogueInv
<1> QED BY <1>3, <1>4

(* What every state of a room satisfies: the shapes of its turns, its      *)
(* queue, the order of its messages, and what was heard of them.           *)
THEOREM DialogueInductive == Spec => []DialogueInv
<1>1. Init => DialogueInv
  BY InitDialogueInv
<1>2. DialogueInv /\ [Next]_vars => DialogueInv'
  BY NextDialogueInv
<1> QED BY <1>1, <1>2, PTL DEF Spec

(* Rooms keep their types: the turns that wait or run are those of the     *)
(* lock's queue, each once, and no turn has more rounds than its room      *)
(* allows.                                                                 *)
THEOREM TypeCorrect == Spec => []TypeOK
<1>1. DialogueInv => TypeOK
  <2> SUFFICES ASSUME DialogueInv PROVE TypeOK
    OBVIOUS
  <2>1. Shapes /\ Queues
    BY DEF DialogueInv
  <2>2. queue \in Seq(Requests) /\ \A t \in Requests : Active(turn[t]) <=> Waits(queue, t)
    BY <2>1 DEF Queues, Queued
  <2>3. DOMAIN queue = 1 .. Len(queue)
    BY <2>2
  <2> QED BY <2>1, <2>2, <2>3 DEF TypeOK, Shapes, TurnShape, Active, Waits
<1> QED BY <1>1, DialogueInductive, PTL

(* The turns of a room are serialised by its lock (engine.py:113): however *)
(* many requests there are, however they are cancelled, and wherever the   *)
(* storage fails, the messages of two turns mix only when a turn of        *)
(* parallel thoughts broke off and left calls behind.                      *)
THEOREM TurnsStayApart == Spec => []TurnsDoNotMix
<1>1. DialogueInv => TurnsDoNotMix
  <2> SUFFICES ASSUME DialogueInv PROVE TurnsDoNotMix
    OBVIOUS
  <2>1. Unmixed /\ log \in Seq(Messages)
    BY DEF DialogueInv, Serial, Shapes
  <2>2. DOMAIN log = 1 .. Len(log)
    BY <2>1
  <2> QED BY <2>1, <2>2 DEF TurnsDoNotMix, Unmixed, Behind, Parallel
<1> QED BY <1>1, DialogueInductive, PTL

(* Who speaks has heard the others (engine.py:145-235), for every number   *)
(* of participants and rounds.                                             *)
THEOREM PeersHeard == Spec => []PeersAreHeard
<1>1. DialogueInv => PeersAreHeard
  <2> SUFFICES ASSUME DialogueInv, NEW t \in Requests, Running(t)
               PROVE  IF room.mode = "parallel_think"
                      THEN /\ {m \in Said(t) : m.step < turn[t].step} \subseteq turn[t].history
                           /\ \A m \in turn[t].history : m.turn = t => m.step < turn[t].step
                      ELSE Said(t) \subseteq turn[t].history
    BY DEF PeersAreHeard
  <2>1. Hears(t) /\ turn[t].step \in Nat
    BY TurnFields DEF DialogueInv, Hearing, Running, Runs, Shapes
  <2> QED BY <2>1 DEF Hears, Parallel
<1> QED BY <1>1, DialogueInductive, PTL

(* As long as a room's messages are within the limit of the context and    *)
(* all could be stored, every call is made with all of them                *)
(* (engine.py:145).                                                        *)
THEOREM ShortContextsWhole == Spec => []ShortContextIsWhole
<1>1. DialogueInv => ShortContextIsWhole
  BY DEF DialogueInv
<1> QED BY <1>1, DialogueInductive, PTL

(* A free talk goes on neither when one participant has spoken             *)
(* SameSpeakerLimit times in a row nor when NoProgressLimit rounds had no  *)
(* answer (engine.py:301-322), whatever its host decides and for every     *)
(* value of the two limits.                                                *)
THEOREM TalksConverge == Spec => []FreeTalkConverges
<1>1. DialogueInv => FreeTalkConverges
  BY TalkingConverges DEF DialogueInv
<1> QED BY <1>1, DialogueInductive, PTL
=============================================================================
