----------------------- MODULE MemoryWritebackProofs -----------------------
(***************************************************************************)
(* Proofs about MemoryWriteback, for any number of turns, sessions, limits *)
(* and failures.  With any number of gateway processes: type correctness,  *)
(* and what keeps a turn from being buffered twice.  With one: that        *)
(* accepted turns are kept, and the refinement of TurnPromise.             *)
(***************************************************************************)
EXTENDS MemoryWriteback, TLAPS

-----------------------------------------------------------------------------
(* Sequences of messages.                                                  *)
LEMMA PreparedFacts ==
    ASSUME NEW t \in Turns, NEW prompt \in BOOLEAN
    PROVE  /\ Prepared(t, prompt) \in Seq(Message)
           /\ \A m \in Elements(Prepared(t, prompt)) : m.turn = t
           /\ Elements(Prepared(t, prompt)) \subseteq Message
<1> DEFINE first == IF prompt THEN <<[turn |-> t, part |-> "prompt"]>> ELSE <<>>
           second == IF t \in Blank THEN <<>> ELSE <<[turn |-> t, part |-> "text"]>>
<1>1. first \in Seq(Message) /\ second \in Seq(Message)
  <2>1. /\ [turn |-> t, part |-> "prompt"] \in Message
        /\ [turn |-> t, part |-> "text"] \in Message
    BY DEF Message
  <2> QED
    BY <2>1
<1>2. /\ \A k \in DOMAIN first : first[k].turn = t
      /\ \A k \in DOMAIN second : second[k].turn = t
  OBVIOUS
<1> HIDE DEF first, second
<1>3. first \o second \in Seq(Message)
  BY <1>1
<1>4. \A k \in DOMAIN (first \o second) : (first \o second)[k].turn = t
  BY <1>1, <1>2
<1>5. Prepared(t, prompt) = first \o second
  BY DEF Prepared, first, second
<1> QED
  BY <1>3, <1>4, <1>5 DEF Elements

LEMMA SecondPart ==
    ASSUME NEW s \in Seq(Message), NEW p \in Seq(Message),
           NEW k \in DOMAIN (s \o p), k > Len(s)
    PROVE  (s \o p)[k] \in Elements(p)
<1>1. k - Len(s) \in DOMAIN p
  OBVIOUS
<1>2. (s \o p)[k] = p[k - Len(s)]
  OBVIOUS
<1> QED
  BY <1>1, <1>2 DEF Elements

LEMMA ElementsOfConcat ==
    ASSUME NEW s \in Seq(Message), NEW p \in Seq(Message)
    PROVE  /\ s \o p \in Seq(Message)
           /\ Elements(s \o p) = Elements(s) \union Elements(p)
<1>1. \A k \in DOMAIN s : k \in DOMAIN (s \o p) /\ (s \o p)[k] = s[k]
  OBVIOUS
<1>2. \A k \in DOMAIN p : Len(s) + k \in DOMAIN (s \o p) /\ (s \o p)[Len(s) + k] = p[k]
  OBVIOUS
<1>3. ASSUME NEW k \in DOMAIN (s \o p)
      PROVE  (s \o p)[k] \in Elements(s) \union Elements(p)
  <2>1. CASE k <= Len(s)
    BY <2>1 DEF Elements
  <2>2. CASE ~ (k <= Len(s))
    BY <2>2, SecondPart
  <2> QED
    BY <2>1, <2>2
<1>4. \A m \in Elements(s) \union Elements(p) : m \in Elements(s \o p)
  BY <1>1, <1>2 DEF Elements
<1>5. \A m \in Elements(s \o p) : m \in Elements(s) \union Elements(p)
  BY <1>3 DEF Elements
<1> QED
  BY <1>4, <1>5

-----------------------------------------------------------------------------
(* Type correctness.                                                       *)
LEMMA Busy ==
    ASSUME TypeOK, NEW w \in Workers, job[w].step \in Steps
    PROVE  /\ job[w] \in Job /\ ~ Free(w)
           /\ PreparedBy(w) \in Seq(Message)
           /\ Elements(PreparedBy(w)) \subseteq Message
           /\ \A m \in Elements(PreparedBy(w)) : m.turn = job[w].turn
<1>1. job[w] \in Job /\ ~ Free(w)
  BY DEF TypeOK, NoJob, Steps, Free
<1>2. job[w].turn \in Turns /\ job[w].prompt \in BOOLEAN
  BY <1>1 DEF Job
<1> QED
  BY <1>1, <1>2, PreparedFacts DEF PreparedBy

(* How the actions change the job of a process.                            *)
LEMMA JobMoves ==
    ASSUME TypeOK, NEW w \in Workers, job[w] \in Job
    PROVE  (\/ \E step \in Steps : Proceed(w, step)
            \/ \E j \in Job \union {NoJob} : job' = [job EXCEPT ![w] = j])
              => job' \in [Workers -> Job \union {NoJob}]
<1>1. job \in [Workers -> Job \union {NoJob}]
  BY DEF TypeOK
<1>2. \A step \in Steps : [job[w] EXCEPT !.step = step] \in Job
  BY DEF Job
<1>3. ASSUME NEW step \in Steps, Proceed(w, step)
      PROVE  job' \in [Workers -> Job \union {NoJob}]
  <2>1. job' = [job EXCEPT ![w] = [job[w] EXCEPT !.step = step]]
    BY <1>3 DEF Proceed
  <2> HIDE DEF Job
  <2> QED
    BY <1>1, <1>2, <2>1
<1>4. ASSUME NEW j \in Job \union {NoJob}, job' = [job EXCEPT ![w] = j]
      PROVE  job' \in [Workers -> Job \union {NoJob}]
  BY <1>1, <1>4
<1> QED
  BY <1>3, <1>4

LEMMA AnswerType ==
    ASSUME TypeOK, NEW w \in Workers, job[w] \in Job,
           NEW answer \in {"accepted", "skipped"}, NEW acknowledged \in SUBSET Message,
           Answer(w, answer, acknowledged)
    PROVE  /\ job' \in [Workers -> Job \union {NoJob}]
           /\ receipt' \in [Turns -> SUBSET Message]
           /\ told' \in [Turns -> SUBSET {"accepted", "skipped"}]
<1>1. job[w].turn \in Turns
  BY DEF Job
<1> QED
  BY <1>1 DEF Answer, TypeOK

LEMMA InitType == Init => TypeOK
  BY MemoryAssumption DEF Init, TypeOK

LEMMA NextType == TypeOK /\ [Next]_vars => TypeOK'
<1> SUFFICES ASSUME TypeOK, [Next]_vars PROVE TypeOK'
  OBVIOUS
<1> USE MemoryAssumption
<1>1. ASSUME NEW t \in Turns, TurnStart(t) PROVE TypeOK'
  BY <1>1 DEF TurnStart, TypeOK
<1>2. ASSUME NEW w \in Workers, NEW t \in Turns, Writeback(w, t) PROVE TypeOK'
  BY <1>2 DEF Writeback, TypeOK, Job, Steps
<1>3. ASSUME NEW w \in Workers, ListKeys(w) \/ SweepNext(w) PROVE TypeOK'
  <2>1. job[w] \in Job
    BY <1>3, Busy DEF ListKeys, SweepNext, At, Steps
  <2>2. CASE ListKeys(w)
    <3> DEFINE j == [job[w] EXCEPT !.step = "sweep",
                                   !.keys = {b \in Buffers : buf[b] # NoBuffer}]
    <3>1. j \in Job
      BY <2>1 DEF Job, Steps
    <3>2. job' = [job EXCEPT ![w] = j]
      BY <2>2 DEF ListKeys
    <3> HIDE DEF j
    <3> QED
      BY <2>2, <2>1, <3>1, <3>2, JobMoves DEF ListKeys, TypeOK
  <2>3. CASE SweepNext(w)
    <3>1. CASE Proceed(w, "consume")
      BY <3>1, <2>3, <2>1, JobMoves DEF SweepNext, TypeOK, Steps
    <3>2. ASSUME NEW b \in job[w].keys, NEW next \in Buffers, NEW step \in Steps,
                 job' = [job EXCEPT ![w].keys = @ \ {b}, ![w].buffer = next,
                                    ![w].step = step]
          PROVE  TypeOK'
      <4> DEFINE j == [job[w] EXCEPT !.keys = @ \ {b}, !.buffer = next, !.step = step]
      <4>1. j \in Job
        BY <2>1 DEF Job
      <4>2. job' = [job EXCEPT ![w] = j]
        BY <3>2
      <4> HIDE DEF j
      <4> QED
        BY <2>3, <2>1, <4>1, <4>2, JobMoves DEF SweepNext, TypeOK
    <3>3. /\ \A b \in job[w].keys : b \in Buffers
          /\ job[w].buffer \in Buffers /\ "state" \in Steps /\ "sweep" \in Steps
      BY <2>1 DEF Job, Steps
    <3> QED
      BY <3>1, <3>2, <3>3, <2>3 DEF SweepNext
  <2> QED
    BY <1>3, <2>2, <2>3
<1>4. ASSUME NEW w \in Workers, Consume(w) \/ Forget(w) PROVE TypeOK'
  <2>1. job[w] \in Job
    BY <1>4, Busy DEF Consume, Forget, At, Steps
  <2>2. CASE Consume(w)
    <3>1. CASE job[w].turn \in prompts
      <4>1. [job[w] EXCEPT !.step = "forget", !.prompt = TRUE] \in Job
        BY <2>1 DEF Job, Steps
      <4>2. job' = [job EXCEPT ![w] = [job[w] EXCEPT !.step = "forget", !.prompt = TRUE]]
        BY <3>1, <2>2 DEF Consume
      <4>3. job' \in [Workers -> Job \union {NoJob}]
        BY <4>1, <4>2 DEF TypeOK
      <4> QED
        BY <2>2, <4>3 DEF Consume, TypeOK
    <3>2. CASE job[w].turn \notin prompts
      BY <3>2, <2>2, <2>1, JobMoves DEF Consume, TypeOK, Steps
    <3> QED
      BY <3>1, <3>2
  <2>3. CASE Forget(w)
    BY <2>3, <2>1, JobMoves DEF Forget, TypeOK, Steps
  <2> QED
    BY <1>4, <2>2, <2>3
<1>5. ASSUME NEW w \in Workers, Check(w) \/ Reserve(w) PROVE TypeOK'
  <2>1. job[w] \in Job /\ job[w].turn \in Turns
    BY <1>5, Busy DEF Check, Reserve, At, Steps, Job
  <2>2. CASE Check(w)
    <3>1. job' \in [Workers -> Job \union {NoJob}]
      BY <2>2, <2>1, JobMoves DEF Check, Steps
    <3> QED
      BY <2>2, <3>1 DEF Check, TypeOK
  <2>3. CASE Reserve(w)
    <3>1. /\ job' \in [Workers -> Job \union {NoJob}]
          /\ receipt' \in [Turns -> SUBSET Message]
          /\ told' \in [Turns -> SUBSET {"accepted", "skipped"}]
      <4>1. CASE PreparedBy(w) = <<>>
        <5>1. Answer(w, "skipped", {}) /\ {} \in SUBSET Message
          BY <2>3, <4>1 DEF Reserve
        <5> QED
          BY <5>1, <2>1, AnswerType
      <4>2. CASE PreparedBy(w) # <<>>
        BY <2>3, <4>2, <2>1, JobMoves DEF Reserve, Steps, TypeOK
      <4> QED
        BY <4>1, <4>2
    <3> QED
      BY <2>3, <3>1, <2>1 DEF Reserve, TypeOK
  <2> QED
    BY <1>5, <2>2, <2>3
<1>6. ASSUME NEW w \in Workers, AppendTurn(w) PROVE TypeOK'
  <2>1. job[w] \in Job /\ PreparedBy(w) \in Seq(Message)
    BY <1>6, Busy DEF AppendTurn, At, Steps
  <2>2. messages' \in [Buffers -> Seq(Message)]
    BY <1>6, <2>1, ElementsOfConcat DEF AppendTurn, TypeOK, Job
  <2>3. job' \in [Workers -> Job \union {NoJob}]
    BY <1>6, <2>1, JobMoves DEF AppendTurn, Steps
  <2> QED
    BY <1>6, <2>2, <2>3 DEF AppendTurn, TypeOK
<1>7. ASSUME NEW w \in Workers, Count(w) \/ Upsert(w) PROVE TypeOK'
  <2>1. job[w] \in Job /\ PreparedBy(w) \in Seq(Message)
    BY <1>7, Busy DEF Count, Upsert, At, Steps
  <2>2. Len(PreparedBy(w)) \in Nat
    BY <2>1
  <2>3. job[w].turn \in Turns /\ BufferOf[job[w].turn] \in Buffers
    BY <2>1 DEF Job
  <2>4. CASE Count(w)
    <3> DEFINE j == [job[w] EXCEPT !.step = "upsert", !.seen = buf[BufferOf[job[w].turn]]]
    <3>1. j \in Job
      BY <2>1, <2>3 DEF TypeOK, Job, Steps
    <3>2. job' = [job EXCEPT ![w] = j]
      BY <2>4 DEF Count
    <3> HIDE DEF j
    <3> QED
      BY <2>4, <2>1, <3>1, <3>2, JobMoves DEF Count, TypeOK
  <2>5. CASE Upsert(w)
    <3>1. job' \in [Workers -> Job \union {NoJob}]
      BY <2>5, <2>1, JobMoves DEF Upsert, Steps
    <3>2. \A row \in BufferRow, old \in BOOLEAN : [row EXCEPT !.old = old] \in BufferRow
      BY DEF BufferRow
    <3>3. ASSUME NEW size \in Nat
          PROVE  /\ [turn_count |-> 1, content_chars |-> size, old |-> FALSE] \in BufferRow
                 /\ job[w].seen # NoBuffer =>
                      [turn_count    |-> job[w].seen.turn_count + 1,
                       content_chars |-> job[w].seen.content_chars + size,
                       old           |-> job[w].seen.old] \in BufferRow
      BY <2>1 DEF BufferRow, Job
    <3>4. /\ buf[BufferOf[job[w].turn]] # NoBuffer =>
               buf[BufferOf[job[w].turn]].old \in BOOLEAN
      BY <2>3 DEF TypeOK, BufferRow
    <3>5. buf' \in [Buffers -> BufferRow \union {NoBuffer}]
      BY <2>5, <2>2, <2>3, <3>2, <3>3, <3>4 DEF Upsert, TypeOK
    <3> QED
      BY <2>5, <3>1, <3>5 DEF Upsert, TypeOK
  <2> QED
    BY <1>7, <2>4, <2>5
<1>8. ASSUME NEW w \in Workers, Decide(w) PROVE TypeOK'
  <2>1. /\ job[w] \in Job /\ Elements(PreparedBy(w)) \subseteq Message
        /\ job[w].turn \in Turns /\ BufferOf[job[w].turn] \in Buffers
    BY <1>8, Busy DEF Decide, At, Steps, Job
  <2>2. CASE Accept(w)
    <3>1. /\ job' \in [Workers -> Job \union {NoJob}]
          /\ receipt' \in [Turns -> SUBSET Message]
          /\ told' \in [Turns -> SUBSET {"accepted", "skipped"}]
      BY <2>1, <2>2, AnswerType DEF Accept
    <3> QED
      BY <1>8, <3>1 DEF Decide, TypeOK
  <2>3. CASE ~ Accept(w)
    <3>1. /\ job' = [job EXCEPT ![w].step = "state",
                                ![w].buffer = BufferOf[job[w].turn],
                                ![w].enqueued = TRUE]
          /\ UNCHANGED <<prompts, dedupe, messages, buf, items, receipt, told, faults>>
      BY <1>8, <2>3 DEF Decide
    <3> DEFINE j == [job[w] EXCEPT !.step = "state", !.buffer = BufferOf[job[w].turn],
                                   !.enqueued = TRUE]
    <3>2. j \in Job
      BY <2>1 DEF Job, Steps
    <3>3. job' = [job EXCEPT ![w] = j]
      BY <3>1
    <3> HIDE DEF j
    <3> QED
      BY <3>1, <2>1, <3>2, <3>3, JobMoves DEF TypeOK
  <2> QED
    BY <2>2, <2>3
<1>9. ASSUME NEW w \in Workers, FlushState(w) \/ FlushMessages(w) PROVE TypeOK'
  <2>1. job[w] \in Job
    BY <1>9, Busy DEF FlushState, FlushMessages, At, Steps
  <2>2. CASE FlushState(w)
    <3>1. job' \in [Workers -> Job \union {NoJob}]
      BY <2>2, <2>1, JobMoves DEF FlushState, Steps
    <3> QED
      BY <2>2, <3>1 DEF FlushState, TypeOK
  <2>3. CASE FlushMessages(w)
    <3>1. /\ messages[job[w].buffer] \in Seq(Message)
          /\ ChunkNos(messages[job[w].buffer]) \in SUBSET Int
      BY <2>1 DEF ChunkNos, ChunkNo, TypeOK, Job
    <3> QED
      <4> DEFINE text == messages[job[w].buffer]
                 j == [job[w] EXCEPT !.step = IF text = <<>> THEN "delete" ELSE "insert",
                                     !.text = text, !.left = ChunkNos(text)]
      <4>1. j \in Job
        BY <2>1, <3>1 DEF Job, Steps
      <4>2. job' = [job EXCEPT ![w] = j]
        BY <2>3 DEF FlushMessages
      <4> HIDE DEF j
      <4> QED
        BY <2>3, <2>1, <4>1, <4>2, JobMoves DEF FlushMessages, TypeOK
  <2> QED
    BY <1>9, <2>2, <2>3
<1>10. ASSUME NEW w \in Workers, Insert(w) PROVE TypeOK'
  <2>1. job[w] \in Job
    BY <1>10, Busy DEF Insert, At, Steps
  <2>2. \A i \in Int : Chunk(job[w].text, i) \subseteq Message
    BY <2>1 DEF Chunk, Job
  <2>3. PICK i \in job[w].left :
          /\ items' = items \union {Chunk(job[w].text, i)}
          /\ job' = [job EXCEPT ![w].left = @ \ {i},
                                ![w].step = IF job[w].left = {i} THEN "delete" ELSE "insert"]
    BY <1>10 DEF Insert
  <2>4. i \in Int
    BY <2>1 DEF Job
  <2>5. items' \subseteq SUBSET Message
    BY <2>2, <2>3, <2>4 DEF TypeOK
  <2>6. job' \in [Workers -> Job \union {NoJob}]
    <3> DEFINE j == [job[w] EXCEPT !.left = @ \ {i},
                       !.step = IF job[w].left = {i} THEN "delete" ELSE "insert"]
    <3>1. j \in Job
      BY <2>1 DEF Job, Steps
    <3>2. job' = [job EXCEPT ![w] = j]
      BY <2>3
    <3> HIDE DEF j
    <3> QED
      BY <2>1, <3>1, <3>2, JobMoves
  <2> QED
    BY <1>10, <2>5, <2>6 DEF Insert, TypeOK
<1>11. ASSUME NEW w \in Workers, Delete(w) PROVE TypeOK'
  <2>1. /\ job[w] \in Job /\ Elements(PreparedBy(w)) \subseteq Message
        /\ job[w].buffer \in Buffers
    BY <1>11, Busy DEF Delete, At, Steps, Job
  <2>2. /\ job' \in [Workers -> Job \union {NoJob}]
        /\ receipt' \in [Turns -> SUBSET Message]
        /\ told' \in [Turns -> SUBSET {"accepted", "skipped"}]
    <3>1. CASE Accept(w)
      BY <2>1, <3>1, AnswerType DEF Accept
    <3>2. CASE job' = [job EXCEPT ![w].step = "sweep", ![w].text = <<>>]
               /\ UNCHANGED <<receipt, told>>
      <4>1. <<>> \in Seq(Message)
        OBVIOUS
      <4>2. [job[w] EXCEPT !.step = "sweep", !.text = <<>>] \in Job
        BY <2>1, <4>1 DEF Job, Steps
      <4>3. job' = [job EXCEPT ![w] = [job[w] EXCEPT !.step = "sweep", !.text = <<>>]]
        BY <3>2
      <4> QED
        BY <3>2, <4>2, <4>3 DEF TypeOK
    <3> QED
      BY <1>11, <3>1, <3>2 DEF Delete
  <2>3. /\ buf' \in [Buffers -> BufferRow \union {NoBuffer}]
        /\ messages' \in [Buffers -> Seq(Message)]
    BY <1>11, <2>1 DEF Delete, TypeOK
  <2> QED
    BY <1>11, <2>2, <2>3 DEF Delete, TypeOK
<1>12. ASSUME NEW w \in Workers, Fail(w) PROVE TypeOK'
  BY <1>12 DEF Fail, TypeOK
<1>13. ASSUME NEW b \in Buffers, Age(b) PROVE TypeOK'
  BY <1>13 DEF Age, TypeOK, BufferRow
<1>14. CASE UNCHANGED vars
  BY <1>14 DEF vars, TypeOK
<1> QED
  BY <1>1, <1>2, <1>3, <1>4, <1>5, <1>6, <1>7, <1>8, <1>9, <1>10, <1>11, <1>12,
     <1>13, <1>14 DEF Next, Serve

(* The tables and the writebacks in progress have their types, whatever    *)
(* several processes do to each other.                                     *)
THEOREM TypeCorrect == Spec => []TypeOK
  BY InitType, NextType, PTL DEF Spec

-----------------------------------------------------------------------------
(* One gateway process.                                                    *)
OneWorker == \A v, w \in Workers : v = w

FlushSteps == {"state", "messages", "insert", "delete"}

(* What is in a buffer belongs there, and is of turns that were taken.     *)
Placed ==
    \A b \in Buffers : \A m \in Elements(messages[b]) :
       m.turn \in dedupe /\ BufferOf[m.turn] = b

StoredTaken == \A m \in Stored : m.turn \in dedupe

(* A turn is reserved once and appended before anything of it is kept; a   *)
(* flush deletes a buffer when all of it has been inserted.                *)
Orderly(w) ==
    /\ job[w].enqueued => job[w].step \in FlushSteps
    /\ At(w, "reserve") => job[w].turn \notin dedupe
    /\ At(w, "append") => /\ job[w].turn \in dedupe
                          /\ PreparedBy(w) # <<>>
                          /\ \A m \in Kept : m.turn # job[w].turn
    /\ (\/ job[w].step \in {"count", "upsert", "decide"}
        \/ job[w].step \in FlushSteps /\ job[w].enqueued)
         => Elements(PreparedBy(w)) \subseteq Kept
    /\ At(w, "state") => buf[job[w].buffer] # NoBuffer
    /\ At(w, "insert") =>
         /\ job[w].text = messages[job[w].buffer]
         /\ \A k \in DOMAIN job[w].text :
               job[w].text[k] \in Stored \/ ChunkNo(k) \in job[w].left
    /\ At(w, "delete") => Elements(messages[job[w].buffer]) \subseteq Stored

OneInv ==
    /\ TypeOK /\ Placed /\ StoredTaken /\ AcceptedIsKept
    /\ \A w \in Workers : Free(w) \/ Orderly(w)

LEMMA InitOne == Init => OneInv
<1> SUFFICES ASSUME Init PROVE OneInv
  OBVIOUS
<1>1. Stored = {}
  BY DEF Init, Stored
<1>2. \A b \in Buffers : Elements(messages[b]) = {}
  BY DEF Init, Elements
<1> QED
  BY <1>1, <1>2, InitType
     DEF Init, OneInv, Placed, StoredTaken, AcceptedIsKept, Free

(* Steps that leave the tables of texts and keys, and the answers, alone.  *)
Quiet == UNCHANGED <<dedupe, messages, items, receipt>>

LEMMA QuietKeeps ==
    ASSUME OneInv, Quiet
    PROVE  /\ Placed' /\ StoredTaken' /\ AcceptedIsKept'
           /\ Stored' = Stored /\ Kept' = Kept
  BY DEF OneInv, Quiet, Placed, StoredTaken, AcceptedIsKept, Stored, Kept

(* Where w leaves the job as it is but for its step.                       *)
LEMMA Proceeds ==
    ASSUME OneInv, NEW w \in Workers, job[w].step \in Steps,
           NEW step \in Steps, Proceed(w, step)
    PROVE  /\ job'[w] = [job[w] EXCEPT !.step = step]
           /\ job'[w].step = step
           /\ job'[w].turn = job[w].turn /\ job'[w].prompt = job[w].prompt
           /\ job'[w].buffer = job[w].buffer /\ job'[w].enqueued = job[w].enqueued
           /\ PreparedBy(w)' = PreparedBy(w)
<1>1. job[w] \in Job /\ job \in [Workers -> Job \union {NoJob}]
  BY Busy DEF OneInv, TypeOK
<1>2. job'[w] = [job[w] EXCEPT !.step = step]
  BY <1>1 DEF Proceed
<1>3. /\ job'[w].step = step
      /\ job'[w].turn = job[w].turn /\ job'[w].prompt = job[w].prompt
      /\ job'[w].buffer = job[w].buffer /\ job'[w].enqueued = job[w].enqueued
  BY <1>1, <1>2 DEF Job
<1> QED
  BY <1>2, <1>3 DEF PreparedBy

(* When there is one process it is enough to look at its own job.          *)
LEMMA OneJob ==
    ASSUME OneWorker, NEW w \in Workers, TypeOK', Placed', StoredTaken',
           AcceptedIsKept', Free(w)' \/ Orderly(w)'
    PROVE  OneInv'
<1>1. \A v \in Workers : v = w
  BY DEF OneWorker
<1>2. \A v \in Workers : Free(v)' \/ Orderly(v)'
  BY <1>1
<1> QED
  BY <1>2 DEF OneInv

(* What a busy process works on, before and after a step.                  *)
LEMMA AtWork ==
    ASSUME OneInv, NEW w \in Workers, job[w].step \in Steps
    PROVE  /\ job[w] \in Job /\ job \in [Workers -> Job \union {NoJob}]
           /\ Orderly(w)
           /\ job[w].step \notin FlushSteps => job[w].enqueued = FALSE
<1>1. job[w] \in Job /\ ~ Free(w)
  BY Busy DEF OneInv
<1>2. Orderly(w)
  BY <1>1 DEF OneInv
<1>3. job[w].enqueued \in BOOLEAN
  BY <1>1 DEF Job
<1> QED
  BY <1>1, <1>2, <1>3 DEF OneInv, TypeOK, Orderly


(* Steps at which nothing is asked of a job that is not flushing.          *)
LEMMA Aside ==
    ASSUME NEW w \in Workers, job'[w].enqueued = FALSE,
           job'[w].step \in {"keys", "sweep", "consume", "forget", "check"}
    PROVE  Orderly(w)'
  BY DEF Orderly, At, FlushSteps

(* Requests, the sweep's look at a buffer, consume_turn and the look-up of *)
(* the turn's key.                                                         *)
LEMMA LooksKeep ==
    ASSUME OneInv, TypeOK', OneWorker, NEW w \in Workers,
           \/ \E t \in Turns : Writeback(w, t)
           \/ ListKeys(w) \/ SweepNext(w) \/ Consume(w) \/ Forget(w) \/ Check(w)
    PROVE  OneInv'
<1>1. Quiet
  BY DEF Quiet, Writeback, ListKeys, SweepNext, Consume, Forget, Check
<1>2. job \in [Workers -> Job \union {NoJob}]
  BY DEF OneInv, TypeOK
<1>3. ASSUME NEW t \in Turns, Writeback(w, t) PROVE Orderly(w)'
  <2>1. job'[w].step \in {"check", "keys"} /\ job'[w].enqueued = FALSE
    BY <1>3, <1>2 DEF Writeback
  <2> QED
    BY <2>1, Aside
<1>4. CASE ListKeys(w)
  <2>1. job[w] \in Job /\ job[w].enqueued = FALSE
    BY <1>4, AtWork DEF ListKeys, At, Steps, FlushSteps
  <2>2. job'[w].step = "sweep" /\ job'[w].enqueued = FALSE
    BY <1>4, <1>2, <2>1 DEF ListKeys, Job
  <2>3. Orderly(w)'
    BY <2>2, Aside
  <2> QED
    BY <1>1, <2>3, QuietKeeps, OneJob
<1>5. CASE SweepNext(w)
  <2>1. job[w] \in Job /\ job[w].step = "sweep" /\ job[w].enqueued = FALSE
    BY <1>5, AtWork DEF SweepNext, At, Steps, FlushSteps
  <2>2. ASSUME Proceed(w, "consume") PROVE Orderly(w)'
    <3>1. job'[w].step = "consume" /\ job'[w].enqueued = FALSE
      BY <2>1, <2>2, Proceeds DEF Steps
    <3> QED
      BY <3>1, Aside
  <2>3. ASSUME NEW b, NEW next, NEW step \in {"state", "sweep"},
               job' = [job EXCEPT ![w].keys = @ \ {b}, ![w].buffer = next, ![w].step = step],
               step = "state" => buf[next] # NoBuffer
        PROVE  Orderly(w)'
    <3>1. job'[w] = [job[w] EXCEPT !.keys = @ \ {b}, !.buffer = next, !.step = step]
      BY <1>2, <2>3
    <3>2. job'[w].step = step /\ job'[w].buffer = next /\ job'[w].enqueued = FALSE
      BY <3>1, <2>1 DEF Job
    <3>3. buf' = buf
      BY <1>5 DEF SweepNext
    <3> QED
      BY <3>2, <3>3, <2>3 DEF Orderly, At, FlushSteps
  <2>4. Orderly(w)'
    <3>1. CASE Proceed(w, "consume")
      BY <2>2, <3>1
    <3>2. ASSUME NEW b \in job[w].keys, NEW expired \in BOOLEAN,
                 expired => buf[b] # NoBuffer,
                 job' = [job EXCEPT ![w].keys = @ \ {b},
                                    ![w].buffer = IF expired THEN b ELSE @,
                                    ![w].step = IF expired THEN "state" ELSE "sweep"]
          PROVE  Orderly(w)'
      <4>1. CASE expired
        <5>1. job' = [job EXCEPT ![w].keys = @ \ {b}, ![w].buffer = b, ![w].step = "state"]
          BY <3>2, <4>1
        <5> QED
          BY <2>3, <3>2, <4>1, <5>1
      <4>2. CASE ~ expired
        <5>1. job' = [job EXCEPT ![w].keys = @ \ {b}, ![w].buffer = job[w].buffer,
                                 ![w].step = "sweep"]
          BY <3>2, <4>2
        <5> QED
          BY <2>3, <5>1
      <4> QED
        BY <4>1, <4>2
    <3> QED
      BY <1>5, <3>1, <3>2, Zenon DEF SweepNext
  <2> QED
    BY <1>1, <2>4, QuietKeeps, OneJob
<1>6. CASE Consume(w)
  <2>1. job[w] \in Job /\ job[w].step = "consume" /\ job[w].enqueued = FALSE
    BY <1>6, AtWork DEF Consume, At, Steps, FlushSteps
  <2>2. job'[w].step \in {"forget", "check"} /\ job'[w].enqueued = FALSE
    <3>1. CASE Proceed(w, "check")
      BY <3>1, <2>1, Proceeds DEF Steps
    <3>2. CASE job' = [job EXCEPT ![w].step = "forget", ![w].prompt = TRUE]
      <4>1. job'[w] = [job[w] EXCEPT !.step = "forget", !.prompt = TRUE]
        BY <3>2, <1>2
      <4> QED
        BY <4>1, <2>1 DEF Job
    <3> QED
      BY <1>6, <3>1, <3>2 DEF Consume
  <2>3. Orderly(w)'
    BY <2>2, Aside
  <2> QED
    BY <1>1, <2>3, QuietKeeps, OneJob
<1>7. CASE Forget(w)
  <2>1. job[w].step = "forget" /\ job[w].enqueued = FALSE
    BY <1>7, AtWork DEF Forget, At, Steps, FlushSteps
  <2>2. job'[w].step = "check" /\ job'[w].enqueued = FALSE
    BY <1>7, <2>1, Proceeds DEF Forget, Steps
  <2>3. Orderly(w)'
    BY <2>2, Aside
  <2> QED
    BY <1>1, <2>3, QuietKeeps, OneJob
<1>8. CASE Check(w)
  <2>1. job[w].step = "check" /\ job[w].enqueued = FALSE
    BY <1>8, AtWork DEF Check, At, Steps, FlushSteps
  <2>2. CASE Duplicate(w)
    <3>1. Free(w)'
      BY <1>8, <2>2, <1>2 DEF Check, Free
    <3> QED
      BY <1>1, <3>1, QuietKeeps, OneJob
  <2>3. CASE ~ Duplicate(w)
    <3>1. Proceed(w, "reserve") /\ job[w].turn \notin dedupe
      BY <1>8, <2>3 DEF Check, Duplicate, At
    <3>2. /\ job'[w].step = "reserve" /\ job'[w].enqueued = FALSE
          /\ job'[w].turn = job[w].turn
      BY <3>1, <2>1, Proceeds DEF Steps
    <3>3. dedupe' = dedupe
      BY <1>1 DEF Quiet
    <3>4. Orderly(w)'
      BY <3>1, <3>2, <3>3 DEF Orderly, At, FlushSteps
    <3> QED
      BY <1>1, <3>4, QuietKeeps, OneJob
  <2> QED
    BY <2>2, <2>3
<1> QED
  BY <1>1, <1>3, <1>4, <1>5, <1>6, <1>7, <1>8, QuietKeeps, OneJob

(* What is kept is of turns that were taken.                               *)
LEMMA KeptTaken ==
    ASSUME OneInv
    PROVE  \A m \in Kept : m.turn \in dedupe
  BY DEF OneInv, Kept, Placed, StoredTaken

(* What is kept grows, and so do the turns that were taken.                *)
LEMMA Grows ==
    ASSUME OneInv, dedupe \subseteq dedupe', items \subseteq items',
           \A b \in Buffers : Elements(messages[b]) \subseteq Elements(messages'[b])
    PROVE  Stored \subseteq Stored' /\ Kept \subseteq Kept'
  BY DEF Stored, Kept

(* enqueue_writeback: the key, the text and the buffer's state.            *)
LEMMA ReserveKeeps ==
    ASSUME OneInv, TypeOK', OneWorker, NEW w \in Workers, Reserve(w)
    PROVE  OneInv'
<1>1. job[w] \in Job /\ job[w].step = "reserve" /\ job[w].enqueued = FALSE /\ Orderly(w)
  BY AtWork DEF Reserve, At, Steps, FlushSteps
<1>2. job[w].turn \notin dedupe /\ job[w].turn \in dedupe' /\ dedupe \subseteq dedupe'
  BY <1>1 DEF Orderly, At, Reserve
<1>3. Kept' = Kept /\ Stored' = Stored /\ UNCHANGED <<messages, items>>
  BY DEF Reserve, Kept, Stored
<1>4. Placed' /\ StoredTaken'
  BY <1>2, <1>3 DEF OneInv, Placed, StoredTaken
<1>5. AcceptedIsKept'
  BY <1>1, <1>3 DEF OneInv, TypeOK, Job, AcceptedIsKept, Reserve, Answer
<1>6. CASE PreparedBy(w) = <<>>
  <2>1. Free(w)'
    BY <1>6 DEF Reserve, Answer, OneInv, TypeOK, Free
  <2> QED
    BY <1>4, <1>5, <2>1, OneJob
<1>7. CASE PreparedBy(w) # <<>>
  <2>1. Proceed(w, "append")
    BY <1>7 DEF Reserve
  <2>2. /\ job'[w].step = "append" /\ job'[w].enqueued = FALSE
        /\ job'[w].turn = job[w].turn /\ PreparedBy(w)' = PreparedBy(w)
    BY <1>1, <2>1, Proceeds DEF Steps
  <2>3. \A m \in Kept : m.turn # job[w].turn
    BY <1>2, KeptTaken
  <2>4. Orderly(w)'
    BY <1>2, <1>3, <1>7, <2>2, <2>3 DEF Orderly, At, FlushSteps
  <2> QED
    BY <1>4, <1>5, <2>4, OneJob
<1> QED
  BY <1>6, <1>7

(* Appended: the text of a turn of which nothing is kept yet.              *)
LEMMA Appended ==
    ASSUME OneInv, NEW w \in Workers, AppendTurn(w)
    PROVE  /\ job[w].turn \in Turns /\ job[w].turn \in dedupe
           /\ \A m \in Kept : m.turn # job[w].turn
           /\ PreparedBy(w) \in Seq(Message) /\ PreparedBy(w) # <<>>
           /\ \A m \in Elements(PreparedBy(w)) : m.turn = job[w].turn
           /\ messages' = [messages EXCEPT ![BufferOf[job[w].turn]] = @ \o PreparedBy(w)]
           /\ \A b \in Buffers :
                 Elements(messages'[b]) = Elements(messages[b]) \union
                    (IF b = BufferOf[job[w].turn] THEN Elements(PreparedBy(w)) ELSE {})
<1>1. job[w] \in Job /\ job[w].step = "append" /\ Orderly(w)
  BY AtWork DEF AppendTurn, At, Steps, FlushSteps
<1>2. /\ PreparedBy(w) \in Seq(Message)
      /\ \A m \in Elements(PreparedBy(w)) : m.turn = job[w].turn
  BY <1>1, Busy DEF OneInv, Steps
<1>3. messages \in [Buffers -> Seq(Message)]
  BY DEF OneInv, TypeOK
<1>4. messages' = [messages EXCEPT ![BufferOf[job[w].turn]] = @ \o PreparedBy(w)]
  BY DEF AppendTurn
<1>5. ASSUME NEW b \in Buffers
      PROVE  Elements(messages'[b]) = Elements(messages[b]) \union
                    (IF b = BufferOf[job[w].turn] THEN Elements(PreparedBy(w)) ELSE {})
  <2>1. CASE b = BufferOf[job[w].turn]
    <3>1. messages'[b] = messages[b] \o PreparedBy(w)
      BY <1>3, <1>4, <2>1
    <3> QED
      BY <1>2, <1>3, <2>1, <3>1, ElementsOfConcat
  <2>2. CASE b # BufferOf[job[w].turn]
    BY <1>3, <1>4, <2>2
  <2> QED
    BY <2>1, <2>2
<1>6. job[w].turn \in Turns
  BY <1>1 DEF Job
<1> QED
  BY <1>1, <1>2, <1>4, <1>5, <1>6 DEF Orderly, At

LEMMA AppendKeeps ==
    ASSUME OneInv, TypeOK', OneWorker, NEW w \in Workers, AppendTurn(w)
    PROVE  OneInv'
<1>1. job[w] \in Job /\ job[w].step = "append" /\ job[w].enqueued = FALSE
  BY AtWork DEF AppendTurn, At, Steps, FlushSteps
<1>2. UNCHANGED <<dedupe, items, receipt>>
  BY DEF AppendTurn
<1>3. Stored' = Stored /\ Kept \subseteq Kept'
  BY <1>2, Appended, Grows DEF Stored
<1>4. Elements(PreparedBy(w)) \subseteq Kept'
  <2>1. BufferOf[job[w].turn] \in Buffers
    BY Appended, MemoryAssumption
  <2>2. Elements(PreparedBy(w)) \subseteq Elements(messages'[BufferOf[job[w].turn]])
    BY <2>1, Appended
  <2> QED
    BY <2>1, <2>2 DEF Kept
<1>5. Placed'
  BY <1>2, Appended DEF OneInv, Placed
<1>6. StoredTaken' /\ AcceptedIsKept'
  BY <1>2, <1>3 DEF OneInv, StoredTaken, AcceptedIsKept
<1>7. /\ job'[w].step = "count" /\ job'[w].enqueued = FALSE
      /\ PreparedBy(w)' = PreparedBy(w)
  BY <1>1, Proceeds DEF AppendTurn, Steps
<1>8. Orderly(w)'
  BY <1>4, <1>7 DEF Orderly, At, FlushSteps
<1> QED
  BY <1>5, <1>6, <1>8, OneJob

(* The receipts after an answer that acknowledges only what is kept.       *)
LEMMA AnswerKeeps ==
    ASSUME OneInv, NEW w \in Workers, job[w] \in Job, Accept(w),
           Elements(PreparedBy(w)) \subseteq Kept', Kept \subseteq Kept'
    PROVE  Free(w)' /\ AcceptedIsKept'
<1>1. Free(w)'
  BY DEF Accept, Answer, OneInv, TypeOK, Free
<1>2. receipt' = [receipt EXCEPT ![job[w].turn] = @ \union Elements(PreparedBy(w))]
  BY DEF Accept, Answer
<1>3. receipt \in [Turns -> SUBSET Message]
  BY DEF OneInv, TypeOK
<1> QED
  BY <1>1, <1>2, <1>3 DEF OneInv, AcceptedIsKept

LEMMA CountKeeps ==
    ASSUME OneInv, TypeOK', OneWorker, NEW w \in Workers,
           Count(w) \/ Upsert(w) \/ Decide(w)
    PROVE  OneInv'
<1>1. /\ job[w] \in Job /\ job[w].step \in {"count", "upsert", "decide"}
      /\ job[w].enqueued = FALSE /\ Elements(PreparedBy(w)) \subseteq Kept
      /\ job \in [Workers -> Job \union {NoJob}]
  BY AtWork DEF Count, Upsert, Decide, At, Steps, FlushSteps, Orderly
<1>2. CASE Count(w)
  <2> DEFINE row == buf[BufferOf[job[w].turn]]
  <2>1. Quiet
    BY <1>2 DEF Quiet, Count
  <2>2. job'[w] = [job[w] EXCEPT !.step = "upsert", !.seen = row]
    BY <1>1, <1>2 DEF Count
  <2>3. /\ job'[w].step = "upsert" /\ job'[w].enqueued = FALSE
        /\ job'[w].turn = job[w].turn /\ job'[w].prompt = job[w].prompt
    BY <1>1, <2>2 DEF Job
  <2>4. PreparedBy(w)' = PreparedBy(w)
    BY <2>3 DEF PreparedBy
  <2>5. Orderly(w)'
    BY <1>1, <2>1, <2>3, <2>4, QuietKeeps DEF Orderly, At, FlushSteps
  <2> QED
    BY <2>1, <2>5, QuietKeeps, OneJob
<1>3. CASE Upsert(w)
  <2>1. Quiet /\ Proceed(w, "decide")
    BY <1>3 DEF Quiet, Upsert
  <2>2. /\ job'[w].step = "decide" /\ job'[w].enqueued = FALSE
        /\ PreparedBy(w)' = PreparedBy(w)
    BY <1>1, <2>1, Proceeds DEF Steps
  <2>3. Orderly(w)'
    BY <1>1, <2>1, <2>2, QuietKeeps DEF Orderly, At, FlushSteps
  <2> QED
    BY <2>1, <2>3, QuietKeeps, OneJob
<1>4. CASE Decide(w)
  <2> DEFINE b == BufferOf[job[w].turn]
  <2>1. UNCHANGED <<dedupe, messages, buf, items>>
    BY <1>4 DEF Decide
  <2>2. Kept' = Kept /\ Stored' = Stored /\ Placed' /\ StoredTaken'
    BY <2>1 DEF Kept, Stored, OneInv, Placed, StoredTaken
  <2>3. CASE Accept(w)
    BY <1>1, <2>2, <2>3, AnswerKeeps, OneJob
  <2>4. CASE /\ buf[b] # NoBuffer /\ UNCHANGED receipt
             /\ job' = [job EXCEPT ![w].step = "state", ![w].buffer = b,
                                   ![w].enqueued = TRUE]
    <3>1. AcceptedIsKept'
      BY <2>2, <2>4 DEF OneInv, AcceptedIsKept
    <3>2. job'[w] = [job[w] EXCEPT !.step = "state", !.buffer = b, !.enqueued = TRUE]
      BY <1>1, <2>4
    <3>3. /\ job'[w].step = "state" /\ job'[w].buffer = b
          /\ job'[w].turn = job[w].turn /\ job'[w].prompt = job[w].prompt
      BY <1>1, <3>2 DEF Job
    <3>4. PreparedBy(w)' = PreparedBy(w)
      BY <3>3 DEF PreparedBy
    <3>5. Orderly(w)'
      BY <1>1, <2>1, <2>2, <2>4, <3>3, <3>4 DEF Orderly, At, FlushSteps
    <3> QED
      BY <2>2, <3>1, <3>5, OneJob
  <2> QED
    BY <1>4, <2>3, <2>4 DEF Decide
<1> QED
  BY <1>2, <1>3, <1>4

(* flush_buffer.                                                           *)
LEMMA FlushReadKeeps ==
    ASSUME OneInv, TypeOK', OneWorker, NEW w \in Workers,
           FlushState(w) \/ FlushMessages(w)
    PROVE  OneInv'
<1>1. Quiet /\ UNCHANGED buf
  BY DEF Quiet, FlushState, FlushMessages
<1>2. /\ job[w] \in Job /\ job[w].step \in {"state", "messages"} /\ Orderly(w)
      /\ job \in [Workers -> Job \union {NoJob}]
  BY AtWork DEF FlushState, FlushMessages, At, Steps
<1>3. CASE FlushState(w)
  <2>1. job[w].step = "state" /\ Proceed(w, "messages")
    BY <1>2, <1>3 DEF FlushState, Orderly, At
  <2>2. /\ job'[w].step = "messages" /\ job'[w].enqueued = job[w].enqueued
        /\ PreparedBy(w)' = PreparedBy(w)
    BY <2>1, Proceeds DEF Steps
  <2>3. Orderly(w)'
    BY <1>1, <1>2, <2>1, <2>2, QuietKeeps DEF Orderly, At, FlushSteps
  <2> QED
    BY <1>1, <2>3, QuietKeeps, OneJob
<1>4. CASE FlushMessages(w)
  <2> DEFINE text == messages[job[w].buffer]
             step == IF text = <<>> THEN "delete" ELSE "insert"
  <2>1. job'[w] = [job[w] EXCEPT !.step = step, !.text = text, !.left = ChunkNos(text)]
    BY <1>2, <1>4 DEF FlushMessages
  <2>2. /\ job'[w].step = step /\ job'[w].text = text /\ job'[w].left = ChunkNos(text)
        /\ job'[w].enqueued = job[w].enqueued /\ job'[w].buffer = job[w].buffer
        /\ job'[w].turn = job[w].turn /\ job'[w].prompt = job[w].prompt
    BY <1>2, <2>1 DEF Job
  <2>3. PreparedBy(w)' = PreparedBy(w)
    BY <2>2 DEF PreparedBy
  <2>4. messages' = messages
    BY <1>1 DEF Quiet
  <2>5. \A k \in DOMAIN text : ChunkNo(k) \in ChunkNos(text)
    BY DEF ChunkNos
  <2>6. text = <<>> => Elements(text) = {}
    BY DEF Elements
  <2> HIDE DEF text
  <2>7. job[w].enqueued => Elements(PreparedBy(w)) \subseteq Kept
    BY <1>2 DEF Orderly, FlushSteps
  <2>8. Orderly(w)'
    BY <1>1, <2>2, <2>3, <2>4, <2>5, <2>6, <2>7, QuietKeeps
       DEF Orderly, At, FlushSteps, text
  <2> QED
    BY <1>1, <2>8, QuietKeeps, OneJob
<1> QED
  BY <1>3, <1>4

(* Inserted: a part of what the buffer holds.                              *)
LEMMA Inserted ==
    ASSUME OneInv, NEW w \in Workers, Insert(w)
    PROVE  /\ job[w] \in Job /\ Orderly(w) /\ job[w].step = "insert"
           /\ job[w].text = messages[job[w].buffer] /\ job[w].buffer \in Buffers
           /\ \E i \in job[w].left :
                /\ job' = [job EXCEPT ![w].left = @ \ {i},
                             ![w].step = IF job[w].left = {i} THEN "delete" ELSE "insert"]
                /\ Stored' = Stored \union Chunk(job[w].text, i)
                /\ Chunk(job[w].text, i) \subseteq Elements(messages[job[w].buffer])
<1>1. job[w] \in Job /\ Orderly(w) /\ job[w].step = "insert"
  BY AtWork DEF Insert, At, Steps
<1>2. job[w].text = messages[job[w].buffer]
  BY <1>1 DEF Orderly, At
<1>3. PICK i \in job[w].left :
        /\ items' = items \union {Chunk(job[w].text, i)}
        /\ job' = [job EXCEPT ![w].left = @ \ {i},
                     ![w].step = IF job[w].left = {i} THEN "delete" ELSE "insert"]
  BY DEF Insert
<1>4. Stored' = Stored \union Chunk(job[w].text, i)
  BY <1>3 DEF Stored
<1>5. Chunk(job[w].text, i) \subseteq Elements(messages[job[w].buffer])
  BY <1>2 DEF Chunk, Elements
<1>6. job[w].buffer \in Buffers
  BY <1>1 DEF Job
<1> QED
  BY <1>1, <1>2, <1>3, <1>4, <1>5, <1>6

LEMMA InsertKeeps ==
    ASSUME OneInv, TypeOK', OneWorker, NEW w \in Workers, Insert(w)
    PROVE  OneInv'
<1>1. /\ job[w] \in Job /\ Orderly(w) /\ job[w].step = "insert"
      /\ job[w].text = messages[job[w].buffer] /\ job[w].buffer \in Buffers
  BY Inserted
<1>2. PICK i \in job[w].left :
         /\ job' = [job EXCEPT ![w].left = @ \ {i},
                      ![w].step = IF job[w].left = {i} THEN "delete" ELSE "insert"]
         /\ Stored' = Stored \union Chunk(job[w].text, i)
         /\ Chunk(job[w].text, i) \subseteq Elements(messages[job[w].buffer])
  BY Inserted
<1> DEFINE step == IF job[w].left = {i} THEN "delete" ELSE "insert"
<1>3. UNCHANGED <<dedupe, messages, buf, receipt>>
  BY DEF Insert
<1>4. Kept' = Kept
  BY <1>1, <1>2, <1>3 DEF Kept
<1>5. Placed' /\ AcceptedIsKept'
  BY <1>3, <1>4 DEF OneInv, Placed, AcceptedIsKept
<1>6. StoredTaken'
  BY <1>1, <1>2, <1>3 DEF OneInv, StoredTaken, Placed
<1>7. job'[w] = [job[w] EXCEPT !.left = @ \ {i}, !.step = step]
  BY <1>2 DEF OneInv, TypeOK
<1>8. /\ job'[w].step = step /\ job'[w].left = job[w].left \ {i}
      /\ job'[w].text = job[w].text /\ job'[w].buffer = job[w].buffer
      /\ job'[w].enqueued = job[w].enqueued
      /\ job'[w].turn = job[w].turn /\ job'[w].prompt = job[w].prompt
  BY <1>1, <1>7 DEF Job
<1>9. PreparedBy(w)' = PreparedBy(w)
  BY <1>8 DEF PreparedBy
<1>10. ASSUME NEW k \in DOMAIN job[w].text
       PROVE  job[w].text[k] \in Stored' \/ ChunkNo(k) \in job[w].left \ {i}
  <2>1. job[w].text[k] \in Stored \/ ChunkNo(k) \in job[w].left
    BY <1>1 DEF Orderly, At
  <2>2. ChunkNo(k) = i => job[w].text[k] \in Chunk(job[w].text, i)
    BY DEF Chunk
  <2> QED
    BY <1>2, <2>1, <2>2
<1>11. step = "delete" => Elements(messages[job[w].buffer]) \subseteq Stored'
  BY <1>1, <1>10 DEF Elements
<1>12. job[w].enqueued => Elements(PreparedBy(w)) \subseteq Kept
  BY <1>1 DEF Orderly, FlushSteps
<1>13. Orderly(w)'
  <2>1. step \in {"delete", "insert"}
    OBVIOUS
  <2> HIDE DEF step
  <2> QED
    BY <1>1, <1>3, <1>4, <1>8, <1>9, <1>10, <1>11, <1>12, <2>1
       DEF Orderly, At, FlushSteps
<1> QED
  BY <1>5, <1>6, <1>13, OneJob

(* Deleted: a buffer all of whose text has been inserted.                  *)
LEMMA Deleted ==
    ASSUME OneInv, NEW w \in Workers, Delete(w)
    PROVE  /\ job[w] \in Job /\ Orderly(w) /\ job[w].step = "delete"
           /\ job[w].buffer \in Buffers
           /\ Elements(messages[job[w].buffer]) \subseteq Stored
           /\ UNCHANGED <<dedupe, items>> /\ Stored' = Stored /\ Kept' = Kept
           /\ messages' = [messages EXCEPT ![job[w].buffer] = <<>>]
           /\ \A b \in Buffers : Elements(messages'[b]) =
                 IF b = job[w].buffer THEN {} ELSE Elements(messages[b])
<1>1. job[w] \in Job /\ Orderly(w) /\ job[w].step = "delete"
  BY AtWork DEF Delete, At, Steps
<1>2. Elements(messages[job[w].buffer]) \subseteq Stored
  BY <1>1 DEF Orderly, At
<1>3. job[w].buffer \in Buffers
  BY <1>1 DEF Job
<1>4. /\ UNCHANGED <<dedupe, items>>
      /\ messages' = [messages EXCEPT ![job[w].buffer] = <<>>]
  BY DEF Delete
<1>5. Stored' = Stored
  BY <1>4 DEF Stored
<1>6. Elements(<<>>) = {}
  BY DEF Elements
<1>7. \A b \in Buffers : Elements(messages'[b]) =
         IF b = job[w].buffer THEN {} ELSE Elements(messages[b])
  BY <1>3, <1>4, <1>6 DEF OneInv, TypeOK
<1>8. Kept' = Kept
  BY <1>2, <1>3, <1>5, <1>7 DEF Kept
<1> QED
  BY <1>1, <1>2, <1>3, <1>4, <1>5, <1>7, <1>8

LEMMA DeleteKeeps ==
    ASSUME OneInv, TypeOK', OneWorker, NEW w \in Workers, Delete(w)
    PROVE  OneInv'
<1>1. Placed' /\ StoredTaken'
  BY Deleted DEF OneInv, Placed, StoredTaken
<1>2. CASE job[w].enqueued
  <2>1. Elements(PreparedBy(w)) \subseteq Kept
    BY <1>2, Deleted DEF Orderly, FlushSteps
  <2>2. Accept(w)
    BY <1>2 DEF Delete
  <2>3. Free(w)' /\ AcceptedIsKept'
    BY <2>1, <2>2, Deleted, AnswerKeeps
  <2> QED
    BY <1>1, <2>3, OneJob
<1>3. CASE ~ job[w].enqueued
  <2>1. /\ job' = [job EXCEPT ![w].step = "sweep", ![w].text = <<>>]
        /\ receipt' = receipt
    BY <1>3 DEF Delete
  <2>2. job'[w] = [job[w] EXCEPT !.step = "sweep", !.text = <<>>]
    BY <2>1 DEF OneInv, TypeOK
  <2>3. job'[w].step = "sweep" /\ job'[w].enqueued = FALSE
    BY <1>3, <2>2, Deleted DEF Job
  <2>4. Orderly(w)'
    BY <2>3, Aside
  <2>5. AcceptedIsKept'
    BY <2>1, Deleted DEF OneInv, AcceptedIsKept
  <2> QED
    BY <1>1, <2>4, <2>5, OneJob
<1> QED
  BY <1>2, <1>3

(* Requests of turn-start, time and failures.                              *)
LEMMA WorldKeeps ==
    ASSUME OneInv, TypeOK', OneWorker,
           \/ \E t \in Turns : TurnStart(t)
           \/ \E b \in Buffers : Age(b)
           \/ \E w \in Workers : Fail(w)
           \/ UNCHANGED vars
    PROVE  OneInv'
<1>1. Quiet
  BY DEF Quiet, TurnStart, Age, Fail, vars
<1>2. ASSUME NEW w \in Workers, Fail(w) PROVE OneInv'
  <2>1. Free(w)'
    BY <1>2 DEF Fail, Free, OneInv, TypeOK
  <2> QED
    BY <1>1, <2>1, QuietKeeps, OneJob
<1>3. CASE job' = job /\ \A b \in Buffers : buf[b] # NoBuffer => buf'[b] # NoBuffer
  <2>1. ASSUME NEW w \in Workers, Orderly(w), ~ Free(w) PROVE Orderly(w)'
    <3>1. job[w].buffer \in Buffers /\ PreparedBy(w)' = PreparedBy(w)
      BY <1>3, <2>1 DEF OneInv, TypeOK, Free, Job, PreparedBy
    <3>2. messages' = messages /\ dedupe' = dedupe
      BY <1>1 DEF Quiet
    <3> QED
      BY <1>1, <1>3, <2>1, <3>1, <3>2, QuietKeeps DEF Orderly, At
  <2>2. \A w \in Workers : Free(w)' \/ Orderly(w)'
    BY <1>3, <2>1 DEF OneInv, Free
  <2> QED
    BY <1>1, <2>2, QuietKeeps DEF OneInv
<1>4. ASSUME NEW t \in Turns, TurnStart(t) PROVE OneInv'
  BY <1>3, <1>4 DEF TurnStart
<1>5. ASSUME NEW b \in Buffers, Age(b) PROVE OneInv'
  <2>1. \A c \in Buffers : buf[c] # NoBuffer => buf'[c] # NoBuffer
    BY <1>5 DEF Age, OneInv, TypeOK, BufferRow, NoBuffer
  <2> QED
    BY <1>3, <1>5, <2>1 DEF Age
<1>6. CASE UNCHANGED vars
  BY <1>3, <1>6 DEF vars
<1> QED
  BY <1>2, <1>4, <1>5, <1>6

LEMMA NextOne == OneWorker /\ OneInv /\ [Next]_vars => OneInv'
<1> SUFFICES ASSUME OneWorker, OneInv, [Next]_vars PROVE OneInv'
  OBVIOUS
<1>1. TypeOK'
  BY NextType DEF OneInv
<1> QED
  BY <1>1, LooksKeep, ReserveKeeps, AppendKeeps, CountKeeps, FlushReadKeeps,
     InsertKeeps, DeleteKeeps, WorldKeeps DEF Next, Serve

(* Which steps touch the turns' keys and texts.                            *)
LEMMA TextSteps ==
    ASSUME [Next]_vars
    PROVE  \/ UNCHANGED <<dedupe, messages, items>>
           \/ \E w \in Workers : Reserve(w) \/ AppendTurn(w) \/ Insert(w) \/ Delete(w)
<1>1. ASSUME NEW w \in Workers,
             \/ ListKeys(w) \/ SweepNext(w) \/ Consume(w) \/ Forget(w) \/ Check(w)
             \/ Count(w) \/ Upsert(w) \/ Decide(w) \/ FlushState(w) \/ FlushMessages(w)
             \/ Fail(w) \/ \E t \in Turns : Writeback(w, t)
      PROVE  UNCHANGED <<dedupe, messages, items>>
  BY <1>1 DEF ListKeys, SweepNext, Consume, Forget, Check, Count, Upsert, Decide,
              FlushState, FlushMessages, Fail, Writeback
<1>2. (\E t \in Turns : TurnStart(t)) \/ (\E b \in Buffers : Age(b)) \/ UNCHANGED vars
        => UNCHANGED <<dedupe, messages, items>>
  BY DEF TurnStart, Age, vars
<1> QED
  BY <1>1, <1>2 DEF Next, Serve

(* With one process, what a client was told is buffered is in the buffer   *)
(* or the items from then on, whatever requests fail at which statement    *)
(* (enqueue_writeback, flush_buffer).                                      *)
THEOREM OneWorkerKeeps ==
    ASSUME OneWorker
    PROVE  Spec => []AcceptedIsKept
<1>1. OneInv => AcceptedIsKept
  BY DEF OneInv
<1> QED
  BY <1>1, InitOne, NextOne, PTL DEF Spec

-----------------------------------------------------------------------------
(* Refinement.                                                             *)
(* With one process the tables keep the promise of TurnPromise: a turn is  *)
(* taken once, buffered once, and stored when its buffer is deleted; every *)
(* other step, an insertion or a failure among them, changes nothing.      *)
THEOREM OneWorkerImplements ==
    ASSUME OneWorker
    PROVE  Spec => ImplementsPromise
<1>1. Init => Promise!Init
  BY DEF Init, Promise!Init, Fate, FateOf
<1>2. OneInv /\ [Next]_vars => [Promise!Next]_Fate
  <2> SUFFICES ASSUME OneInv, [Next]_vars
               PROVE  Promise!Next \/ Fate' = Fate
    OBVIOUS
  <2>1. Fate = [t \in Turns |-> FateOf(t)] /\ Fate' = [t \in Turns |-> FateOf(t)']
    BY DEF Fate
  <2>2. ASSUME UNCHANGED <<dedupe, messages, items>> PROVE Fate' = Fate
    BY <2>2 DEF Fate, FateOf, Stored
  <2>3. ASSUME NEW w \in Workers, Reserve(w) PROVE Promise!Next \/ Fate' = Fate
    <3>1. job[w] \in Job /\ job[w].step = "reserve" /\ Orderly(w)
      BY <2>3, AtWork DEF Reserve, At, Steps
    <3>2. PICK x \in Turns : x \notin dedupe /\ dedupe' = dedupe \union {x}
      BY <2>3, <3>1 DEF Job, Orderly, At, Reserve
    <3>3. UNCHANGED <<messages, items>> /\ Stored' = Stored
      BY <2>3 DEF Reserve, Stored
    <3>4. \A m \in Kept : m.turn # x
      BY <3>2, KeptTaken
    <3>5. BufferOf[x] \in Buffers
      BY <3>2, MemoryAssumption
    <3>6. FateOf(x) = "new" /\ FateOf(x)' = "taken"
      BY <3>2, <3>3, <3>4, <3>5 DEF FateOf, Kept
    <3>7. \A t \in Turns : t # x => FateOf(t)' = FateOf(t)
      BY <3>2, <3>3 DEF FateOf
    <3>8. Promise!Take(x)
      BY <2>1, <3>2, <3>6, <3>7 DEF Promise!Take
    <3> QED
      BY <3>2, <3>8 DEF Promise!Next
  <2>4. ASSUME NEW w \in Workers, AppendTurn(w) PROVE Promise!Next \/ Fate' = Fate
    <3> DEFINE new == PreparedBy(w)
    <3>1. PICK x \in Turns :
          /\ x \in dedupe /\ \A m \in Kept : m.turn # x
          /\ new \in Seq(Message) /\ new # <<>>
          /\ \A m \in Elements(new) : m.turn = x
          /\ \A b \in Buffers : Elements(messages'[b]) = Elements(messages[b]) \union
                (IF b = BufferOf[x] THEN Elements(new) ELSE {})
      BY <2>4, Appended
    <3>2. UNCHANGED <<dedupe, items>> /\ Stored' = Stored
      BY <2>4 DEF AppendTurn, Stored
    <3> HIDE DEF new
    <3>3. \E m \in Elements(new) : m.turn = x
      <4>1. 1 \in DOMAIN new
        BY <3>1
      <4> QED
        BY <3>1, <4>1 DEF Elements
    <3>4. \A t \in Turns : BufferOf[t] \in Buffers
      BY MemoryAssumption
    <3>5. FateOf(x) = "taken" /\ FateOf(x)' = "buffered"
      BY <3>1, <3>2, <3>3, <3>4 DEF FateOf, Kept
    <3>6. \A t \in Turns : t # x => FateOf(t)' = FateOf(t)
      BY <3>1, <3>2, <3>4 DEF FateOf
    <3>7. Promise!Buffer(x)
      BY <2>1, <3>1, <3>5, <3>6 DEF Promise!Buffer
    <3> QED
      BY <3>1, <3>7 DEF Promise!Next
  <2>5. ASSUME NEW w \in Workers, Insert(w) PROVE Promise!Next \/ Fate' = Fate
    <3>1. /\ job[w].buffer \in Buffers
          /\ \E i : /\ Stored' = Stored \union Chunk(job[w].text, i)
                    /\ Chunk(job[w].text, i) \subseteq Elements(messages[job[w].buffer])
      BY <2>5, Inserted
    <3>2. UNCHANGED <<dedupe, messages>>
      BY <2>5 DEF Insert
    <3>3. \A m \in Elements(messages[job[w].buffer]) : BufferOf[m.turn] = job[w].buffer
      BY <3>1 DEF OneInv, Placed
    <3>4. ASSUME NEW t \in Turns PROVE FateOf(t)' = FateOf(t)
      BY <3>1, <3>2, <3>3 DEF FateOf
    <3> QED
      BY <2>1, <3>4
  <2>6. ASSUME NEW w \in Workers, Delete(w) PROVE Promise!Next \/ Fate' = Fate
    <3>1. PICK d \in Buffers :
          /\ Elements(messages[d]) \subseteq Stored
          /\ dedupe' = dedupe /\ Stored' = Stored
          /\ \A b \in Buffers : Elements(messages'[b]) =
                IF b = d THEN {} ELSE Elements(messages[b])
      BY <2>6, Deleted
    <3> DEFINE batch == {t \in Turns : BufferOf[t] = d /\ FateOf(t) = "buffered"}
    <3>2. \A t \in Turns : BufferOf[t] \in Buffers
      BY MemoryAssumption
    <3>3. \A t \in batch : FateOf(t) = "buffered" /\ FateOf(t)' = "stored"
      BY <3>1, <3>2 DEF FateOf
    <3>4. \A t \in Turns : t \notin batch => FateOf(t)' = FateOf(t)
      BY <3>1, <3>2 DEF FateOf
    <3> HIDE DEF batch
    <3>5. batch \in SUBSET Turns
      BY DEF batch
    <3>6. Promise!Store(batch)
      BY <2>1, <3>3, <3>4, <3>5 DEF Promise!Store
    <3> QED
      BY <3>5, <3>6 DEF Promise!Next
  <2>7. \/ UNCHANGED <<dedupe, messages, items>>
        \/ \E w \in Workers : Reserve(w) \/ AppendTurn(w) \/ Insert(w) \/ Delete(w)
    BY TextSteps
  <2> QED
    BY <2>2, <2>3, <2>4, <2>5, <2>6, <2>7
<1> QED
  BY <1>1, <1>2, InitOne, NextOne, PTL DEF Spec, ImplementsPromise, Promise!Spec

-----------------------------------------------------------------------------
(* Any number of gateway processes.                                        *)
(* What is kept, or about to be inserted by a flush.                       *)
Text(w) == IF Free(w) THEN {} ELSE Elements(job[w].text)
Present == Kept \union UNION {Text(w) : w \in Workers}

(* While no reservation comes too late, a turn that is about to be appended*)
(* was taken by that process alone, and nothing of it is present yet.      *)
Reserved ==
    /\ \A m \in Present : m.turn \in dedupe
    /\ \A w \in Workers : At(w, "append") =>
         job[w].turn \in dedupe /\ \A m \in Present : m.turn # job[w].turn
    /\ \A v, w \in Workers :
         At(v, "append") /\ At(w, "append") /\ job[v].turn = job[w].turn => v = w

LEMMA InitReserved == Init => Reserved
<1> SUFFICES ASSUME Init PROVE Reserved
  OBVIOUS
<1>1. \A w \in Workers : Text(w) = {} /\ ~ At(w, "append")
  BY DEF Init, Text, Free, At, NoJob
<1>2. Kept = {}
  BY DEF Init, Kept, Stored, Elements
<1> QED
  BY <1>1, <1>2 DEF Present, Reserved

(* A step of w that neither reserves nor appends: it has nothing to append *)
(* afterwards, and its transcript is what it was or what was kept.         *)
Steady(w) ==
    /\ dedupe' = dedupe
    /\ Kept' \subseteq Kept \union Text(w)
    /\ \A v \in Workers : v # w => job'[v] = job[v]
    /\ job'[w].step # "append"
    /\ Text(w)' \subseteq Kept \union Text(w)

LEMMA SteadyKeeps ==
    ASSUME Reserved, NEW w \in Workers, Steady(w)
    PROVE  Reserved'
<1>1. \A v \in Workers : v # w => Text(v)' = Text(v)
  BY DEF Steady, Text, Free
<1>2. Present' \subseteq Present
  BY <1>1 DEF Present, Steady
<1>3. \A v \in Workers : At(v, "append")' =>
         At(v, "append") /\ job'[v] = job[v]
  BY DEF Steady, At
<1> QED
  BY <1>2, <1>3 DEF Reserved, Steady

(* The flush and the sweep, requests, failures and answers.                *)
LEMMA StepsAreSteady ==
    ASSUME TypeOK, NEW w \in Workers,
           \/ \E t \in Turns : Writeback(w, t)
           \/ ListKeys(w) \/ SweepNext(w) \/ Consume(w) \/ Forget(w) \/ Check(w)
           \/ Count(w) \/ Upsert(w) \/ Decide(w) \/ FlushState(w) \/ FlushMessages(w)
           \/ Insert(w) \/ Delete(w) \/ Fail(w)
    PROVE  Steady(w)
<1>1. job \in [Workers -> Job \union {NoJob}] /\ messages \in [Buffers -> Seq(Message)]
  BY DEF TypeOK
<1>2. NoJob.step # "append"
  BY DEF NoJob
<1>3. job[w].step \in Steps => job[w] \in Job /\ ~ Free(w)
  BY Busy
<1>4. \A v \in Workers : v # w => job'[v] = job[v]
  BY <1>1 DEF Writeback, ListKeys, SweepNext, Consume, Forget, Check, Count, Upsert,
              Decide, Accept, Answer, FlushState, FlushMessages, Insert, Delete, Fail,
              Proceed
<1>5. Elements(<<>>) = {}
  BY DEF Elements
<1>6. ASSUME NEW step \in Steps, Proceed(w, step), step # "append", job[w] \in Job, ~ Free(w)
      PROVE  job'[w].step # "append" /\ Text(w)' \subseteq Text(w)
  <2>1. job'[w] = [job[w] EXCEPT !.step = step]
    BY <1>1, <1>6 DEF Proceed
  <2>2. job'[w].step = step /\ job'[w].text = job[w].text
    BY <1>6, <2>1 DEF Job
  <2> QED
    BY <1>6, <2>2 DEF Text
<1>7. ASSUME job'[w] = NoJob
      PROVE  job'[w].step # "append" /\ Text(w)' = {}
  BY <1>2, <1>7 DEF Text, Free
<1>8. ASSUME job'[w].step # "append", job'[w].text = job[w].text, ~ Free(w)
      PROVE  Text(w)' \subseteq Text(w)
  BY <1>8 DEF Text
<1> DEFINE Moves == job'[w].step # "append" /\ Text(w)' \subseteq Kept \union Text(w)
<1>10. ASSUME NEW t \in Turns, Writeback(w, t) PROVE Steady(w)
  <2>1. job'[w].step \in {"check", "keys"} /\ job'[w].text = <<>>
    BY <1>1, <1>10 DEF Writeback
  <2>2. Text(w)' = {}
    BY <1>5, <2>1 DEF Text
  <2> QED
    BY <1>10, <1>4, <2>1, <2>2 DEF Steady, Writeback, Kept, Stored
<1>11. CASE \/ ListKeys(w) \/ SweepNext(w) \/ Consume(w) \/ Forget(w) \/ Check(w)
            \/ Count(w) \/ Upsert(w) \/ Decide(w) \/ FlushState(w) \/ FlushMessages(w)
            \/ Fail(w)
  <2>1. dedupe' = dedupe /\ Kept' = Kept
    BY <1>11 DEF ListKeys, SweepNext, Consume, Forget, Check, Count, Upsert, Decide,
                 FlushState, FlushMessages, Fail, Kept, Stored
  <2>2. CASE Forget(w) \/ Upsert(w) \/ FlushState(w)
    <3>1. job[w] \in Job /\ ~ Free(w)
      BY <1>3, <2>2 DEF Forget, Upsert, FlushState, At, Steps
    <3>2. Proceed(w, "check") \/ Proceed(w, "decide") \/ Proceed(w, "delete")
            \/ Proceed(w, "messages")
      BY <2>2 DEF Forget, Upsert, FlushState
    <3> QED
      BY <1>4, <1>6, <2>1, <3>1, <3>2 DEF Steady, Steps
  <2>3. CASE ListKeys(w) \/ SweepNext(w)
    <3>1. job[w] \in Job /\ ~ Free(w)
      BY <1>3, <2>3 DEF ListKeys, SweepNext, At, Steps
    <3>2. CASE Proceed(w, "consume")
      BY <1>4, <1>6, <2>1, <3>1, <3>2 DEF Steady, Steps
    <3>3. CASE ~ Proceed(w, "consume")
      <4>1. job'[w].step \in {"sweep", "state"} /\ job'[w].text = job[w].text
        <5>1. CASE ListKeys(w)
          BY <1>1, <3>1, <5>1 DEF ListKeys, Job
        <5>2. CASE SweepNext(w)
          <6>1. PICK b \in job[w].keys :
                   job' = [job EXCEPT ![w].keys = @ \ {b},
                     ![w].buffer = IF buf[b] # NoBuffer /\ buf[b].old THEN b ELSE @,
                     ![w].step = IF buf[b] # NoBuffer /\ buf[b].old THEN "state" ELSE "sweep"]
            BY <3>3, <5>2 DEF SweepNext
          <6> QED
            BY <1>1, <3>1, <6>1 DEF Job
        <5> QED
          BY <2>3, <5>1, <5>2
      <4> QED
        BY <1>4, <1>8, <2>1, <3>1, <4>1 DEF Steady
    <3> QED
      BY <3>2, <3>3
  <2>4. CASE Consume(w) \/ Count(w)
    <3>1. job[w] \in Job /\ ~ Free(w)
      BY <1>3, <2>4 DEF Consume, Count, At, Steps
    <3>2. job'[w].step \in {"forget", "check", "upsert"} /\ job'[w].text = job[w].text
      BY <1>1, <2>4, <3>1 DEF Consume, Count, Proceed, Job
    <3> QED
      BY <1>4, <1>8, <2>1, <3>1, <3>2 DEF Steady
  <2>5. CASE Check(w) \/ Decide(w) \/ Fail(w)
    <3>1. CASE job'[w] = NoJob
      BY <1>4, <1>7, <2>1, <3>1 DEF Steady
    <3>2. CASE job'[w] # NoJob
      <4>1. ~ Fail(w)
        BY <1>1, <3>2 DEF Fail
      <4>2. job[w] \in Job /\ ~ Free(w)
        BY <1>3, <2>5, <4>1 DEF Check, Decide, At, Steps
      <4>3. job'[w].step \in {"reserve", "state"} /\ job'[w].text = job[w].text
        BY <1>1, <2>5, <3>2, <4>1, <4>2 DEF Check, Decide, Accept, Answer, Proceed, Job
      <4> QED
        BY <1>4, <1>8, <2>1, <4>2, <4>3 DEF Steady
    <3> QED
      BY <3>1, <3>2
  <2>6. CASE FlushMessages(w)
    <3>1. job[w] \in Job /\ ~ Free(w) /\ job[w].buffer \in Buffers
      BY <1>3, <2>6 DEF FlushMessages, At, Steps, Job
    <3>2. job'[w].step \in {"delete", "insert"} /\ job'[w].text = messages[job[w].buffer]
      BY <1>1, <2>6, <3>1 DEF FlushMessages, Job
    <3>3. Text(w)' \subseteq Kept
      BY <3>1, <3>2 DEF Text, Kept, Elements
    <3> QED
      BY <1>4, <2>1, <3>2, <3>3 DEF Steady
  <2> QED
    BY <1>11, <2>2, <2>3, <2>4, <2>5, <2>6
<1>12. CASE Insert(w)
  <2>1. job[w] \in Job /\ ~ Free(w)
    BY <1>3, <1>12 DEF Insert, At, Steps
  <2>2. PICK i : items' = items \union {Chunk(job[w].text, i)}
    BY <1>12 DEF Insert
  <2>3. Chunk(job[w].text, i) \subseteq Text(w)
    BY <2>1 DEF Chunk, Text, Elements
  <2>4. messages' = messages /\ dedupe' = dedupe
    BY <1>12 DEF Insert
  <2>5. Kept' \subseteq Kept \union Text(w)
    BY <2>2, <2>3, <2>4 DEF Kept, Stored
  <2>6. job'[w].step \in {"delete", "insert"} /\ job'[w].text = job[w].text
    BY <1>1, <1>12, <2>1 DEF Insert, Job
  <2> QED
    BY <1>4, <1>8, <2>1, <2>4, <2>5, <2>6 DEF Steady
<1>13. CASE Delete(w)
  <2>1. job[w] \in Job /\ ~ Free(w)
    BY <1>3, <1>13 DEF Delete, At, Steps
  <2>2. dedupe' = dedupe /\ items' = items
    BY <1>13 DEF Delete
  <2>3. \A b \in Buffers : messages'[b] = messages[b] \/ messages'[b] = <<>>
    BY <1>1, <1>13 DEF Delete
  <2>4. Kept' \subseteq Kept
    BY <1>5, <2>2, <2>3 DEF Kept, Stored
  <2>5. job'[w] = NoJob \/ job'[w] = [job[w] EXCEPT !.step = "sweep", !.text = <<>>]
    BY <1>1, <1>13 DEF Delete, Accept, Answer
  <2>6. CASE job'[w] = NoJob
    BY <1>4, <1>7, <2>2, <2>4, <2>6 DEF Steady
  <2>7. CASE job'[w] = [job[w] EXCEPT !.step = "sweep", !.text = <<>>]
    <3>1. job'[w].step = "sweep" /\ job'[w].text = <<>>
      BY <2>1, <2>7 DEF Job
    <3>2. Text(w)' = {}
      BY <1>5, <3>1 DEF Text
    <3> QED
      BY <1>4, <2>2, <2>4, <3>1, <3>2 DEF Steady
  <2> QED
    BY <2>5, <2>6, <2>7
<1> QED
  BY <1>10, <1>11, <1>12, <1>13

(* What an append adds, whatever other processes do.                       *)
LEMMA AppendAdds ==
    ASSUME TypeOK, NEW w \in Workers, AppendTurn(w)
    PROVE  /\ \A m \in Elements(PreparedBy(w)) : m.turn = job[w].turn
           /\ \A b \in Buffers : \/ messages'[b] = messages[b]
                                 \/ messages'[b] = messages[b] \o PreparedBy(w)
           /\ PreparedBy(w) \in Seq(Message)
<1>1. /\ PreparedBy(w) \in Seq(Message)
      /\ \A m \in Elements(PreparedBy(w)) : m.turn = job[w].turn
  BY Busy DEF AppendTurn, At, Steps
<1>2. messages \in [Buffers -> Seq(Message)]
  BY DEF TypeOK
<1> QED
  BY <1>1, <1>2 DEF AppendTurn

LEMMA NextReserved ==
    TypeOK /\ Reserved /\ [Next]_vars /\ (\A w \in Workers : ~ LateReserve(w))
      => Reserved'
<1> SUFFICES ASSUME TypeOK, Reserved, [Next]_vars, \A w \in Workers : ~ LateReserve(w)
             PROVE  Reserved'
  OBVIOUS
<1>1. job \in [Workers -> Job \union {NoJob}]
  BY DEF TypeOK
<1>2. ASSUME UNCHANGED <<dedupe, messages, items, job>> PROVE Reserved'
  BY <1>2 DEF Reserved, Present, Kept, Stored, Text, Free, At
<1>3. ASSUME NEW w \in Workers, Reserve(w) PROVE Reserved'
  <2>1. job[w] \in Job /\ ~ Free(w)
    BY <1>3, Busy DEF Reserve, At, Steps
  <2>2. job[w].turn \notin dedupe /\ dedupe' = dedupe \union {job[w].turn}
    BY <1>3 DEF LateReserve, Reserve
  <2>3. Kept' = Kept
    BY <1>3 DEF Reserve, Kept, Stored
  <2>4. \A v \in Workers : v # w => job'[v] = job[v]
    BY <1>1, <1>3 DEF Reserve, Answer, Proceed
  <2>5. \/ job'[w] = NoJob
        \/ job'[w] = [job[w] EXCEPT !.step = "append"]
    BY <1>1, <1>3 DEF Reserve, Answer, Proceed
  <2>6. /\ Text(w)' \subseteq Text(w)
        /\ job'[w].step = "append" => job'[w].turn = job[w].turn
    <3>1. CASE job'[w] = NoJob
      BY <3>1 DEF Text, Free, NoJob
    <3>2. CASE job'[w] = [job[w] EXCEPT !.step = "append"]
      <4>1. job'[w].text = job[w].text /\ job'[w].turn = job[w].turn
        BY <2>1, <3>2 DEF Job
      <4> QED
        BY <2>1, <4>1 DEF Text
    <3> QED
      BY <2>5, <3>1, <3>2
  <2>7. \A v \in Workers : v # w => Text(v)' = Text(v)
    BY <2>4 DEF Text, Free
  <2>8. Present' \subseteq Present
    BY <2>3, <2>6, <2>7 DEF Present
  <2>9. \A m \in Present : m.turn # job[w].turn
    BY <2>2 DEF Reserved
  <2>10. \A v \in Workers : v # w /\ At(v, "append") => job[v].turn # job[w].turn
    BY <2>2 DEF Reserved
  <2> QED
    BY <2>2, <2>4, <2>6, <2>8, <2>9, <2>10 DEF Reserved, At
<1>4. ASSUME NEW w \in Workers, AppendTurn(w) PROVE Reserved'
  <2>1. job[w] \in Job /\ ~ Free(w) /\ At(w, "append")
    BY <1>4, Busy DEF AppendTurn, At, Steps
  <2>2. dedupe' = dedupe /\ items' = items
    BY <1>4 DEF AppendTurn
  <2>3. \A v \in Workers : v # w => job'[v] = job[v]
    BY <1>1, <1>4 DEF AppendTurn, Proceed
  <2>4. job'[w] = [job[w] EXCEPT !.step = "count"]
    BY <1>1, <1>4 DEF AppendTurn, Proceed
  <2>5. job'[w].step = "count" /\ job'[w].text = job[w].text
    BY <2>1, <2>4 DEF Job
  <2>6. \A v \in Workers : Text(v)' \subseteq Text(v)
    BY <2>1, <2>3, <2>5 DEF Text, Free
  <2>7. \A b \in Buffers :
           Elements(messages'[b]) \subseteq Elements(messages[b]) \union Elements(PreparedBy(w))
    <3>1. messages \in [Buffers -> Seq(Message)]
      BY DEF TypeOK
    <3> QED
      BY <1>4, <3>1, AppendAdds, ElementsOfConcat
  <2>8. Present' \subseteq Present \union Elements(PreparedBy(w))
    BY <2>2, <2>6, <2>7 DEF Present, Kept, Stored
  <2>9. \A m \in Elements(PreparedBy(w)) : m.turn = job[w].turn
    BY <1>4, AppendAdds
  <2>10. job[w].turn \in dedupe
    BY <2>1 DEF Reserved
  <2>11. ASSUME NEW v \in Workers, At(v, "append")'
         PROVE  /\ v # w /\ At(v, "append") /\ job'[v] = job[v]
                /\ job[v].turn # job[w].turn
    BY <2>1, <2>3, <2>5, <2>11 DEF At, Reserved
  <2> QED
    BY <2>2, <2>8, <2>9, <2>10, <2>11 DEF Reserved
<1>5. ASSUME NEW w \in Workers, Serve(w) \/ Fail(w) \/ \E t \in Turns : Writeback(w, t)
      PROVE  Reserved'
  BY <1>3, <1>4, <1>5, StepsAreSteady, SteadyKeeps DEF Serve
<1>6. (\E t \in Turns : TurnStart(t)) \/ (\E b \in Buffers : Age(b)) \/ UNCHANGED vars
        => UNCHANGED <<dedupe, messages, items, job>>
  BY DEF TurnStart, Age, vars
<1> QED
  BY <1>2, <1>5, <1>6 DEF Next

(* The text of a turn is appended to its buffer once, never again while it *)
(* is there nor after it was stored from it (writeback.py:382), with any   *)
(* number of processes, crashes and errors, as long as no process reserves *)
(* a key that is reserved: INSERT OR IGNORE would have to be looked at.    *)
THEOREM ReservationsSuffice ==
    Spec /\ [][\A w \in Workers : ~ LateReserve(w)]_vars => NoDoubleBuffer
<1> DEFINE Once   == \A b \in Buffers : \A k \in DOMAIN messages'[b] :
                        k > Len(messages[b]) => messages'[b][k] \notin Kept
           NoneLate == \A w \in Workers : ~ LateReserve(w)
<1>1. TypeOK /\ Reserved /\ [Next]_vars => [Once]_vars
  <2> SUFFICES ASSUME TypeOK, Reserved, [Next]_vars, NEW b \in Buffers,
                      NEW k \in DOMAIN messages'[b], k > Len(messages[b])
               PROVE  messages'[b][k] \notin Kept
    OBVIOUS
  <2>1. messages \in [Buffers -> Seq(Message)]
    BY DEF TypeOK
  <2>2. messages'[b] # messages[b] /\ messages'[b] # <<>>
    BY <2>1
  <2>3. ASSUME NEW w \in Workers, Delete(w) PROVE FALSE
    <3>1. messages'[b] = <<>> \/ messages'[b] = messages[b]
      BY <2>1, <2>3 DEF Delete
    <3> QED
      BY <2>2, <3>1
  <2>4. ASSUME NEW w \in Workers, AppendTurn(w) PROVE messages'[b][k] \notin Kept
    <3>1. /\ PreparedBy(w) \in Seq(Message)
          /\ messages'[b] = messages[b] \o PreparedBy(w)
          /\ \A m \in Elements(PreparedBy(w)) : m.turn = job[w].turn
      BY <2>2, <2>4, AppendAdds
    <3>2. messages'[b][k] \in Elements(PreparedBy(w))
      BY <2>1, <3>1, SecondPart
    <3>3. \A m \in Kept : m.turn # job[w].turn
      BY <2>4 DEF AppendTurn, Reserved, Present
    <3> QED
      BY <3>1, <3>2, <3>3
  <2>5. \/ messages' = messages
        \/ \E w \in Workers : Delete(w) \/ AppendTurn(w)
    BY TextSteps DEF Reserve, Insert
  <2> QED
    BY <2>2, <2>3, <2>4, <2>5
<1>2. TypeOK /\ Reserved /\ [Next]_vars /\ [NoneLate]_vars => Reserved'
  <2> SUFFICES ASSUME TypeOK, Reserved, [Next]_vars, [NoneLate]_vars PROVE Reserved'
    OBVIOUS
  <2>1. CASE UNCHANGED vars
    BY <2>1 DEF vars, Reserved, Present, Kept, Stored, Text, Free, At
  <2>2. CASE NoneLate
    BY <2>2, NextReserved
  <2> QED
    BY <2>1, <2>2
<1> QED
  BY <1>1, <1>2, InitType, NextType, InitReserved, PTL DEF Spec, NoDoubleBuffer
=============================================================================
