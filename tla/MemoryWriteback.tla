-------------------------- MODULE MemoryWriteback --------------------------
(***************************************************************************)
(* moa_gateway/memory: how a conversation turn gets into the memory items. *)
(* A writeback request reserves the turn's key, appends the turn's text to *)
(* the buffer of its session and, when the buffer is full or old, flushes  *)
(* it: the transcript is cut into chunks and each is inserted.  Hook       *)
(* requests first sweep the old buffers and fetch the prompt that the      *)
(* turn-start hook has recorded.                                           *)
(*                                                                         *)
(* All of this is synchronous: a process is busy with one writeback until  *)
(* its end.  But each method of MemoryStore commits a transaction of its   *)
(* own in the SQLite file that the processes share, so an error or a crash *)
(* leaves the steps done so far, and other processes go on in between.     *)
(*                                                                         *)
(* Left out: redaction, recall, the deletion of items by users, and the    *)
(* overlap of adjacent chunks.  Chunks are those of one user; texts of     *)
(* different turns are different.                                          *)
(***************************************************************************)
EXTENDS Integers, Sequences, FiniteSets

CONSTANTS Workers,       (* gateway processes that share the database       *)
          Turns,         (* turn keys: client, session and correlation id   *)
          Buffers,       (* buffer keys: user scope, client and session     *)
          BufferOf,      (* BufferOf[t]: the buffer of turn t               *)
          RunTurns,      (* turns of assistant runs: queue_writeback        *)
          Blank,         (* turns whose own text is not meaningful          *)
          BufferTurns,   (* cfg.buffer_turns                                *)
          BufferChars,   (* cfg.buffer_chars, counted in messages           *)
          ChunkSize,     (* cfg.chunk_chars, counted in messages            *)
          MaxFaults      (* bound on crashes and database errors            *)

ASSUME MemoryAssumption ==
    /\ BufferOf \in [Turns -> Buffers]
    /\ RunTurns \subseteq Turns /\ Blank \subseteq Turns
    /\ BufferTurns \in Nat \ {0} /\ BufferChars \in Nat \ {0}
    /\ ChunkSize \in Nat \ {0} /\ MaxFaults \in Nat

VARIABLES prompts,    (* memory_turn_state: turns with a recorded prompt    *)
          dedupe,     (* memory_dedupe_keys                                 *)
          messages,   (* memory_buffer_messages of each buffer, by id       *)
          buf,        (* memory_buffer_state of each buffer                 *)
          items,      (* memory_items: the chunks                           *)
          job,        (* job[w]: the writeback that w is busy with          *)
          receipt,    (* receipt[t]: the messages that were acknowledged    *)
          told,       (* told[t]: how t was answered, the first time        *)
          faults

vars == <<prompts, dedupe, messages, buf, items, job, receipt, told, faults>>

(* The prompt of turn-start, and the text that the writeback carries (all  *)
(* of its messages are appended in one transaction: they are one message). *)
Message == [turn : Turns, part : {"prompt", "text"}]

(* created_at only matters as "buffer_seconds ago or more"; idle_deadline  *)
(* is never earlier than that.                                             *)
NoBuffer  == [turn_count |-> 0]
BufferRow == [turn_count : Nat, content_chars : Nat, old : BOOLEAN]

(* A writeback in progress.  At step, the next access of the database is   *)
(* keys .. sweep    all_buffer_keys, and get_buffer of each key            *)
(* consume, forget  the SELECT and the DELETE of consume_turn              *)
(* check .. upsert  the statements of enqueue_writeback up to upsert_buffer*)
(* decide           the get_buffer before _should_flush                    *)
(* state .. delete  the statements of flush_buffer                         *)
(* keys: still to be swept; buffer: being flushed; seen: the row that count*)
(* has read; text, left: the transcript and the chunks to be inserted;     *)
(* enqueued: this turn is in its buffer and the flush is the last thing.   *)
NoJob == [step |-> "idle"]

Steps == {"keys", "sweep", "consume", "forget", "check", "reserve", "append",
          "count", "upsert", "decide", "state", "messages", "insert", "delete"}

Job == [step : Steps, turn : Turns, prompt : BOOLEAN, keys : SUBSET Buffers,
        buffer : Buffers, seen : BufferRow \union {NoBuffer}, text : Seq(Message),
        left : SUBSET Int, enqueued : BOOLEAN]

TypeOK ==
    /\ prompts \subseteq Turns /\ dedupe \subseteq Turns
    /\ messages \in [Buffers -> Seq(Message)]
    /\ buf \in [Buffers -> BufferRow \union {NoBuffer}]
    /\ items \subseteq SUBSET Message
    /\ job \in [Workers -> Job \union {NoJob}]
    /\ receipt \in [Turns -> SUBSET Message]
    /\ told \in [Turns -> SUBSET {"accepted", "skipped"}]
    /\ faults \in 0 .. MaxFaults

Elements(s) == {s[i] : i \in DOMAIN s}
Stored      == UNION items
Kept        == Stored \union UNION {Elements(messages[b]) : b \in Buffers}

Free(w)     == job[w] = NoJob
At(w, step) == job[w].step = step

(* w gets on with its job at another step.                                 *)
Proceed(w, step) == job' = [job EXCEPT ![w].step = step]

-----------------------------------------------------------------------------
(* The text of a turn and what becomes of it.                              *)
Prepared(t, prompt) ==
    (IF prompt THEN <<[turn |-> t, part |-> "prompt"]>> ELSE <<>>)
      \o (IF t \in Blank THEN <<>> ELSE <<[turn |-> t, part |-> "text"]>>)

PreparedBy(w) == Prepared(job[w].turn, job[w].prompt)

(* chunk_text: the i-th chunk, as the set of its messages.                 *)
ChunkNo(k)     == (k - 1) \div ChunkSize
Chunk(text, i) == {text[k] : k \in {j \in DOMAIN text : ChunkNo(j) = i}}
ChunkNos(text) == {ChunkNo(k) : k \in DOMAIN text}

ShouldFlush(row) ==
    \/ row.turn_count >= BufferTurns
    \/ row.content_chars >= BufferChars
    \/ row.old

(* w answers the request; acknowledged: the messages it says are buffered. *)
Answer(w, answer, acknowledged) ==
    /\ told' = [told EXCEPT ![job[w].turn] = @ \union {answer}]
    /\ receipt' = [receipt EXCEPT ![job[w].turn] = @ \union acknowledged]
    /\ job' = [job EXCEPT ![w] = NoJob]

Accept(w) == Answer(w, "accepted", Elements(PreparedBy(w)))

-----------------------------------------------------------------------------
(* Requests.  Clients may repeat any of them.                              *)
TurnStart(t) ==
    /\ t \notin RunTurns
    /\ \E w \in Workers : Free(w)
    /\ prompts' = prompts \union {t}
    /\ UNCHANGED <<dedupe, messages, buf, items, job, receipt, told, faults>>

Writeback(w, t) ==
    /\ Free(w)
    /\ job' = [job EXCEPT ![w] =
         [step |-> IF t \in RunTurns THEN "check" ELSE "keys", turn |-> t,
          prompt |-> FALSE, keys |-> {}, buffer |-> BufferOf[t], seen |-> NoBuffer,
          text |-> <<>>, left |-> {}, enqueued |-> FALSE]]
    /\ UNCHANGED <<prompts, dedupe, messages, buf, items, receipt, told, faults>>

-----------------------------------------------------------------------------
(* sweep_expired_buffers.                                                  *)
ListKeys(w) ==
    /\ At(w, "keys")
    /\ job' = [job EXCEPT ![w].step = "sweep",
                          ![w].keys = {b \in Buffers : buf[b] # NoBuffer}]
    /\ UNCHANGED <<prompts, dedupe, messages, buf, items, receipt, told, faults>>

SweepNext_Drops(w) ==
    /\ At(w, "sweep")
    /\ \/ job[w].keys = {} /\ Proceed(w, "consume")
       \/ \E b \in job[w].keys :
            LET expired == buf[b] # NoBuffer /\ buf[b].old IN
            job' = [job EXCEPT ![w].keys = @ \ {b},
                               ![w].buffer = IF expired THEN b ELSE @,
                               ![w].step = IF expired THEN "delete" ELSE "sweep"]
    /\ UNCHANGED <<prompts, dedupe, messages, buf, items, receipt, told, faults>>

SweepNext_Full(w) ==
    /\ At(w, "sweep")
    /\ \/ job[w].keys = {} /\ Proceed(w, "consume")
       \/ \E b \in job[w].keys :
            LET expired == buf[b] # NoBuffer /\ buf[b].turn_count >= BufferTurns IN
            job' = [job EXCEPT ![w].keys = @ \ {b},
                               ![w].buffer = IF expired THEN b ELSE @,
                               ![w].step = IF expired THEN "state" ELSE "sweep"]
    /\ UNCHANGED <<prompts, dedupe, messages, buf, items, receipt, told, faults>>

SweepNext(w) ==
    /\ At(w, "sweep")
    /\ \/ job[w].keys = {} /\ Proceed(w, "consume")
       \/ \E b \in job[w].keys :
            LET expired == buf[b] # NoBuffer /\ buf[b].old IN
            job' = [job EXCEPT ![w].keys = @ \ {b},
                               ![w].buffer = IF expired THEN b ELSE @,
                               ![w].step = IF expired THEN "state" ELSE "sweep"]
    /\ UNCHANGED <<prompts, dedupe, messages, buf, items, receipt, told, faults>>

(* consume_turn.                                                           *)
Consume(w) ==
    /\ At(w, "consume")
    /\ IF job[w].turn \in prompts
       THEN job' = [job EXCEPT ![w].step = "forget", ![w].prompt = TRUE]
       ELSE Proceed(w, "check")
    /\ UNCHANGED <<prompts, dedupe, messages, buf, items, receipt, told, faults>>

Forget(w) ==
    /\ At(w, "forget")
    /\ prompts' = prompts \ {job[w].turn}
    /\ Proceed(w, "check")
    /\ UNCHANGED <<dedupe, messages, buf, items, receipt, told, faults>>

-----------------------------------------------------------------------------
(* enqueue_writeback.                                                      *)
Duplicate(w) == At(w, "check") /\ job[w].turn \in dedupe

Check(w) ==
    /\ At(w, "check")
    /\ IF Duplicate(w)
       THEN job' = [job EXCEPT ![w] = NoJob]
       ELSE Proceed(w, "reserve")
    /\ UNCHANGED <<prompts, dedupe, messages, buf, items, receipt, told, faults>>

(* INSERT OR IGNORE: whether the key was new is not looked at.             *)
Reserve(w) ==
    /\ At(w, "reserve")
    /\ dedupe' = dedupe \union {job[w].turn}
    /\ IF PreparedBy(w) = <<>>
       THEN Answer(w, "skipped", {})
       ELSE Proceed(w, "append") /\ UNCHANGED <<receipt, told>>
    /\ UNCHANGED <<prompts, messages, buf, items, faults>>

AppendTurn(w) ==
    /\ At(w, "append")
    /\ messages' = [messages EXCEPT ![BufferOf[job[w].turn]] = @ \o PreparedBy(w)]
    /\ Proceed(w, "count")
    /\ UNCHANGED <<prompts, dedupe, buf, items, receipt, told, faults>>

Count(w) ==
    /\ At(w, "count")
    /\ job' = [job EXCEPT ![w].step = "upsert", ![w].seen = buf[BufferOf[job[w].turn]]]
    /\ UNCHANGED <<prompts, dedupe, messages, buf, items, receipt, told, faults>>

(* On a conflict upsert_buffer leaves created_at as it is in the table.    *)
Upsert(w) ==
    /\ At(w, "upsert")
    /\ LET b    == BufferOf[job[w].turn]
           seen == job[w].seen
           size == Len(PreparedBy(w))
           read == IF seen = NoBuffer
                   THEN [turn_count |-> 1, content_chars |-> size, old |-> FALSE]
                   ELSE [turn_count    |-> seen.turn_count + 1,
                         content_chars |-> seen.content_chars + size,
                         old           |-> seen.old]
       IN buf' = [buf EXCEPT ![b] =
                    IF buf[b] = NoBuffer THEN read ELSE [read EXCEPT !.old = buf[b].old]]
    /\ Proceed(w, "decide")
    /\ UNCHANGED <<prompts, dedupe, messages, items, receipt, told, faults>>

Decide(w) ==
    /\ At(w, "decide")
    /\ LET b == BufferOf[job[w].turn] IN
       IF buf[b] # NoBuffer /\ ShouldFlush(buf[b])
       THEN /\ job' = [job EXCEPT ![w].step = "state", ![w].buffer = b,
                                  ![w].enqueued = TRUE]
            /\ UNCHANGED <<receipt, told>>
       ELSE Accept(w)
    /\ UNCHANGED <<prompts, dedupe, messages, buf, items, faults>>

-----------------------------------------------------------------------------
(* flush_buffer.                                                           *)
FlushState(w) ==
    /\ At(w, "state")
    /\ Proceed(w, IF buf[job[w].buffer] = NoBuffer THEN "delete" ELSE "messages")
    /\ UNCHANGED <<prompts, dedupe, messages, buf, items, receipt, told, faults>>

FlushMessages(w) ==
    /\ At(w, "messages")
    /\ LET text == messages[job[w].buffer] IN
       job' = [job EXCEPT ![w].step = IF text = <<>> THEN "delete" ELSE "insert",
                          ![w].text = text, ![w].left = ChunkNos(text)]
    /\ UNCHANGED <<prompts, dedupe, messages, buf, items, receipt, told, faults>>

Insert_First(w) ==
    /\ At(w, "insert")
    /\ \E i \in job[w].left :
         /\ \A j \in job[w].left : i <= j
         /\ items' = items \union {Chunk(job[w].text, i)}
         /\ job' = [job EXCEPT ![w].left = {}, ![w].step = "delete"]
    /\ UNCHANGED <<prompts, dedupe, messages, buf, receipt, told, faults>>

(* insert_item of the next chunk; a chunk that is there is left alone.     *)
Insert(w) ==
    /\ At(w, "insert")
    /\ \E i \in job[w].left :
         /\ \A j \in job[w].left : i <= j
         /\ items' = items \union {Chunk(job[w].text, i)}
         /\ job' = [job EXCEPT ![w].left = @ \ {i},
                               ![w].step = IF job[w].left = {i} THEN "delete" ELSE "insert"]
    /\ UNCHANGED <<prompts, dedupe, messages, buf, receipt, told, faults>>

Delete_All(w) ==
    /\ At(w, "delete")
    /\ buf' = [b \in Buffers |-> NoBuffer]
    /\ messages' = [b \in Buffers |-> <<>>]
    /\ IF job[w].enqueued
       THEN Accept(w)
       ELSE /\ job' = [job EXCEPT ![w].step = "sweep", ![w].text = <<>>]
            /\ UNCHANGED <<receipt, told>>
    /\ UNCHANGED <<prompts, dedupe, items, faults>>

(* delete_buffer, after which a sweep goes on and a writeback is answered. *)
Delete(w) ==
    /\ At(w, "delete")
    /\ buf' = [buf EXCEPT ![job[w].buffer] = NoBuffer]
    /\ messages' = [messages EXCEPT ![job[w].buffer] = <<>>]
    /\ IF job[w].enqueued
       THEN Accept(w)
       ELSE /\ job' = [job EXCEPT ![w].step = "sweep", ![w].text = <<>>]
            /\ UNCHANGED <<receipt, told>>
    /\ UNCHANGED <<prompts, dedupe, items, faults>>

-----------------------------------------------------------------------------
(* A database error or a crash ends the request; what it has committed     *)
(* stays, and the client has no answer.                                    *)
Fail(w) ==
    /\ ~ Free(w) /\ faults < MaxFaults
    /\ faults' = faults + 1
    /\ job' = [job EXCEPT ![w] = NoJob]
    /\ UNCHANGED <<prompts, dedupe, messages, buf, items, receipt, told>>

(* buffer_seconds pass since the buffer was created.                       *)
Age(b) ==
    /\ buf[b] # NoBuffer /\ ~ buf[b].old
    /\ buf' = [buf EXCEPT ![b].old = TRUE]
    /\ UNCHANGED <<prompts, dedupe, messages, items, job, receipt, told, faults>>

Init ==
    /\ prompts = {} /\ dedupe = {} /\ items = {} /\ faults = 0
    /\ messages = [b \in Buffers |-> <<>>]
    /\ buf = [b \in Buffers |-> NoBuffer]
    /\ job = [w \in Workers |-> NoJob]
    /\ receipt = [t \in Turns |-> {}]
    /\ told = [t \in Turns |-> {}]

Serve(w) ==
    \/ ListKeys(w) \/ SweepNext(w) \/ Consume(w) \/ Forget(w)
    \/ Check(w) \/ Reserve(w) \/ AppendTurn(w) \/ Count(w) \/ Upsert(w) \/ Decide(w)
    \/ FlushState(w) \/ FlushMessages(w) \/ Insert(w) \/ Delete(w)

Next ==
    \/ \E t \in Turns : TurnStart(t)
    \/ \E w \in Workers, t \in Turns : Writeback(w, t)
    \/ \E w \in Workers : Serve(w) \/ Fail(w)
    \/ \E b \in Buffers : Age(b)

Spec == Init /\ [][Next]_vars

(* A process gets on with the request it is busy with, and time passes.    *)
FairSpec ==
    /\ Spec
    /\ \A w \in Workers : WF_vars(Serve(w))
    /\ \A b \in Buffers : WF_vars(Age(b))

-----------------------------------------------------------------------------
(* How far a turn has come, in the terms of TurnPromise.                   *)
FateOf(t) ==
    IF t \notin dedupe THEN "new"
    ELSE IF \E m \in Elements(messages[BufferOf[t]]) : m.turn = t THEN "buffered"
    ELSE IF \E m \in Stored : m.turn = t THEN "stored"
    ELSE "taken"

Fate == [t \in Turns |-> FateOf(t)]

Promise == INSTANCE TurnPromise WITH fate <- Fate

(* One process keeps the promise, whatever requests fail where.            *)
ImplementsPromise == Promise!Spec

(* A turn is reserved before it is buffered, so a request that fails in    *)
(* between loses it (a retry is told it is a duplicate).  That is all a    *)
(* failure can lose: not a turn of another request, nor one buffered       *)
(* before, whatever flushes, sweeps and retries there were.                *)
BusyWith(t) == \E w \in Workers : ~ Free(w) /\ job[w].turn = t

Lost == {t \in dedupe : /\ FateOf(t) = "taken"
                        /\ "skipped" \notin told[t]
                        /\ ~ BusyWith(t)}

LossesAreFaults == Cardinality(Lost) <= faults

(* writeback.py:382: "concurrent or replayed writebacks for the same turn  *)
(* cannot double-buffer".  What is appended to a buffer is not in it, and  *)
(* has not been stored from it.  Two processes can break it: both look the *)
(* key up before either reserves it, and the code does not look at whether *)
(* its INSERT OR IGNORE inserted.  It holds when no reservation is late.   *)
NoDoubleBuffer ==
    [][\A b \in Buffers : \A k \in DOMAIN messages'[b] :
         k > Len(messages[b]) => messages'[b][k] \notin Kept]_vars

LateReserve(w) == Reserve(w) /\ job[w].turn \in dedupe

(* What a receipt says is buffered is in the buffer or in the items, from  *)
(* then on: also when a flush fails between two chunks or before the       *)
(* buffer is deleted.                                                      *)
AcceptedIsKept == \A t \in Turns : receipt[t] \subseteq Kept

(* A turn that was accepted gets stored as long as hooks go on to write    *)
(* back: the sweep before each of them is all that looks at old buffers.   *)
AcceptedGetStored ==
    []<><<\E w \in Workers : ListKeys(w)>>_vars =>
       \A t \in Turns : "accepted" \in told[t] ~> receipt[t] \subseteq Stored
=============================================================================
