------------------------- MODULE AssistantRunsProofs -------------------------
(***************************************************************************)
(* Proofs about AssistantRuns, for any number of runs: what holds for any  *)
(* number of gateway processes, and what needs that there is one.          *)
(***************************************************************************)
EXTENDS AssistantRuns, TLAPS

(* A run without a file is unknown but to the one process creating it.     *)
Fresh ==
    \A w \in Workers : \A r \in Runs :
        /\ disk[r] = "none" => task[w][r] = "none" /\ (job[w].run = r => job[w].op \in {"none", "create"})
        /\ At(w, "create", r) => disk[r] = "none" /\ \A v \in Workers : At(v, "create", r) => v = w

(* A run that waits for tool outputs is nobody's task.                     *)
Handed == \A r \in Runs : disk[r] = "requires_action" => \A w \in Workers : task[w][r] = "none"

(* Until its model has been asked for the first time a run has one task,   *)
(* and nobody claims it.                                                   *)
First ==
    \A w \in Workers : \A r \in Runs : task[w][r] \in {"execute", "calling"} =>
        \A v \in Workers : (v # w => task[v][r] = "none") /\ ~ At(v, "claim", r)

(* The task a section belongs to.                                          *)
Belongs ==
    \A w \in Workers : \A r \in Runs : job[w].run = r =>
        /\ job[w].op \in {"create", "claim"} => task[w][r] = "none"
        /\ job[w].op = "start" => task[w][r] = "execute"
        /\ job[w].op = "resume" => task[w][r] = "submit"
        /\ job[w].op = "ask" => task[w][r] = "calling"
        /\ job[w].op \in {"complete", "fail", "expire"} => task[w][r] \in Calling

(* The variables that no part of the invariant but the types speaks of.    *)
Rest ==
    /\ message \in [Runs -> Nat]
    /\ sweep \in [Workers -> SUBSET Runs]
    /\ thread \in {"readable", "torn"}
    /\ logged \subseteq Runs

Inv == TypeOK /\ Fresh /\ Handed /\ First /\ Belongs /\ ActiveIsExecuting

(* One process: its sections find what they have read, unless a write that *)
(* failed tore it, and a message is stored by the section that completes   *)
(* the run, or fails it when its own writes fail.                          *)
Sequential(w) ==
    /\ sweep[w] # {} => job[w].op \in {"none", "sweep"}
    /\ sweep[w] # {} \/ job[w].op = "sweep" => \A r \in Runs : task[w][r] = "none"
    /\ \A r \in Runs :
        /\ task[w][r] = "execute" => disk[r] \in {"queued", "cancelled", "torn"}
        /\ task[w][r] \in {"calling", "submit", "answering"} =>
               disk[r] \in {"in_progress", "cancelled", "torn"}
        /\ At(w, "claim", r) => disk[r] = "requires_action"
        /\ At(w, "resume", r) => disk[r] = "in_progress"
        /\ At(w, "cancel", r) => disk[r] \in {"queued", "in_progress", "requires_action"}
        /\ At(w, "sweep", r) => disk[r] \in {"queued", "in_progress"}

Stored(w, r) ==
    IF At(w, "complete", r) THEN {1} ELSE IF At(w, "fail", r) THEN {0, 1} ELSE {0}

AnswersFit(w) ==
    \A r \in Runs :
        /\ disk[r] \in {"none", "requires_action"} \/ task[w][r] # "none" =>
               message[r] \in Stored(w, r)
        /\ disk[r] = "completed" => message[r] = 1
        /\ message[r] <= 1

OneInv(w) == Inv /\ Sequential(w) /\ AnswersFit(w)

-----------------------------------------------------------------------------
(* What is written, and what the tables of operations say.                 *)
LEMMA Tables ==
    /\ DOMAIN Outcome = {"create", "start", "claim", "resume", "ask", "complete", "fail",
                         "expire", "sweep", "cancel"}
    /\ \A op \in DOMAIN Outcome : Outcome[op] \in Statuses
    /\ DOMAIN Successor = {"create", "start", "claim", "resume"}
    /\ Outcome["create"] = "queued" /\ Outcome["start"] = "in_progress"
    /\ Outcome["claim"] = "in_progress" /\ Outcome["resume"] = "in_progress"
    /\ Outcome["ask"] = "requires_action" /\ Outcome["complete"] = "completed"
    /\ Outcome["fail"] = "failed" /\ Outcome["expire"] = "failed"
    /\ Outcome["sweep"] = "failed" /\ Outcome["cancel"] = "cancelled"
    /\ Successor["create"] = "execute" /\ Successor["start"] = "calling"
    /\ Successor["claim"] = "submit" /\ Successor["resume"] = "answering"
BY DEF Outcome, Successor, Statuses, Live, Terminal

(* The jobs and tasks after a section has begun, and after a task is over. *)
LEMMA JobAfter ==
    ASSUME TypeOK, NEW w \in Workers, NEW r \in Runs, NEW op \in DOMAIN Outcome,
           ToWrite(w, op, r)
    PROVE  /\ job' \in [Workers -> Jobs \cup {NoJob}]
           /\ job'[w].op = op /\ job'[w].run = r
           /\ \A v \in Workers \ {w} : job'[v] = job[v]
BY DEF TypeOK, ToWrite, Jobs

LEMMA TaskAfter ==
    ASSUME TypeOK, NEW w \in Workers, NEW r \in Runs, NEW t \in Tasks,
           task' = [task EXCEPT ![w][r] = t]
    PROVE  /\ task' \in [Workers -> [Runs -> Tasks]]
           /\ task'[w][r] = t
           /\ \A v \in Workers, q \in Runs : v # w \/ q # r => task'[v][q] = task[v][q]
BY DEF TypeOK

(* A section that begins with what its operation asks for.                 *)
LEMMA SectionBegins ==
    ASSUME Inv, NEW w \in Workers, NEW r \in Runs, NEW op \in DOMAIN Outcome, job[w] = NoJob,
           ToWrite(w, op, r), UNCHANGED <<disk, task>>, Rest',
           active' = IF op \in {"start", "resume"} THEN [active EXCEPT ![w] = @ \cup {r}] ELSE active,
           disk[r] = "none" <=> op = "create",
           op = "create" => \A v \in Workers : ~ At(v, "create", r),
           op = "claim" => disk[r] = "requires_action",
           op = "start" => task[w][r] = "execute",
           op = "resume" => task[w][r] = "submit",
           op = "ask" => task[w][r] = "calling",
           op \in {"complete", "fail", "expire"} => task[w][r] \in Calling
    PROVE  Inv'
<1> USE DEF Inv
<1>1. /\ job' \in [Workers -> Jobs \cup {NoJob}]
      /\ job'[w].op = op /\ job'[w].run = r
      /\ \A v \in Workers \ {w} : job'[v] = job[v]
  BY JobAfter
<1>2. job[w].op = "none"
  BY DEF NoJob
<1>3. TypeOK'
  BY <1>1 DEF TypeOK, Rest
<1>4. Fresh'
  BY <1>1 DEF Fresh, At
<1>5. Handed'
  BY DEF Handed
<1>6. First'
  BY <1>1 DEF First, Handed, At
<1>7. Belongs'
  BY <1>1 DEF Belongs, Handed, Fresh
<1>8. ActiveIsExecuting'
  <2> SUFFICES ASSUME NEW v \in Workers, NEW q \in Runs
               PROVE  q \in active'[v] <=> \/ task[v][q] \in Calling
                                           \/ At(v, "start", q)' \/ At(v, "resume", q)'
    BY <1>3 DEF ActiveIsExecuting, TypeOK
  <2>1. q \in active[v] <=> \/ task[v][q] \in Calling
                            \/ At(v, "start", q) \/ At(v, "resume", q)
    BY DEF ActiveIsExecuting
  <2>2. q \in active'[v] <=> q \in active[v] \/ (v = w /\ q = r /\ op \in {"start", "resume"})
    BY DEF TypeOK
  <2>3. At(v, "start", q)' \/ At(v, "resume", q)' <=>
            \/ At(v, "start", q) \/ At(v, "resume", q)
            \/ v = w /\ q = r /\ op \in {"start", "resume"}
    BY <1>1, <1>2 DEF At
  <2> QED
    BY <2>1, <2>2, <2>3
<1> QED
  BY <1>3, <1>4, <1>5, <1>6, <1>7, <1>8

(* A task that ends without writing anything.                              *)
LEMMA TaskEnds ==
    ASSUME Inv, NEW w \in Workers, NEW r \in Runs, Free(w), Over(w, r),
           active' \in [Workers -> SUBSET Runs],
           \A v \in Workers, q \in Runs :
               q \in active'[v] <=> q \in active[v] /\ ~ (v = w /\ q = r),
           UNCHANGED <<disk, job>>, Rest'
    PROVE  Inv'
<1> USE DEF Inv
<1>1. /\ task' \in [Workers -> [Runs -> Tasks]]
      /\ task'[w][r] = "none"
      /\ \A v \in Workers, q \in Runs : v # w \/ q # r => task'[v][q] = task[v][q]
  BY TaskAfter DEF Over, Tasks
<1>2. job[w] = NoJob
  BY DEF Free
<1>3. TypeOK'
  BY <1>1 DEF TypeOK, Rest
<1>4. Fresh'
  BY <1>1 DEF Fresh, At
<1>5. Handed'
  BY <1>1 DEF Handed
<1>6. First'
  BY <1>1 DEF First, At
<1>7. Belongs'
  <2> SUFFICES ASSUME NEW v \in Workers, NEW q \in Runs, job[v].run = q
               PROVE  task'[v][q] = task[v][q] \/ job[v].op = "none"
    BY <1>1 DEF Belongs
  <2> QED
    BY <1>1, <1>2 DEF NoJob
<1>8. ActiveIsExecuting'
  <2> SUFFICES ASSUME NEW v \in Workers, NEW q \in Runs
               PROVE  q \in active'[v] <=> \/ task'[v][q] \in Calling
                                           \/ At(v, "start", q) \/ At(v, "resume", q)
    BY <1>3 DEF ActiveIsExecuting, TypeOK, At
  <2>1. q \in active[v] <=> \/ task[v][q] \in Calling
                            \/ At(v, "start", q) \/ At(v, "resume", q)
    BY DEF ActiveIsExecuting
  <2> QED
    BY <1>1, <1>2, <2>1 DEF At, NoJob, Calling
<1> QED
  BY <1>3, <1>4, <1>5, <1>6, <1>7, <1>8
-----------------------------------------------------------------------------
(* The sections of a process that serves.                                  *)
LEMMA CreateKeeps ==
    ASSUME Inv, NEW w \in Workers, NEW r \in Runs, Create(w, r)
    PROVE  Inv'
<1>1. "create" \in DOMAIN Outcome
  BY Tables
<1>2. Rest'
  BY DEF Create, Inv, TypeOK, Rest
<1> QED
  BY <1>1, <1>2, SectionBegins DEF Free, Create, Inv, Calling, Fresh

LEMMA ClaimKeeps ==
    ASSUME Inv, NEW w \in Workers, NEW r \in Runs, Claim(w, r)
    PROVE  Inv'
<1>1. "claim" \in DOMAIN Outcome
  BY Tables
<1>2. Rest'
  BY DEF Claim, Inv, TypeOK, Rest
<1> QED
  BY <1>1, <1>2, SectionBegins DEF Free, Claim, Inv, Calling, Fresh

LEMMA AnsweredKeeps ==
    ASSUME Inv, NEW w \in Workers, NEW r \in Runs, Answered(w, r)
    PROVE  Inv'
<1>1. "complete" \in DOMAIN Outcome
  BY Tables
<1>2. Rest'
  BY DEF Answered, Inv, TypeOK, Rest
<1> QED
  BY <1>1, <1>2, SectionBegins DEF Free, Answered, Inv, Calling, Fresh, Calling

LEMMA ToolCallsKeeps ==
    ASSUME Inv, NEW w \in Workers, NEW r \in Runs, ToolCalls(w, r)
    PROVE  Inv'
<1>1. "ask" \in DOMAIN Outcome
  BY Tables
<1>2. Rest'
  BY DEF ToolCalls, Inv, TypeOK, Rest
<1> QED
  BY <1>1, <1>2, SectionBegins DEF Free, ToolCalls, Inv, Calling, Fresh

LEMMA CallFailsKeeps ==
    ASSUME Inv, NEW w \in Workers, NEW r \in Runs, CallFails(w, r)
    PROVE  Inv'
<1>1. "fail" \in DOMAIN Outcome
  BY Tables
<1>2. Rest'
  BY DEF CallFails, Inv, TypeOK, Rest
<1> QED
  BY <1>1, <1>2, SectionBegins DEF Free, CallFails, Inv, Calling, Fresh, Calling

LEMMA CancelKeeps ==
    ASSUME Inv, NEW w \in Workers, NEW r \in Runs, Cancel(w, r)
    PROVE  Inv'
<1>1. "cancel" \in DOMAIN Outcome
  BY Tables
<1>2. Rest'
  BY DEF Cancel, Inv, TypeOK, Rest
<1> QED
  BY <1>1, <1>2, SectionBegins DEF Free, Cancel, Inv, Calling, Statuses, Live, Terminal

LEMMA StartKeeps ==
    ASSUME Inv, NEW w \in Workers, NEW r \in Runs, Start(w, r)
    PROVE  Inv'
<1>1. "start" \in DOMAIN Outcome
  BY Tables
<1>2. r \notin active[w] /\ disk[r] # "none"
  BY DEF Start, Free, NoJob, At, Inv, ActiveIsExecuting, Fresh, Calling
<1>3. Rest'
  BY DEF Start, Inv, TypeOK, Rest
<1> QED
  BY <1>1, <1>2, <1>3, SectionBegins DEF Free, Start

LEMMA ResumeKeeps ==
    ASSUME Inv, NEW w \in Workers, NEW r \in Runs, Resume(w, r)
    PROVE  Inv'
<1>1. "resume" \in DOMAIN Outcome
  BY Tables
<1>2. r \notin active[w] /\ disk[r] # "none"
  BY DEF Resume, Free, NoJob, At, Inv, ActiveIsExecuting, Fresh, Calling
<1>3. Rest'
  BY DEF Resume, Inv, TypeOK, Rest
<1>4. CASE disk[r] \in {"requires_action", "in_progress"}
  BY <1>1, <1>2, <1>3, <1>4, SectionBegins DEF Free, Resume
<1>5. CASE disk[r] \notin {"requires_action", "in_progress"}
  BY <1>2, <1>3, <1>5, TaskEnds DEF Resume, Inv, TypeOK
<1> QED
  BY <1>4, <1>5

LEMMA ExpireKeeps ==
    ASSUME Inv, NEW w \in Workers, NEW r \in Runs, Expire(w, r)
    PROVE  Inv'
<1>1. "expire" \in DOMAIN Outcome
  BY Tables
<1>2. Rest'
  BY DEF Expire, Inv, TypeOK, Rest
<1>3. CASE disk[r] \in Live
  BY <1>1, <1>2, <1>3, SectionBegins DEF Free, Expire, Live, Calling
<1>4. CASE disk[r] \notin Live
  <2>1. /\ active' \in [Workers -> SUBSET Runs]
        /\ \A v \in Workers, q \in Runs :
               q \in active'[v] <=> q \in active[v] /\ ~ (v = w /\ q = r)
    BY <1>4 DEF Expire, Release, Inv, TypeOK
  <2> QED
    BY <1>2, <1>4, <2>1, TaskEnds DEF Expire
<1> QED
  BY <1>3, <1>4

(* An execution that a read ends.                                          *)
LEMMA RaisesKeeps ==
    ASSUME Inv, NEW w \in Workers, NEW r \in Runs, Raises(w, r)
    PROVE  Inv'
<1>1. Rest'
  BY DEF Raises, Inv, TypeOK, Rest
<1>2. /\ active' \in [Workers -> SUBSET Runs]
      /\ \A v \in Workers, q \in Runs :
             q \in active'[v] <=> q \in active[v] /\ ~ (v = w /\ q = r)
  BY DEF Raises, Release, Inv, TypeOK
<1> QED
  BY <1>1, <1>2, TaskEnds DEF Raises

LEMMA PostFailsKeeps ==
    ASSUME Inv, NEW w \in Workers, PostFails(w)
    PROVE  Inv'
BY DEF PostFails, Inv, TypeOK, Fresh, Handed, First, Belongs, ActiveIsExecuting, At

(* The write that ends a section.  What it needs is what Belongs, Fresh    *)
(* and First say of its task.                                              *)
LEMMA WriteKeeps ==
    ASSUME Inv, NEW w \in Workers, Write(w)
    PROVE  Inv'
<1> DEFINE op == job[w].op
           r  == job[w].run
<1>1. /\ op \in DOMAIN Outcome /\ r \in Runs
      /\ disk' = [disk EXCEPT ![r] = Outcome[op]]
      /\ UNCHANGED <<message, sweep, thread, logged>>
  BY DEF Write, Inv, TypeOK, Jobs
<1>2. PICK t \in Tasks :
          /\ task' = [task EXCEPT ![w][r] = t]
          /\ active' = IF op \in Ending THEN [active EXCEPT ![w] = @ \ {r}] ELSE active
          /\ t = IF op \in Ending THEN "none"
                 ELSE IF op \in DOMAIN Successor THEN Successor[op] ELSE task[w][r]
  <2>1. CASE op \in Ending
    BY <1>1, <2>1, Tables DEF Write, Over, Release, Ending, Tasks
  <2>2. CASE op \in DOMAIN Successor
    BY <1>1, <2>2, Tables DEF Write, Ending, Tasks
  <2>3. CASE op \in {"sweep", "cancel"}
    <3>1. task[w][r] \in Tasks /\ task = [task EXCEPT ![w][r] = task[w][r]]
      BY <1>1 DEF Inv, TypeOK
    <3> QED
      BY <1>1, <2>3, <3>1, Tables DEF Write, Ending
  <2> QED
    BY <2>1, <2>2, <2>3 DEF Write
<1>3. /\ task' \in [Workers -> [Runs -> Tasks]]
      /\ task'[w][r] = t
      /\ \A v \in Workers, q \in Runs : v # w \/ q # r => task'[v][q] = task[v][q]
  <2> HIDE DEF op, r
  <2>1. TypeOK /\ r \in Runs /\ task' = [task EXCEPT ![w][r] = t]
    BY <1>1, <1>2 DEF Inv
  <2> QED
    BY <2>1, TaskAfter
<1>4. /\ disk'[r] = Outcome[op] /\ disk'[r] # "none"
      /\ \A q \in Runs \ {r} : disk'[q] = disk[q]
      /\ job' \in [Workers -> Jobs \cup {NoJob}]
      /\ job'[w].op = "none" \/ (op = "start" /\ job'[w].op = "fail" /\ job'[w].run = r)
      /\ \A v \in Workers \ {w} : job'[v] = job[v]
  <2>1. /\ disk'[r] = Outcome[op] /\ disk'[r] # "none"
        /\ \A q \in Runs \ {r} : disk'[q] = disk[q]
    BY <1>1, Tables DEF Inv, TypeOK
  <2>2. CASE op = "start" /\ thread = "torn"
    <3>1. ToWrite(w, "fail", r) /\ "fail" \in DOMAIN Outcome
      BY <2>2, Tables DEF Write
    <3> HIDE DEF r
    <3> QED
      BY <1>1, <2>1, <2>2, <3>1, JobAfter DEF Inv
  <2>3. CASE ~ (op = "start" /\ thread = "torn")
    <3>1. job' = [job EXCEPT ![w] = NoJob]
      BY <2>3 DEF Write
    <3> QED
      BY <2>1, <3>1 DEF Inv, TypeOK, NoJob
  <2> QED
    BY <2>2, <2>3
<1>5. TypeOK'
  BY <1>1, <1>2, <1>3, <1>4, Tables DEF Inv, TypeOK
<1>6. Fresh'
  <2>1. \A v \in Workers \ {w} : ~ At(v, "create", r)
    BY <1>1, Tables DEF Inv, Fresh, At
  <2>2. ASSUME NEW v \in Workers, NEW q \in Runs, At(v, "create", q)'
        PROVE  v # w /\ q # r /\ At(v, "create", q)
    BY <1>4, <2>1, <2>2 DEF At
  <2>3. ASSUME NEW v \in Workers, NEW q \in Runs, disk'[q] = "none"
        PROVE  task'[v][q] = "none" /\ (job'[v].run = q => job'[v].op \in {"none", "create"})
    <3>1. q # r /\ disk[q] = "none"
      BY <1>4, <2>3
    <3> QED
      BY <1>3, <1>4, <3>1 DEF Inv, Fresh
  <2> QED
    BY <1>1, <1>4, <2>2, <2>3 DEF Inv, Fresh
<1>7. Handed'
  <2>1. CASE op = "ask"
    <3>1. task[w][r] = "calling" /\ t = "none"
      BY <1>1, <1>2, <2>1 DEF Inv, Belongs, Ending
    <3> QED
      BY <1>3, <1>4, <3>1 DEF Inv, Handed, First
  <2>2. CASE op # "ask"
    <3>1. disk'[r] # "requires_action"
      BY <1>1, <1>4, <2>2, Tables
    <3> QED
      BY <1>3, <1>4, <3>1 DEF Inv, Handed
  <2> QED
    BY <2>1, <2>2
<1>8. First'
  <2> SUFFICES ASSUME NEW v \in Workers, NEW q \in Runs, task'[v][q] \in {"execute", "calling"},
                      NEW u \in Workers
               PROVE  (u # v => task'[u][q] = "none") /\ ~ At(u, "claim", q)'
    BY DEF First
  <2>1. At(u, "claim", q)' => u # w /\ At(u, "claim", q)
    BY <1>4 DEF At
  <2>2. CASE q # r
    BY <1>3, <2>1, <2>2 DEF Inv, First
  <2>3. CASE q = r /\ v = w
    <3>1. op = "create" \/ task[w][r] \in {"execute", "calling"}
      BY <1>1, <1>2, <1>3, <2>3, Tables DEF Inv, Belongs
    <3>2. CASE op = "create"
      BY <1>1, <1>3, <2>1, <2>3, <3>2 DEF Inv, Fresh, At
    <3> QED
      BY <1>3, <2>1, <2>3, <3>1, <3>2 DEF Inv, First
  <2>4. CASE q = r /\ v # w
    <3>1. task[v][r] \in {"execute", "calling"}
      BY <1>3, <2>4
    <3>2. task[w][r] = "none" /\ op # "claim" /\ op # "create"
      BY <1>1, <2>4, <3>1 DEF Inv, First, Fresh, At
    <3>3. t = "none"
      BY <1>1, <1>2, <3>2, Tables DEF Inv, Belongs, Calling
    <3> QED
      BY <1>3, <2>1, <2>4, <3>1, <3>3 DEF Inv, First
  <2> QED
    BY <2>2, <2>3, <2>4
<1>9. Belongs'
  <2>1. op = "start" => task'[w][r] \in Calling
    BY <1>2, <1>3, Tables DEF Ending, Calling
  <2> QED
    BY <1>3, <1>4, <2>1 DEF Inv, Belongs
<1>10. ActiveIsExecuting'
  <2> SUFFICES ASSUME NEW v \in Workers, NEW q \in Runs
               PROVE  q \in active'[v] <=> \/ task'[v][q] \in Calling
                                           \/ At(v, "start", q)' \/ At(v, "resume", q)'
    BY <1>5 DEF ActiveIsExecuting, TypeOK
  <2>1. q \in active[v] <=> \/ task[v][q] \in Calling
                            \/ At(v, "start", q) \/ At(v, "resume", q)
    BY DEF Inv, ActiveIsExecuting
  <2>2. q \in active'[v] <=> q \in active[v] /\ ~ (v = w /\ q = r /\ op \in Ending)
    BY <1>2 DEF Inv, TypeOK
  <2>3. CASE v # w
    BY <1>3, <1>4, <2>1, <2>2, <2>3 DEF At
  <2>4. CASE v = w /\ q # r
    BY <1>3, <1>4, <2>1, <2>2, <2>4 DEF At
  <2>5. CASE v = w /\ q = r
    <3>1. t \in Calling <=> \/ op \in {"start", "resume"}
                            \/ op \notin Ending /\ task[w][r] \in Calling
      BY <1>1, <1>2, Tables DEF Inv, Belongs, Calling, Ending
    <3> QED
      BY <1>1, <1>3, <1>4, <2>1, <2>2, <2>5, <3>1 DEF At, Ending
  <2> QED
    BY <2>3, <2>4, <2>5
<1> QED
  BY <1>5, <1>6, <1>7, <1>8, <1>9, <1>10 DEF Inv

(* The write that fails: a task that was to end with a result is still     *)
(* there to fail, any other execution is over and released.                *)
LEMMA WriteFailsKeeps ==
    ASSUME Inv, NEW w \in Workers, WriteFails(w)
    PROVE  Inv'
<1> DEFINE op == job[w].op
           r  == job[w].run
<1>1. /\ op \in DOMAIN Outcome /\ r \in Runs
      /\ disk' \in {disk, [disk EXCEPT ![r] = "torn"]}
      /\ UNCHANGED <<message, thread>>
  BY DEF WriteFails, Inv, TypeOK, Jobs
<1>2. /\ disk' \in [Runs -> Statuses \cup {"none", "torn"}]
      /\ \A q \in Runs : disk'[q] = disk[q] \/ (q = r /\ disk'[q] = "torn")
  BY <1>1 DEF Inv, TypeOK
<1>3. /\ job' \in [Workers -> Jobs \cup {NoJob}]
      /\ \/ job'[w].op = "none"
         \/ op \in {"ask", "complete"} /\ job'[w].op = "fail" /\ job'[w].run = r
      /\ \A v \in Workers \ {w} : job'[v] = job[v]
  <2>1. CASE op \in {"ask", "complete"}
    <3>1. ToWrite(w, "fail", r) /\ "fail" \in DOMAIN Outcome
      BY <2>1, Tables DEF WriteFails
    <3> HIDE DEF r
    <3> QED
      BY <1>1, <2>1, <3>1, JobAfter DEF Inv
  <2>2. CASE op \notin {"ask", "complete"}
    <3>1. job' = [job EXCEPT ![w] = NoJob]
      BY <2>2 DEF WriteFails
    <3> QED
      BY <3>1 DEF Inv, TypeOK, NoJob
  <2> QED
    BY <2>1, <2>2
<1>4. /\ task' \in [Workers -> [Runs -> Tasks]]
      /\ task'[w][r] = IF op \in {"start", "resume", "fail", "expire"} THEN "none" ELSE task[w][r]
      /\ \A v \in Workers, q \in Runs : v # w \/ q # r => task'[v][q] = task[v][q]
  <2>1. CASE op \in {"start", "resume", "fail", "expire"}
    <3>1. task' = [task EXCEPT ![w][r] = "none"] /\ "none" \in Tasks
      BY <2>1 DEF WriteFails, Over, Tasks
    <3>2. TypeOK /\ r \in Runs
      BY <1>1 DEF Inv
    <3> HIDE DEF r
    <3>3. /\ task' \in [Workers -> [Runs -> Tasks]]
          /\ task'[w][r] = "none"
          /\ \A v \in Workers, q \in Runs : v # w \/ q # r => task'[v][q] = task[v][q]
      BY <3>1, <3>2, TaskAfter
    <3> QED
      BY <2>1, <3>3
  <2>2. CASE op \notin {"start", "resume", "fail", "expire"}
    BY <1>1, <2>2, Tables DEF WriteFails, Inv, TypeOK
  <2> QED
    BY <2>1, <2>2
<1>5. \A v \in Workers, q \in Runs :
          q \in active'[v] <=>
              q \in active[v] /\ ~ (v = w /\ q = r /\ op \in {"start", "resume", "fail", "expire"})
  <2>1. CASE op \in {"start", "resume", "fail", "expire"}
    BY <1>1, <2>1 DEF WriteFails, Release, Inv, TypeOK
  <2>2. CASE op \notin {"start", "resume", "fail", "expire"}
    BY <1>1, <2>2, Tables DEF WriteFails
  <2> QED
    BY <2>1, <2>2
<1>6. TypeOK'
  <2>1. active' \in [Workers -> SUBSET Runs]
    BY <1>1, Tables DEF WriteFails, Release, Inv, TypeOK
  <2>2. sweep' \in [Workers -> SUBSET Runs] /\ logged' \subseteq Runs
    BY <1>1, Tables DEF WriteFails, Inv, TypeOK
  <2> QED
    BY <1>1, <1>2, <1>3, <1>4, <2>1, <2>2 DEF Inv, TypeOK
<1>7. Fresh'
  <2>1. ASSUME NEW v \in Workers, NEW q \in Runs, At(v, "create", q)'
        PROVE  v # w /\ At(v, "create", q)
    BY <1>3, <2>1 DEF At
  <2>2. op = "create" => \A v \in Workers \ {w} : ~ At(v, "create", r)
    BY <1>1 DEF Inv, Fresh, At
  <2>3. ASSUME NEW v \in Workers, NEW q \in Runs, At(v, "create", q)'
        PROVE  disk'[q] = "none" /\ \A u \in Workers : At(u, "create", q)' => u = v
    <3>1. disk[q] = "none" /\ \A u \in Workers : At(u, "create", q) => u = v
      BY <2>1, <2>3 DEF Inv, Fresh
    <3>2. q # r
      BY <1>1, <2>1, <2>2, <2>3, <3>1, Tables DEF Inv, Fresh, At
    <3> QED
      BY <1>2, <2>1, <3>1, <3>2
  <2>4. ASSUME NEW v \in Workers, NEW q \in Runs, disk'[q] = "none"
        PROVE  task'[v][q] = "none" /\ (job'[v].run = q => job'[v].op \in {"none", "create"})
    <3>1. disk[q] = "none"
      BY <1>2, <2>4
    <3>2. /\ task[v][q] = "none" /\ (job[v].run = q => job[v].op \in {"none", "create"})
          /\ (job[w].run = q => job[w].op \in {"none", "create"})
      BY <3>1 DEF Inv, Fresh
    <3> QED
      BY <1>3, <1>4, <3>2
  <2> QED
    BY <2>3, <2>4 DEF Fresh
<1>8. Handed'
  BY <1>2, <1>4 DEF Inv, Handed
<1>9. First'
  BY <1>3, <1>4 DEF Inv, First, At
<1>10. Belongs'
  <2>1. op \in {"ask", "complete"} => task[w][r] \in Calling
    BY <1>1 DEF Inv, Belongs, Calling
  <2> QED
    BY <1>3, <1>4, <2>1 DEF Inv, Belongs
<1>11. ActiveIsExecuting'
  <2> SUFFICES ASSUME NEW v \in Workers, NEW q \in Runs
               PROVE  q \in active'[v] <=> \/ task'[v][q] \in Calling
                                           \/ At(v, "start", q)' \/ At(v, "resume", q)'
    BY <1>6 DEF ActiveIsExecuting, TypeOK
  <2>1. q \in active[v] <=> \/ task[v][q] \in Calling
                            \/ At(v, "start", q) \/ At(v, "resume", q)
    BY DEF Inv, ActiveIsExecuting
  <2>2. CASE v # w
    BY <1>3, <1>4, <1>5, <2>1, <2>2 DEF At
  <2>3. CASE v = w /\ q # r
    BY <1>3, <1>4, <1>5, <2>1, <2>3 DEF At
  <2>4. CASE v = w /\ q = r
    BY <1>1, <1>3, <1>4, <1>5, <2>1, <2>4 DEF At, Calling
  <2> QED
    BY <2>2, <2>3, <2>4
<1> QED
  BY <1>6, <1>7, <1>8, <1>9, <1>10, <1>11 DEF Inv

-----------------------------------------------------------------------------
(* The end of a process, and its next start.                               *)
LEMMA RestartKeeps ==
    ASSUME Inv, NEW w \in Workers, NEW files, Restart(w, files), thread' \in {"readable", "torn"},
           \/ files = disk
           \/ job[w] # NoJob /\ files = [disk EXCEPT ![job[w].run] = "torn"]
    PROVE  Inv'
<1>1. /\ \A q \in Runs : task'[w][q] = "none"
      /\ \A v \in Workers \ {w} : task'[v] = task[v] /\ active'[v] = active[v] /\ job'[v] = job[v]
      /\ active'[w] = {} /\ job'[w] = NoJob
  BY DEF Restart, Inv, TypeOK
<1>2. /\ disk' \in [Runs -> Statuses \cup {"none", "torn"}]
      /\ \A q \in Runs : disk'[q] = disk[q] \/ (disk'[q] = "torn" /\ job[w].run = q /\ job[w] # NoJob)
  BY DEF Restart, Inv, TypeOK, Jobs
<1>3. TypeOK'
  BY <1>2 DEF Restart, Inv, TypeOK, Tasks
<1>4. Fresh'
  <2> SUFFICES ASSUME NEW v \in Workers, NEW q \in Runs
               PROVE  /\ disk'[q] = "none" => /\ task'[v][q] = "none"
                                              /\ (job'[v].run = q => job'[v].op \in {"none", "create"})
                      /\ At(v, "create", q)' =>
                             disk'[q] = "none" /\ \A u \in Workers : At(u, "create", q)' => u = v
    BY DEF Fresh
  <2>1. disk'[q] = "none" => task'[v][q] = "none" /\ (v # w => (job'[v].run = q => job'[v].op \in {"none", "create"}))
    BY <1>1, <1>2 DEF Inv, Fresh
  <2>2. ASSUME At(v, "create", q)'
        PROVE  v # w /\ At(v, "create", q)
    BY <1>1, <2>2 DEF At, NoJob
  <2>3. job'[w].op = "none"
    BY <1>1 DEF NoJob
  <2>4. ASSUME At(v, "create", q)'
        PROVE  disk'[q] = "none"
    <3>1. disk[q] = "none" /\ ~ At(w, "create", q)
      BY <2>2, <2>4 DEF Inv, Fresh
    <3>2. job[w] # NoJob => job[w].op # "none"
      BY Tables DEF Inv, TypeOK, Jobs
    <3> QED
      BY <1>2, <3>1, <3>2 DEF Inv, Fresh, At
  <2>5. ASSUME At(v, "create", q)', NEW u \in Workers, At(u, "create", q)'
        PROVE  u = v
    <3>1. u # w /\ At(u, "create", q)
      BY <1>1, <2>5 DEF At, NoJob
    <3> QED
      BY <2>2, <2>5, <3>1 DEF Inv, Fresh
  <2> QED
    BY <2>1, <2>3, <2>4, <2>5
<1>5. Handed'
  BY <1>1, <1>2 DEF Inv, Handed
<1>6. First'
  BY <1>1 DEF Inv, First, At, NoJob
<1>7. Belongs'
  BY <1>1 DEF Inv, Belongs, NoJob
<1>8. ActiveIsExecuting'
  BY <1>1 DEF Inv, ActiveIsExecuting, At, NoJob, Calling
<1> QED
  BY <1>3, <1>4, <1>5, <1>6, <1>7, <1>8 DEF Inv

LEMMA CrashKeeps ==
    ASSUME Inv, NEW w \in Workers, Crash(w)
    PROVE  Inv'
<1>1. thread \in {"readable", "torn"}
  BY DEF Inv, TypeOK
<1> QED
  BY <1>1, RestartKeeps DEF Crash

LEMMA SweepKeeps ==
    ASSUME Inv, NEW w \in Workers, Sweep(w)
    PROVE  Inv'
<1> PICK r \in sweep[w] : /\ sweep' = [sweep EXCEPT ![w] = @ \ {r}]
                          /\ IF disk[r] \in Live THEN ToWrite(w, "sweep", r) ELSE UNCHANGED job
  BY DEF Sweep
<1>1. r \in Runs /\ Rest'
  BY DEF Sweep, Inv, TypeOK, Rest
<1>2. CASE disk[r] \in Live
  BY <1>1, <1>2, Tables, SectionBegins DEF Sweep, Live
<1>3. CASE disk[r] \notin Live
  <2>1. UNCHANGED <<disk, message, task, active, job>>
    BY <1>3 DEF Sweep
  <2> QED
    BY <1>1, <2>1 DEF Inv, TypeOK, Rest, Fresh, Handed, First, Belongs, ActiveIsExecuting, At
<1> QED
  BY <1>2, <1>3

-----------------------------------------------------------------------------
LEMMA InvInit == Init => Inv
BY DEF Init, Inv, TypeOK, Fresh, Handed, First, Belongs, ActiveIsExecuting, At, NoJob, Tasks,
       Calling

LEMMA InvNext == Inv /\ [Next]_vars => Inv'
<1> SUFFICES ASSUME Inv, [Next]_vars
             PROVE  Inv'
  OBVIOUS
<1>1. CASE UNCHANGED vars
  BY <1>1 DEF vars, Inv, TypeOK, Fresh, Handed, First, Belongs, ActiveIsExecuting, At
<1>2. ASSUME NEW w \in Workers, Clients(w)
      PROVE  Inv'
  BY <1>2, CreateKeeps, ClaimKeeps, CancelKeeps, PostFailsKeeps DEF Clients
<1>3. ASSUME NEW w \in Workers, NEW r \in Runs, Execution(w, r)
      PROVE  Inv'
  BY <1>3, StartKeeps, ResumeKeeps, AnsweredKeeps, ToolCallsKeeps, CallFailsKeeps, ExpireKeeps,
     RaisesKeeps
     DEF Execution
<1> QED
  BY <1>1, <1>2, <1>3, WriteKeeps, WriteFailsKeeps, SweepKeeps, CrashKeeps DEF Next, Section

LEMMA Invariance == Spec => []Inv
BY InvInit, InvNext, PTL DEF Spec

(* All variables keep their types, however many processes share the files. *)
THEOREM TypeCorrect == Spec => []TypeOK
<1>1. Inv => TypeOK
  BY DEF Inv
<1> QED
  BY <1>1, Invariance, PTL

(* No id is left behind in _active_run_ids, whatever ends an execution.    *)
THEOREM ActiveExact == Spec => []ActiveIsExecuting
<1>1. Inv => ActiveIsExecuting
  BY DEF Inv
<1> QED
  BY <1>1, Invariance, PTL
-----------------------------------------------------------------------------
(* One process: nobody writes between its reading and its writing.         *)
LEMMA OneBegins ==
    ASSUME NEW w \in Workers, OneInv(w), NEW r \in Runs, NEW op \in DOMAIN Outcome, job[w] = NoJob,
           ToWrite(w, op, r), UNCHANGED <<disk, task>>,
           \/ sweep' = sweep /\ sweep[w] = {}
           \/ op = "sweep" /\ sweep[w] # {} /\ \A q \in Runs : task[w][q] = "none",
           message' = IF op = "complete" THEN [message EXCEPT ![r] = @ + 1] ELSE message,
           op = "complete" => task[w][r] # "none",
           op = "claim" => disk[r] = "requires_action",
           op = "resume" => disk[r] = "in_progress",
           op = "cancel" => disk[r] \in Statuses \ Terminal,
           op = "sweep" => disk[r] \in Live /\ sweep[w] # {}
    PROVE  Sequential(w)' /\ AnswersFit(w)'
<1>1. /\ job'[w].op = op /\ job'[w].run = r
      /\ job[w].op = "none"
  BY JobAfter DEF OneInv, Inv, NoJob
<1>2. Sequential(w)'
  BY <1>1 DEF OneInv, Sequential, At, Statuses, Terminal, Live
<1>3. message[r] \in Nat /\ \A q \in Runs : message'[q] = message[q] + (IF op = "complete" /\ q = r THEN 1 ELSE 0)
  BY DEF OneInv, Inv, TypeOK
<1>4. op = "complete" => message[r] = 0 /\ disk[r] # "completed"
  BY <1>1 DEF OneInv, Sequential, AnswersFit, Stored, At, Inv, TypeOK, Tasks
<1>5. AnswersFit(w)'
  BY <1>1, <1>3, <1>4 DEF OneInv, AnswersFit, Stored, At
<1> QED
  BY <1>2, <1>5

LEMMA OneTaskEnds ==
    ASSUME NEW w \in Workers, OneInv(w), NEW r \in Runs, job[w] = NoJob, Over(w, r),
           UNCHANGED <<disk, job, message, sweep>>
    PROVE  Sequential(w)' /\ AnswersFit(w)'
<1>1. \A q \in Runs : task'[w][q] = IF q = r THEN "none" ELSE task[w][q]
  BY DEF Over, OneInv, Inv, TypeOK
<1>2. job[w].op = "none"
  BY DEF NoJob
<1> QED
  BY <1>1, <1>2 DEF OneInv, Sequential, AnswersFit, Stored, At

(* What a section is about to overwrite, by its operation.                 *)
LEMMA OneFinds ==
    ASSUME NEW w \in Workers, OneInv(w), job[w] # NoJob,
           NEW op, op = job[w].op, NEW r, r = job[w].run
    PROVE  /\ op \in DOMAIN Outcome /\ r \in Runs
           /\ op = "create" => disk[r] = "none"
           /\ op = "start" => task[w][r] = "execute"
           /\ op = "claim" => disk[r] = "requires_action" /\ task[w][r] = "none"
           /\ op = "resume" => disk[r] = "in_progress" /\ task[w][r] = "submit"
           /\ op = "ask" => task[w][r] = "calling"
           /\ op \in {"complete", "fail", "expire"} => task[w][r] \in Calling
           /\ op = "sweep" => disk[r] \in {"queued", "in_progress"} /\ task[w][r] = "none"
           /\ op = "cancel" => disk[r] \in {"queued", "in_progress", "requires_action"}
           /\ disk[r] \notin {"completed", "failed"}
           /\ disk[r] = "cancelled" => task[w][r] \in Calling \cup {"execute"}
<1>1. op \in DOMAIN Outcome /\ r \in Runs
  BY DEF OneInv, Inv, TypeOK, Jobs
<1>2. At(w, op, r)
  BY DEF At
<1>3. /\ op = "create" => disk[r] = "none"
      /\ op = "start" => task[w][r] = "execute"
      /\ op = "claim" => disk[r] = "requires_action" /\ task[w][r] = "none"
      /\ op = "resume" => disk[r] = "in_progress" /\ task[w][r] = "submit"
      /\ op = "ask" => task[w][r] = "calling"
      /\ op \in {"complete", "fail", "expire"} => task[w][r] \in Calling
      /\ op = "sweep" => disk[r] \in {"queued", "in_progress"} /\ task[w][r] = "none"
      /\ op = "cancel" => disk[r] \in {"queued", "in_progress", "requires_action"}
  BY <1>1 DEF OneInv, Inv, Fresh, Belongs, Sequential, At
<1>4. /\ task[w][r] = "execute" => disk[r] \in {"queued", "cancelled", "torn"}
      /\ task[w][r] \in Calling => disk[r] \in {"in_progress", "cancelled", "torn"}
  BY <1>1 DEF OneInv, Sequential, Calling
<1>5. disk[r] \notin {"completed", "failed"}
  BY <1>1, <1>3, <1>4, Tables DEF Calling
<1>6. disk[r] = "cancelled" => task[w][r] \in Calling \cup {"execute"}
  BY <1>1, <1>3, <1>4, Tables DEF Calling
<1> QED
  BY <1>1, <1>3, <1>5, <1>6

LEMMA OneWrite ==
    ASSUME NEW w \in Workers, OneInv(w), Write(w)
    PROVE  Sequential(w)' /\ AnswersFit(w)'
<1> DEFINE op == job[w].op
           r  == job[w].run
<1>1. /\ op \in DOMAIN Outcome /\ r \in Runs /\ message' = message /\ sweep' = sweep
      /\ \A q \in Runs : disk'[q] = IF q = r THEN Outcome[op] ELSE disk[q]
      /\ job'[w].op = "none" \/ (op = "start" /\ job'[w].op = "fail" /\ job'[w].run = r)
  BY DEF Write, ToWrite, OneInv, Inv, TypeOK, Jobs, NoJob
<1>2. \A q \in Runs : task'[w][q] =
          IF q # r THEN task[w][q]
          ELSE IF op \in Ending THEN "none"
          ELSE IF op \in DOMAIN Successor THEN Successor[op] ELSE task[w][q]
  BY <1>1, Tables DEF Write, OneInv, Inv, TypeOK, Over, Ending
<1>3. /\ op = "create" => disk[r] = "none"
      /\ op = "start" => task[w][r] = "execute"
      /\ op = "claim" => disk[r] = "requires_action" /\ task[w][r] = "none"
      /\ op = "resume" => disk[r] = "in_progress" /\ task[w][r] = "submit"
      /\ op = "ask" => task[w][r] = "calling"
      /\ op \in {"complete", "fail", "expire"} => task[w][r] \in Calling
      /\ op = "sweep" => task[w][r] = "none"
  BY OneFinds DEF Write
<1>7. Sequential(w)'
  <2>1. sweep'[w] # {} => \A q \in Runs : task'[w][q] = "none"
    BY <1>1, <1>2, Tables DEF OneInv, Sequential, Ending
  <2>2. \A q \in Runs :
          /\ task'[w][q] = "execute" => disk'[q] \in {"queued", "cancelled", "torn"}
          /\ task'[w][q] \in {"calling", "submit", "answering"} =>
                 disk'[q] \in {"in_progress", "cancelled", "torn"}
    <3> SUFFICES ASSUME NEW q \in Runs
                 PROVE  /\ task'[w][q] = "execute" => disk'[q] \in {"queued", "cancelled", "torn"}
                        /\ task'[w][q] \in {"calling", "submit", "answering"} =>
                               disk'[q] \in {"in_progress", "cancelled", "torn"}
      OBVIOUS
    <3>1. CASE q # r
      BY <1>1, <1>2, <3>1 DEF OneInv, Sequential
    <3>2. CASE q = r
      BY <1>1, <1>2, <1>3, <3>2, Tables DEF Ending
    <3> QED
      BY <3>1, <3>2
  <2>3. op = "start" => sweep[w] = {}
    BY DEF OneInv, Sequential
  <2> QED
    BY <1>1, <2>1, <2>2, <2>3 DEF Sequential, At
<1>8. AnswersFit(w)'
  <2> SUFFICES ASSUME NEW q \in Runs
               PROVE  /\ disk'[q] \in {"none", "requires_action"} \/ task'[w][q] # "none" =>
                             message[q] = 0
                      /\ disk'[q] = "completed" => message[q] = 1
                      /\ message[q] <= 1
    BY <1>1 DEF AnswersFit, Stored, At
  <2>1. /\ disk[q] \in {"none", "requires_action"} \/ task[w][q] # "none" =>
               message[q] \in IF op = "complete" /\ r = q THEN {1}
                              ELSE IF op = "fail" /\ r = q THEN {0, 1} ELSE {0}
        /\ disk[q] = "completed" => message[q] = 1
        /\ message[q] <= 1
    BY DEF OneInv, AnswersFit, Stored, At
  <2>2. CASE q # r
    BY <1>1, <1>2, <2>1, <2>2
  <2>3. CASE q = r
    BY <1>1, <1>2, <1>3, <2>1, <2>3, Tables DEF Ending, Calling
  <2> QED
    BY <2>2, <2>3
<1> QED
  BY <1>7, <1>8

LEMMA OneWriteFails ==
    ASSUME NEW w \in Workers, OneInv(w), WriteFails(w)
    PROVE  Sequential(w)' /\ AnswersFit(w)'
<1> DEFINE op == job[w].op
           r  == job[w].run
<1>1. /\ op \in DOMAIN Outcome /\ r \in Runs /\ message' = message
      /\ \A q \in Runs : disk'[q] = disk[q] \/ disk'[q] = "torn"
      /\ \/ job'[w].op = "none"
         \/ op \in {"ask", "complete"} /\ job'[w].op = "fail" /\ job'[w].run = r
      /\ op \in {"ask", "complete"} => job'[w].op = "fail" /\ job'[w].run = r
  BY DEF WriteFails, ToWrite, OneInv, Inv, TypeOK, Jobs, NoJob
<1>2. \A q \in Runs :
          /\ task'[w][q] \in {"none", task[w][q]}
          /\ q = r /\ op = "fail" => task'[w][q] = "none"
  BY <1>1, Tables DEF WriteFails, Over, OneInv, Inv, TypeOK
<1>3. op \in {"complete", "fail"} => task[w][r] \in Calling
  BY OneFinds DEF WriteFails
<1>4. Sequential(w)'
  <2>1. sweep'[w] = {}
    BY <1>1, Tables DEF WriteFails, OneInv, Inv, TypeOK, Sequential
  <2> QED
    BY <1>1, <1>2, <2>1 DEF OneInv, Sequential, At
<1>5. AnswersFit(w)'
  <2> SUFFICES ASSUME NEW q \in Runs
               PROVE  /\ disk'[q] \in {"none", "requires_action"} \/ task'[w][q] # "none" =>
                             message[q] \in Stored(w, q)'
                      /\ disk'[q] = "completed" => message[q] = 1
                      /\ message[q] <= 1
    BY <1>1 DEF AnswersFit
  <2>1. /\ disk[q] \in {"none", "requires_action"} \/ task[w][q] # "none" =>
               message[q] \in Stored(w, q)
        /\ disk[q] = "completed" => message[q] = 1
        /\ message[q] <= 1
    BY DEF OneInv, AnswersFit
  <2>2. At(w, "fail", q) => disk[q] \notin {"none", "requires_action"} /\ task'[w][q] = "none"
    BY <1>2, <1>3 DEF At, OneInv, Sequential, Calling
  <2>3. disk[q] \in {"none", "requires_action"} \/ task[w][q] # "none" =>
            At(w, "fail", q) \/ message[q] \in Stored(w, q)'
    BY <1>1, <2>1 DEF Stored, At
  <2> QED
    BY <1>1, <1>2, <2>1, <2>2, <2>3
<1> QED
  BY <1>4, <1>5

LEMMA OneRestart ==
    ASSUME NEW w \in Workers, OneInv(w), Crash(w)
    PROVE  Sequential(w)' /\ AnswersFit(w)'
<1>1. PICK files :
          /\ Restart(w, files)
          /\ \/ files = disk
             \/ job[w] # NoJob /\ files = [disk EXCEPT ![job[w].run] = "torn"]
  BY DEF Crash
<1>2. /\ \A q \in Runs : task'[w][q] = "none"
      /\ job'[w].op = "none" /\ message' = message
  BY <1>1 DEF Restart, OneInv, Inv, TypeOK, NoJob
<1>3. \A q \in Runs : disk'[q] = disk[q] \/ disk'[q] = "torn"
  BY <1>1 DEF Restart, OneInv, Inv, TypeOK, Jobs
<1>4. Sequential(w)'
  BY <1>2 DEF Sequential, At
<1>5. ASSUME NEW q \in Runs, disk[q] \in {"none", "requires_action"},
             At(w, "complete", q) \/ At(w, "fail", q)
      PROVE  FALSE
  <2>1. task[w][q] \in Calling
    BY <1>5 DEF OneInv, Inv, Belongs, At
  <2> QED
    BY <1>5, <2>1 DEF OneInv, Sequential, Calling
<1>6. AnswersFit(w)'
  BY <1>2, <1>3, <1>5 DEF OneInv, AnswersFit, Stored, At
<1> QED
  BY <1>4, <1>6
(* With one process every step is a write of its, a crash of its, or       *)
(* leaves the files alone.                                                 *)
LEMMA OneStep ==
    ASSUME NEW w \in Workers, Workers = {w}, OneInv(w), [Next]_vars
    PROVE  /\ OneInv(w)'
           /\ \A r \in Runs : disk'[r] # disk[r] => job[w] # NoJob /\ job[w].run = r
           /\ \A r \in Runs : message'[r] # message[r] => task[w][r] \in Calling
<1>1. Inv'
  BY InvNext DEF OneInv
<1> USE Tables
<1>2. CASE UNCHANGED vars
  BY <1>1, <1>2 DEF vars, OneInv, Sequential, AnswersFit, Stored, At
<1>3. CASE Write(w)
  <2>1. /\ message' = message /\ job[w] # NoJob
        /\ \A r \in Runs : disk'[r] # disk[r] => job[w].run = r
    BY <1>3 DEF Write, OneInv, Inv, TypeOK
  <2> QED
    BY <1>1, <1>3, <2>1, OneWrite DEF OneInv
<1>4. CASE Crash(w)
  <2>1. /\ message' = message
        /\ \A r \in Runs : disk'[r] # disk[r] => job[w] # NoJob /\ job[w].run = r
    BY <1>4 DEF Crash, Restart, OneInv, Inv, TypeOK
  <2> QED
    BY <1>1, <1>4, <2>1, OneRestart DEF OneInv
<1>5. CASE Sweep(w)
  <2>1. PICK r \in sweep[w] : /\ sweep' = [sweep EXCEPT ![w] = @ \ {r}]
                              /\ IF disk[r] \in Live THEN ToWrite(w, "sweep", r) ELSE UNCHANGED job
    BY <1>5 DEF Sweep
  <2>2. r \in Runs /\ \A q \in Runs : task[w][q] = "none"
    BY DEF OneInv, Inv, TypeOK, Sequential
  <2>3. CASE disk[r] \in Live
    BY <1>1, <1>5, <2>1, <2>2, <2>3, OneBegins DEF Sweep, OneInv
  <2>4. CASE disk[r] \notin Live
    BY <1>1, <1>5, <2>1, <2>2, <2>4 DEF Sweep, OneInv, Sequential, AnswersFit, Stored, At
  <2> QED
    BY <2>3, <2>4
<1>6. ASSUME NEW r \in Runs, Create(w, r) \/ Claim(w, r) \/ Cancel(w, r)
      PROVE  Sequential(w)' /\ AnswersFit(w)' /\ disk' = disk /\ message' = message
  BY <1>6, OneBegins DEF Create, Claim, Cancel, Free
<1>7. ASSUME NEW r \in Runs, Start(w, r) \/ ToolCalls(w, r) \/ CallFails(w, r)
      PROVE  Sequential(w)' /\ AnswersFit(w)' /\ disk' = disk /\ message' = message
  BY <1>7, OneBegins, OneTaskEnds DEF Start, ToolCalls, CallFails, Free
<1>8. ASSUME NEW r \in Runs, Answered(w, r)
      PROVE  /\ Sequential(w)' /\ AnswersFit(w)' /\ disk' = disk
             /\ \A q \in Runs : message'[q] # message[q] => task[w][q] \in Calling
  <2>1. Sequential(w)' /\ AnswersFit(w)'
    BY <1>8, OneBegins DEF Answered, Free, Calling
  <2> QED
    BY <1>8, <2>1 DEF Answered, OneInv, Inv, TypeOK
<1>9. ASSUME NEW r \in Runs, Resume(w, r)
      PROVE  Sequential(w)' /\ AnswersFit(w)' /\ disk' = disk /\ message' = message
  <2>1. disk[r] # "requires_action"
    BY <1>9 DEF Resume, OneInv, Sequential
  <2>2. CASE disk[r] = "in_progress" /\ r \notin active[w]
    BY <1>9, <2>2, OneBegins DEF Resume, Free
  <2>3. CASE ~ (disk[r] = "in_progress" /\ r \notin active[w])
    BY <1>9, <2>1, <2>3, OneTaskEnds DEF Resume, Free
  <2> QED
    BY <2>2, <2>3
<1>10. ASSUME NEW r \in Runs, Expire(w, r)
       PROVE  Sequential(w)' /\ AnswersFit(w)' /\ disk' = disk /\ message' = message
  <2>1. CASE disk[r] \in Live
    BY <1>10, <2>1, OneBegins DEF Expire, Free
  <2>2. CASE disk[r] \notin Live
    BY <1>10, <2>2, OneTaskEnds DEF Expire, Free
  <2> QED
    BY <2>1, <2>2
<1>11. CASE PostFails(w)
  BY <1>1, <1>11 DEF PostFails, OneInv, Sequential, AnswersFit, Stored, At
<1>12. ASSUME NEW r \in Runs, Raises(w, r)
       PROVE  Sequential(w)' /\ AnswersFit(w)' /\ disk' = disk /\ message' = message
  BY <1>12, OneTaskEnds DEF Raises, Free
<1>13. CASE WriteFails(w)
  <2>1. /\ message' = message /\ job[w] # NoJob
        /\ \A r \in Runs : disk'[r] # disk[r] => job[w].run = r
    BY <1>13 DEF WriteFails, OneInv, Inv, TypeOK
  <2> QED
    BY <1>1, <1>13, <2>1, OneWriteFails DEF OneInv
<1> QED
  BY <1>1, <1>2, <1>3, <1>4, <1>5, <1>6, <1>7, <1>8, <1>9, <1>10, <1>11, <1>12, <1>13
     DEF Next, Clients, Section, Execution, OneInv, Sweep, vars

LEMMA OneInit == ASSUME NEW w \in Workers PROVE Init => OneInv(w)
BY InvInit DEF Init, OneInv, Sequential, AnswersFit, Stored, At, NoJob

(* With one process a run puts at most one answer into its thread.         *)
THEOREM OneWorkerAnswersOnce ==
    ASSUME NEW w \in Workers, Workers = {w}
    PROVE  Spec => []AnsweredOnce
<1>1. OneInv(w) => AnsweredOnce
  BY DEF OneInv, AnswersFit, AnsweredOnce
<1>2. OneInv(w) /\ [Next]_vars => OneInv(w)'
  BY OneStep
<1> QED
  BY <1>1, <1>2, OneInit, PTL DEF Spec

(* With one process nothing touches a run that completed or failed.        *)
THEOREM OneWorkerFinal ==
    ASSUME NEW w \in Workers, Workers = {w}
    PROVE  Spec => FinalStays
<1>1. OneInv(w) /\ [Next]_vars => OneInv(w)'
  BY OneStep
<1>2. OneInv(w) /\ [Next]_vars =>
          [\A r \in Runs : disk[r] \in {"completed", "failed"} => disk'[r] = disk[r]]_vars
  <2> SUFFICES ASSUME OneInv(w), [Next]_vars, NEW r \in Runs, disk[r] \in {"completed", "failed"}
               PROVE  disk'[r] = disk[r]
    OBVIOUS
  <2> QED
    BY OneStep, OneFinds
<1> QED
  BY <1>1, <1>2, OneInit, PTL DEF Spec, FinalStays

(* With one process a cancelled run stays so once its model is not asked.  *)
THEOREM OneWorkerCancels ==
    ASSUME NEW w \in Workers, Workers = {w}
    PROVE  Spec => CancelHolds
<1>1. OneInv(w) /\ [Next]_vars => OneInv(w)'
  BY OneStep
<1>2. OneInv(w) /\ [Next]_vars =>
          [\A r \in Runs : disk[r] = "cancelled" /\ ~ Executing(r) =>
                disk'[r] = "cancelled" /\ message'[r] = message[r]]_vars
  <2> SUFFICES ASSUME OneInv(w), [Next]_vars, NEW r \in Runs, disk[r] = "cancelled", ~ Executing(r)
               PROVE  disk'[r] = "cancelled" /\ message'[r] = message[r]
    OBVIOUS
  <2>1. task[w][r] \notin Calling \cup {"execute"}
    BY DEF Executing
  <2> QED
    BY <2>1, OneStep, OneFinds
<1> QED
  BY <1>1, <1>2, OneInit, PTL DEF Spec, CancelHolds
=============================================================================
