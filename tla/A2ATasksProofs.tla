--------------------------- MODULE A2ATasksProofs ---------------------------
(***************************************************************************)
(* Proofs about A2ATasks, for any number of tasks and faults: what holds   *)
(* for any number of gateway processes, and what needs that there is one.  *)
(***************************************************************************)
EXTENDS A2ATasks, TLAPS

(* The states of a task and where they lead, spelt out.                    *)
LEMMA Transitions ==
    /\ TaskState = {"submitted", "working", "completed", "failed", "cancelled"}
    /\ TERMINAL_STATES = {"completed", "failed", "cancelled"}
    /\ VALID_TRANSITIONS["submitted"] = {"working", "failed", "cancelled"}
    /\ VALID_TRANSITIONS["working"] = {"completed", "failed", "cancelled"}
    /\ \A s \in TERMINAL_STATES : VALID_TRANSITIONS[s] = {}
<1> USE DEF TaskState, TERMINAL_STATES, VALID_TRANSITIONS, Lifecycle!TaskState,
            Lifecycle!TERMINAL_STATES, Lifecycle!VALID_TRANSITIONS
<1>1. TaskState = {"submitted", "working", "completed", "failed", "cancelled"}
  OBVIOUS
<1>2. /\ VALID_TRANSITIONS["submitted"] = {"working", "failed", "cancelled"}
      /\ VALID_TRANSITIONS["working"] = {"completed", "failed", "cancelled"}
      /\ VALID_TRANSITIONS["completed"] = {}
      /\ VALID_TRANSITIONS["failed"] = {}
      /\ VALID_TRANSITIONS["cancelled"] = {}
  OBVIOUS
<1>3. TERMINAL_STATES = {s \in TaskState : VALID_TRANSITIONS[s] = {}}
  OBVIOUS
<1> HIDE DEF TaskState, TERMINAL_STATES, VALID_TRANSITIONS
<1> QED
  BY <1>1, <1>2, <1>3

-----------------------------------------------------------------------------
(* Any number of processes.                                                *)
Path(events) ==
    /\ events # <<>>
    /\ events[1] = "submitted"
    /\ \A i \in 1 .. Len(events) - 1 : events[i + 1] \in VALID_TRANSITIONS[events[i]]

(* A request is about a task that is in the table, and what it is about to *)
(* write extends a path, though no longer the one in the table perhaps.    *)
Sound(rows, j) ==
    /\ rows[j.task] # <<>>
    /\ j.kind = "finish" => j.to \in TERMINAL_STATES
    /\ j.step = "write" => /\ Path(j.seen)
                           /\ j.to \in VALID_TRANSITIONS[StateOf(j.seen)]

JobsSound == \A w \in Workers : ~ Free(w) => Sound(row, job[w])

RunningExist == \A w \in Workers : \A t \in running[w] : row[t] # <<>>

Inv == TypeOK /\ EventsArePath /\ JobsSound /\ RunningExist

(* A path read from the table, followed by a legal transition, is a path.  *)
LEMMA PathExtends ==
    ASSUME NEW e \in Seq(TaskState), Path(e),
           NEW s \in TaskState, s \in VALID_TRANSITIONS[StateOf(e)]
    PROVE  /\ Append(e, s) \in Seq(TaskState)
           /\ Path(Append(e, s))
           /\ StateOf(Append(e, s)) = s
<1>1. Append(e, s) \in Seq(TaskState) /\ Len(Append(e, s)) = Len(e) + 1
  OBVIOUS
<1>2. Len(e) \in Nat /\ Len(e) >= 1
  BY DEF Path
<1>3. \A i \in 1 .. Len(e) : Append(e, s)[i] = e[i]
  OBVIOUS
<1>4. Append(e, s)[Len(e) + 1] = s
  OBVIOUS
<1>5. StateOf(e) = e[Len(e)]
  BY DEF Path, StateOf
<1>6. ASSUME NEW i \in 1 .. Len(Append(e, s)) - 1
      PROVE  Append(e, s)[i + 1] \in VALID_TRANSITIONS[Append(e, s)[i]]
  <2>1. CASE i = Len(e)
    BY <2>1, <1>2, <1>3, <1>4, <1>5
  <2>2. CASE i # Len(e)
    <3>1. i \in 1 .. Len(e) - 1 /\ i + 1 \in 1 .. Len(e)
      BY <2>2, <1>1, <1>2
    <3> QED
      BY <3>1, <1>2, <1>3 DEF Path
  <2> QED
    BY <2>1, <2>2
<1> QED
  BY <1>1, <1>2, <1>3, <1>4, <1>6 DEF Path, StateOf

LEMMA InitInv == Init => Inv
<1> SUFFICES ASSUME Init PROVE Inv
  OBVIOUS
<1>1. TypeOK
  BY A2AAssumption DEF Init, TypeOK, NoJob
<1> QED
  BY <1>1 DEF Init, Inv, EventsArePath, JobsSound, RunningExist, Free

(* The requests that are begun, and what a busy process holds.             *)
LEMMA JobTypes ==
    ASSUME TypeOK, NEW w \in Workers
    PROVE  /\ ~ Free(w) => job[w] \in Job
           /\ \A t \in Tasks, kind \in {"start", "finish", "get", "cancel"} :
                 /\ Reread(kind, t) \in Job /\ Reread(kind, t) # NoJob
                 /\ \A to \in TaskState :
                       Update(kind, t, to) \in Job /\ Update(kind, t, to) # NoJob
<1>1. ~ Free(w) => job[w] \in Job
  BY DEF TypeOK, Free
<1>2. ASSUME NEW t \in Tasks, NEW kind \in {"start", "finish", "get", "cancel"}
      PROVE  /\ Reread(kind, t) \in Job
             /\ \A to \in TaskState : Update(kind, t, to) \in Job
  BY Transitions DEF Update, Reread, Job
<1>3. NoJob \notin Job
  BY DEF NoJob, Job
<1> QED
  BY <1>1, <1>2, <1>3

LEMMA NextType == TypeOK /\ JobsSound /\ [Next]_vars => TypeOK'
<1> SUFFICES ASSUME TypeOK, JobsSound, [Next]_vars PROVE TypeOK'
  OBVIOUS
<1> USE A2AAssumption, Transitions
<1>1. ASSUME NEW w \in Workers, NEW t \in Tasks, Invoke(w, t) PROVE TypeOK'
  BY <1>1, JobTypes DEF Invoke, TypeOK
<1>2. ASSUME NEW w \in Workers, NEW t \in Tasks, Return(w, t) PROVE TypeOK'
  BY <1>2, JobTypes DEF Return, TypeOK
<1>3. ASSUME NEW w \in Workers, NEW t \in Tasks, Disconnect(w, t) PROVE TypeOK'
  BY <1>3 DEF Disconnect, TypeOK
<1>4. ASSUME NEW w \in Workers, NEW t \in Tasks, NEW kind \in {"get", "cancel"},
             Ask(w, t, kind)
      PROVE  TypeOK'
  BY <1>4, JobTypes DEF Ask, TypeOK
<1>5. ASSUME NEW w \in Workers, Load(w) PROVE TypeOK'
  <2>1. job[w] \in Job
    BY <1>5, JobTypes DEF Load, At
  <2>2. [job[w] EXCEPT !.step = "write", !.seen = row[job[w].task]] \in Job
    BY <2>1 DEF Job, TypeOK
  <2>3. job[w].kind \in {"start", "finish", "get", "cancel"} /\ job[w].task \in Tasks
    BY <2>1 DEF Job
  <2>4. Reread(job[w].kind, job[w].task) \in Job
    BY <2>3, JobTypes
  <2> QED
    BY <1>5, <2>2, <2>4 DEF Load, TypeOK
<1>6. ASSUME NEW w \in Workers, Write(w) PROVE TypeOK'
  <2>1. job[w] \in Job
    BY <1>6, JobTypes DEF Write, At
  <2>2. job[w].kind \in {"start", "finish", "get", "cancel"} /\ job[w].task \in Tasks
    BY <2>1 DEF Job
  <2>3. Reread(job[w].kind, job[w].task) \in Job
    BY <2>2, JobTypes
  <2>4. Append(job[w].seen, job[w].to) \in Seq(TaskState)
    BY <2>1 DEF Job
  <2>5. job[w].kind = "finish" => job[w].to \in TERMINAL_STATES
    BY <1>6 DEF JobsSound, Sound, Write, At
  <2> QED
    BY <1>6, <2>3, <2>4, <2>5, <2>2 DEF Write, TypeOK
<1>7. ASSUME NEW w \in Workers, Answer(w) PROVE TypeOK'
  <2>1. job[w] \in Job
    BY <1>7, JobTypes DEF Answer, At
  <2> QED
    BY <1>7, <2>1 DEF Answer, TypeOK, Job
<1>8. ASSUME NEW w \in Workers, GoOnToCancel(w) PROVE TypeOK'
  <2>1. job[w] \in Job
    BY <1>8, JobTypes DEF GoOnToCancel, At
  <2>2. Update("cancel", job[w].task, "cancelled") \in Job
    BY <2>1, JobTypes DEF Job
  <2> QED
    BY <1>8, <2>2 DEF GoOnToCancel, TypeOK
<1>9. ASSUME NEW w \in Workers, StorageError(w) \/ Restart(w) PROVE TypeOK'
  <2>1. faults' \in 0 .. MaxFaults
    BY <1>9 DEF StorageError, Restart, TypeOK
  <2>2. CASE StorageError(w)
    BY <2>1, <2>2 DEF StorageError, TypeOK
  <2>3. CASE Restart(w)
    BY <2>1, <2>3 DEF Restart, TypeOK
  <2> QED
    BY <1>9, <2>2, <2>3
<1>10. ASSUME NEW t \in Tasks, Expire(t) PROVE TypeOK'
  BY <1>10 DEF Expire, TypeOK
<1>11. CASE UNCHANGED vars
  BY <1>11 DEF vars, TypeOK
<1> QED
  BY <1>1, <1>2, <1>3, <1>4, <1>5, <1>6, <1>7, <1>8, <1>9, <1>10, <1>11
     DEF Next, Request, Serve

(* When one process changes its request, the others' remain sound.         *)
LEMMA JobsStaySound ==
    ASSUME TypeOK, JobsSound, NEW w \in Workers, NEW j,
           job' = [job EXCEPT ![w] = j],
           j # NoJob => Sound(row', j),
           \A t \in Tasks : row[t] # <<>> => row'[t] # <<>>
    PROVE  JobsSound'
<1> SUFFICES ASSUME NEW v \in Workers, ~ Free(v)' PROVE Sound(row', job'[v])
  BY DEF JobsSound
<1>1. CASE v = w
  BY <1>1 DEF Free, TypeOK
<1>2. CASE v # w
  <2>1. job'[v] = job[v] /\ ~ Free(v)
    BY <1>2 DEF Free, TypeOK
  <2>2. job[v].task \in Tasks
    BY <2>1 DEF TypeOK, Free, Job
  <2>3. Sound(row, job[v])
    BY <2>1 DEF JobsSound
  <2> QED
    BY <2>1, <2>2, <2>3 DEF Sound
<1> QED
  BY <1>1, <1>2

(* Rows only grow from nothing, and are rewritten with what Write has.     *)
LEMMA NextPaths == Inv /\ [Next]_vars => (EventsArePath /\ JobsSound /\ RunningExist)'
<1> SUFFICES ASSUME Inv, [Next]_vars
             PROVE  (EventsArePath /\ JobsSound /\ RunningExist)'
  OBVIOUS
<1> DEFINE Rows == \A t \in Tasks : row[t] # <<>> => Path(row[t])
           Stay == \A t \in Tasks : row[t] # <<>> => row'[t] # <<>>
<1> USE DEF Inv
<1>a. TypeOK /\ TypeOK'
  BY NextType
<1>b. Rows
  BY DEF EventsArePath, Path
<1>c. Rows' => EventsArePath'
  BY DEF EventsArePath, Path
<1>d. ASSUME row' = row PROVE Rows' /\ Stay
  BY <1>b, <1>d
<1>e. ASSUME Stay, \A w \in Workers : running'[w] \subseteq running[w]
      PROVE  RunningExist'
  BY <1>a, <1>e DEF RunningExist, TypeOK
<1>1. ASSUME NEW w \in Workers, NEW t \in Tasks, Invoke(w, t)
      PROVE  (Rows /\ JobsSound /\ RunningExist)'
  <2>1. Path(<<"submitted">>) /\ <<"submitted">> # <<>>
    BY DEF Path
  <2>2. /\ row' = [row EXCEPT ![t] = <<"submitted">>]
        /\ job' = [job EXCEPT ![w] = Update("start", t, "working")]
        /\ running' = running
    BY <1>1 DEF Invoke
  <2>3. Rows' /\ Stay
    BY <2>1, <2>2, <1>a, <1>b DEF TypeOK
  <2>4. Sound(row', Update("start", t, "working"))
    BY <2>1, <2>2, <1>a DEF Sound, Update, TypeOK
  <2> QED
    BY <2>2, <2>3, <2>4, <1>e, JobsStaySound
<1>2. ASSUME NEW w \in Workers, NEW t \in Tasks, Return(w, t)
      PROVE  (Rows /\ JobsSound /\ RunningExist)'
  <2>1. PICK to \in {"completed", "failed"} :
           job' = [job EXCEPT ![w] = Update("finish", t, to)]
    BY <1>2 DEF Return
  <2>2. row' = row /\ \A v \in Workers : running'[v] \subseteq running[v]
    BY <1>2, <1>a DEF Return, TypeOK
  <2>3. Sound(row', Update("finish", t, to))
    BY <1>2, <2>2, Transitions DEF Return, RunningExist, Sound, Update
  <2> QED
    BY <2>1, <2>2, <2>3, <1>d, <1>e, JobsStaySound
<1>3. ASSUME NEW w \in Workers, NEW t \in Tasks, Disconnect(w, t)
      PROVE  (Rows /\ JobsSound /\ RunningExist)'
  <2>1. row' = row /\ job' = job /\ \A v \in Workers : running'[v] \subseteq running[v]
    BY <1>3, <1>a DEF Disconnect, TypeOK
  <2> QED
    BY <2>1, <1>d, <1>e DEF JobsSound, Free
<1>4. ASSUME NEW w \in Workers, NEW t \in Tasks, NEW kind \in {"get", "cancel"},
             Ask(w, t, kind)
      PROVE  (Rows /\ JobsSound /\ RunningExist)'
  <2>1. PICK j : /\ job' = [job EXCEPT ![w] = j]
                 /\ j = Update(kind, t, "failed") \/ j = Reread(kind, t)
    BY <1>4 DEF Ask
  <2>2. row' = row /\ running' = running /\ row[t] # <<>>
    BY <1>4 DEF Ask
  <2>3. Sound(row', j)
    BY <2>1, <2>2 DEF Sound, Update, Reread
  <2> QED
    BY <2>1, <2>2, <2>3, <1>d, <1>e, JobsStaySound
<1>5. ASSUME NEW w \in Workers, Load(w)
      PROVE  (Rows /\ JobsSound /\ RunningExist)'
  <2>1. row' = row /\ running' = running /\ ~ Free(w)
    BY <1>5 DEF Load, At
  <2>2. Sound(row, job[w]) /\ job[w] \in Job
    BY <2>1, <1>a, JobTypes DEF JobsSound
  <2>3. row[job[w].task] # <<>> /\ Path(row[job[w].task])
    BY <2>2, <1>b DEF Sound, Job
  <2>4. CASE Allowed(StateOf(row[job[w].task]), job[w].to)
    <3> DEFINE j == [job[w] EXCEPT !.step = "write", !.seen = row[job[w].task]]
    <3>1. job' = [job EXCEPT ![w] = j]
      BY <1>5, <2>4 DEF Load
    <3>2. /\ j.task = job[w].task /\ j.kind = job[w].kind /\ j.to = job[w].to
          /\ j.seen = row[job[w].task]
      BY <2>2 DEF Job
    <3> HIDE DEF j
    <3>3. Sound(row', j)
      BY <3>2, <2>1, <2>2, <2>3, <2>4 DEF Sound, Allowed
    <3> QED
      BY <3>1, <3>3, <2>1, <1>d, <1>e, JobsStaySound
  <2>5. CASE ~ Allowed(StateOf(row[job[w].task]), job[w].to)
    <3>1. PICK j : /\ job' = [job EXCEPT ![w] = j]
                   /\ j = NoJob \/ j = Reread(job[w].kind, job[w].task)
                   /\ j # NoJob => Expiring(job[w])
      BY <1>5, <2>5 DEF Load
    <3>2. j # NoJob => Sound(row', j)
      BY <3>1, <2>1, <2>3 DEF Sound, Reread, Expiring
    <3> QED
      BY <3>1, <3>2, <2>1, <1>d, <1>e, JobsStaySound
  <2> QED
    BY <2>4, <2>5
<1>6. ASSUME NEW w \in Workers, Write(w)
      PROVE  (Rows /\ JobsSound /\ RunningExist)'
  <2> DEFINE e == Append(job[w].seen, job[w].to)
  <2>1. ~ Free(w) /\ job[w].step = "write" /\ job[w] \in Job /\ Sound(row, job[w])
    BY <1>6, <1>a, JobTypes DEF Write, At, JobsSound
  <2>2. /\ job[w].task \in Tasks /\ job[w].to \in TaskState
        /\ job[w].seen \in Seq(TaskState)
    BY <2>1 DEF Job
  <2>3. e \in Seq(TaskState) /\ Path(e) /\ e # <<>>
    BY <2>1, <2>2, PathExtends DEF Sound, Path
  <2>4. row' = [row EXCEPT ![job[w].task] = e]
    BY <1>6 DEF Write
  <2> HIDE DEF e
  <2>5. Rows' /\ Stay
    BY <2>2, <2>3, <2>4, <1>a, <1>b DEF TypeOK
  <2>6. RunningExist'
    <3>1. /\ row'[job[w].task] # <<>>
          /\ \A v \in Workers : running'[v] \subseteq running[v] \union {job[w].task}
      BY <1>6, <1>a, <2>2, <2>3, <2>4 DEF Write, TypeOK
    <3> QED
      BY <3>1, <2>5, <1>a DEF RunningExist, TypeOK
  <2>7. PICK j : /\ job' = [job EXCEPT ![w] = j]
                 /\ j = NoJob \/ j = Reread(job[w].kind, job[w].task)
                 /\ j # NoJob => Expiring(job[w])
    BY <1>6 DEF Write
  <2>8. j # NoJob => Sound(row', j)
    BY <2>7, <2>2, <2>3, <2>4, <1>a DEF Sound, Reread, Expiring, TypeOK
  <2> QED
    BY <2>5, <2>6, <2>7, <2>8, JobsStaySound
<1>7. ASSUME NEW w \in Workers, Answer(w)
      PROVE  (Rows /\ JobsSound /\ RunningExist)'
  BY <1>7, <1>d, <1>e, JobsStaySound DEF Answer
<1>8. ASSUME NEW w \in Workers, GoOnToCancel(w)
      PROVE  (Rows /\ JobsSound /\ RunningExist)'
  <2>1. Sound(row, job[w])
    BY <1>8 DEF GoOnToCancel, At, JobsSound
  <2>2. Sound(row', Update("cancel", job[w].task, "cancelled"))
    BY <2>1, <1>8 DEF GoOnToCancel, Sound, Update
  <2> QED
    BY <2>2, <1>8, <1>d, <1>e, JobsStaySound DEF GoOnToCancel
<1>9. ASSUME NEW w \in Workers, StorageError(w) \/ Restart(w)
      PROVE  (Rows /\ JobsSound /\ RunningExist)'
  <2>1. /\ row' = row /\ job' = [job EXCEPT ![w] = NoJob]
        /\ \A v \in Workers : running'[v] \subseteq running[v]
    BY <1>9, <1>a DEF StorageError, Restart, TypeOK
  <2> QED
    BY <2>1, <1>d, <1>e, JobsStaySound
<1>10. ASSUME UNCHANGED <<row, job, running>>
       PROVE  (Rows /\ JobsSound /\ RunningExist)'
  BY <1>10, <1>d, <1>e DEF JobsSound, Free
<1> QED
  BY <1>c, <1>1, <1>2, <1>3, <1>4, <1>5, <1>6, <1>7, <1>8, <1>9, <1>10
     DEF Next, Request, Serve, Expire, vars

(* Whatever the processes do to each other's updates, every row is typed,  *)
(* and its events are a path of the state machine (update_task).           *)
THEOREM Inductive == Spec => []Inv
<1>1. Inv /\ [Next]_vars => Inv'
  BY NextType, NextPaths DEF Inv
<1> QED
  BY InitInv, <1>1, PTL DEF Spec

(* For any number of processes, tasks and faults: the types.               *)
THEOREM TypeCorrect == Spec => []TypeOK
<1>1. Inv => TypeOK
  BY DEF Inv
<1> QED
  BY <1>1, Inductive, PTL

(* For any number of processes: what update_task stores (task_manager.py   *)
(* 192-231) is always a path from submitted, even when it overwrites an    *)
(* update of another process.                                              *)
THEOREM EventsAlwaysPath == Spec => []EventsArePath
<1>1. Inv => EventsArePath
  BY DEF Inv
<1> QED
  BY <1>1, Inductive, PTL

-----------------------------------------------------------------------------
(* One process: nobody writes between its read of a row and its write.     *)
Fresh == \A w \in Workers : At(w, "write") => job[w].seen = row[job[w].task]

(* What a step may do to the table when no update is lost.                 *)
Inserts(t) == row[t] = <<>> /\ row' = [row EXCEPT ![t] = <<"submitted">>]

Extends(t) ==
    \E s \in TaskState : /\ row[t] # <<>>
                         /\ s \in VALID_TRANSITIONS[StateOf(row[t])]
                         /\ row' = [row EXCEPT ![t] = Append(row[t], s)]

LEMMA RowSteps ==
    ASSUME Inv, Fresh, [Next]_vars
    PROVE  row' = row \/ \E t \in Tasks : Inserts(t) \/ Extends(t)
<1>1. ASSUME NEW w \in Workers, NEW t \in Tasks, Invoke(w, t) PROVE Inserts(t)
  BY <1>1 DEF Invoke, Inserts
<1>2. ASSUME NEW w \in Workers, Write(w)
      PROVE  \E t \in Tasks : Extends(t)
  <2>1. job[w] \in Job /\ Sound(row, job[w]) /\ job[w].step = "write"
    BY <1>2, JobTypes DEF Write, At, Inv, JobsSound
  <2>2. job[w].task \in Tasks /\ job[w].to \in TaskState
    BY <2>1 DEF Job
  <2>3. job[w].seen = row[job[w].task]
    BY <1>2 DEF Write, Fresh
  <2>4. row' = [row EXCEPT ![job[w].task] = Append(row[job[w].task], job[w].to)]
    BY <1>2, <2>3 DEF Write
  <2>5. Extends(job[w].task)
    BY <2>1, <2>2, <2>3, <2>4 DEF Extends, Sound
  <2> QED
    BY <2>2, <2>5
<1>3. ASSUME NEW w \in Workers, NEW t \in Tasks,
             \/ Return(w, t) \/ Disconnect(w, t)
             \/ \E kind \in {"get", "cancel"} : Ask(w, t, kind)
      PROVE  row' = row
  BY <1>3 DEF Return, Disconnect, Ask
<1>4. ASSUME NEW w \in Workers,
             \/ Load(w) \/ Answer(w) \/ GoOnToCancel(w)
             \/ StorageError(w) \/ Restart(w)
      PROVE  row' = row
  BY <1>4 DEF Load, Answer, GoOnToCancel, StorageError, Restart
<1>5. ASSUME NEW t \in Tasks, Expire(t) PROVE row' = row
  BY <1>5 DEF Expire
<1>6. CASE UNCHANGED vars
  BY <1>6 DEF vars
<1> QED
  BY <1>1, <1>2, <1>3, <1>4, <1>5, <1>6 DEF Next, Request, Serve

LEMMA NextFresh ==
    ASSUME NEW only, Workers = {only}, Inv, Fresh, [Next]_vars
    PROVE  Fresh'
<1> SUFFICES ASSUME At(only, "write")' PROVE job'[only].seen = row'[job'[only].task]
  BY DEF Fresh
<1> USE DEF Inv
<1>1. job'[only] # NoJob /\ job'[only].step = "write"
  BY DEF At, Free
<1>2. CASE Load(only)
  <2>1. job[only] \in Job /\ row' = row
    BY <1>2, JobTypes DEF Load, At
  <2>2. CASE Allowed(StateOf(row[job[only].task]), job[only].to)
    <3>1. job'[only] = [job[only] EXCEPT !.step = "write", !.seen = row[job[only].task]]
      BY <1>2, <2>2 DEF Load, TypeOK
    <3> QED
      BY <3>1, <2>1 DEF Job
  <2>3. CASE ~ Allowed(StateOf(row[job[only].task]), job[only].to)
    <3>1. job'[only] = NoJob \/ job'[only] = Reread(job[only].kind, job[only].task)
      BY <1>2, <2>3 DEF Load, TypeOK
    <3> QED
      BY <3>1, <1>1 DEF Reread
  <2> QED
    BY <2>2, <2>3
<1>3. ASSUME NEW t \in Tasks, Invoke(only, t) \/ Return(only, t) PROVE FALSE
  <2>1. \E kind, to : job'[only] = Update(kind, t, to)
    BY <1>3 DEF Invoke, Return, TypeOK
  <2> QED
    BY <2>1, <1>1 DEF Update
<1>4. ASSUME NEW t \in Tasks, NEW kind, Ask(only, t, kind) PROVE FALSE
  <2>1. job'[only] = Update(kind, t, "failed") \/ job'[only] = Reread(kind, t)
    BY <1>4 DEF Ask, TypeOK
  <2> QED
    BY <2>1, <1>1 DEF Update, Reread
<1>5. CASE Write(only)
  <2>1. job'[only] = NoJob \/ job'[only] = Reread(job[only].kind, job[only].task)
    BY <1>5 DEF Write, TypeOK
  <2> QED
    BY <2>1, <1>1 DEF Reread
<1>6. CASE GoOnToCancel(only)
  <2>1. job'[only] = Update("cancel", job[only].task, "cancelled")
    BY <1>6 DEF GoOnToCancel, TypeOK
  <2> QED
    BY <2>1, <1>1 DEF Update
<1>7. CASE Answer(only) \/ StorageError(only) \/ Restart(only)
  BY <1>7, <1>1 DEF Answer, StorageError, Restart, TypeOK
<1>8. CASE UNCHANGED <<row, job>>
  BY <1>8 DEF Fresh, At, Free
<1> QED
  BY <1>2, <1>3, <1>4, <1>5, <1>6, <1>7, <1>8
     DEF Next, Request, Serve, Disconnect, Expire, vars

(* What clients were told is in the table: only a process that still finds *)
(* the task not ended tells anybody anything new.                          *)
LEMMA NextAgree ==
    ASSUME Inv, Fresh, AnswersAgree, [Next]_vars
    PROVE  AnswersAgree'
<1> USE DEF Inv
<1>1. ASSUME NEW w \in Workers, Answer(w) PROVE AnswersAgree'
  <2>1. job[w] \in Job
    BY <1>1, JobTypes DEF Answer, At
  <2>2. job[w].task \in Tasks
    BY <2>1 DEF Job
  <2> QED
    BY <1>1, <2>2 DEF Answer, AnswersAgree, TypeOK
<1>2. ASSUME NEW w \in Workers, Write(w) PROVE AnswersAgree'
  <2>1. job[w] \in Job /\ Sound(row, job[w]) /\ job[w].step = "write"
    BY <1>2, JobTypes DEF Write, At, JobsSound
  <2> DEFINE t == job[w].task
             e == Append(row[t], job[w].to)
  <2>2. t \in Tasks /\ job[w].to \in TaskState /\ row[t] \in Seq(TaskState)
    BY <2>1 DEF Job, TypeOK
  <2>3. job[w].seen = row[t]
    BY <1>2 DEF Write, Fresh
  <2>4. /\ Path(row[t])
        /\ job[w].to \in VALID_TRANSITIONS[StateOf(row[t])]
    BY <2>1, <2>3 DEF Sound
  <2>5. StateOf(e) = job[w].to
    BY <2>2, <2>4, PathExtends
  <2>6. told[t] = {}
    <3>1. told[t] \subseteq {StateOf(row[t])} /\ told[t] \subseteq TERMINAL_STATES
      BY <2>2 DEF AnswersAgree, TypeOK
    <3>2. StateOf(row[t]) \notin TERMINAL_STATES
      BY <2>4, Transitions
    <3> QED
      BY <3>1, <3>2
  <2>7. /\ row' = [row EXCEPT ![t] = e]
        /\ \/ told' = [told EXCEPT ![t] = @ \union {job[w].to}]
           \/ told' = told
    BY <1>2, <2>3 DEF Write, TypeOK
  <2> HIDE DEF t, e
  <2>8. told'[t] \subseteq {StateOf(row'[t])}
    BY <2>2, <2>5, <2>6, <2>7 DEF TypeOK
  <2>9. \A x \in Tasks \ {t} : told'[x] = told[x] /\ row'[x] = row[x]
    BY <2>2, <2>7 DEF TypeOK
  <2> QED
    BY <2>8, <2>9 DEF AnswersAgree
<1>3. ASSUME NEW w \in Workers, NEW t \in Tasks, Invoke(w, t) PROVE AnswersAgree'
  <2>1. told[t] = {}
    <3>1. told[t] \subseteq {StateOf(row[t])} /\ told[t] \subseteq TERMINAL_STATES
      BY DEF AnswersAgree, TypeOK
    <3>2. StateOf(row[t]) = "absent"
      BY <1>3 DEF Invoke, StateOf
    <3> QED
      BY <3>1, <3>2, Transitions
  <2> QED
    BY <1>3, <2>1 DEF Invoke, AnswersAgree, TypeOK
<1>4. CASE UNCHANGED <<row, told>>
  BY <1>4 DEF AnswersAgree
<1> QED
  BY <1>1, <1>2, <1>3, <1>4
     DEF Next, Request, Serve, Return, Disconnect, Ask, Load, GoOnToCancel,
         StorageError, Restart, Expire, vars

(* With one process, the client that invoked a skill, those that cancel    *)
(* its task and those that poll it are told one outcome (_run_skill,       *)
(* _method_tasks_get, _method_tasks_cancel), the one in the table.         *)
THEOREM OneWorkerAgrees ==
    ASSUME NEW only, Workers = {only}
    PROVE  Spec => []AnswersAgree
<1> DEFINE OneInv == Inv /\ Fresh /\ AnswersAgree
<1>1. Init => OneInv
  BY InitInv DEF Init, Fresh, At, Free, AnswersAgree
<1>2. OneInv /\ [Next]_vars => OneInv'
  BY NextType, NextPaths, NextFresh, NextAgree DEF Inv
<1>3. OneInv => AnswersAgree
  OBVIOUS
<1> QED
  BY <1>1, <1>2, <1>3, PTL DEF Spec

(* With one process, no step changes the row of a task that has ended:     *)
(* "terminal states have no outgoing transitions" (task_manager.py:10).    *)
THEOREM OneWorkerFinal ==
    ASSUME NEW only, Workers = {only}
    PROVE  Spec => TerminalIsFinal
<1>1. Init => Inv /\ Fresh
  BY InitInv DEF Init, Fresh, At, Free
<1>2. Inv /\ Fresh /\ [Next]_vars => (Inv /\ Fresh)'
  BY NextType, NextPaths, NextFresh DEF Inv
<1>3. Inv /\ Fresh /\ [Next]_vars
        => [\A t \in Tasks : StateOf(row[t]) \in TERMINAL_STATES => row'[t] = row[t]]_vars
  <2> SUFFICES ASSUME Inv, Fresh, [Next]_vars, NEW t \in Tasks,
                      StateOf(row[t]) \in TERMINAL_STATES
               PROVE  row'[t] = row[t]
    OBVIOUS
  <2>1. ASSUME NEW x \in Tasks, Inserts(x) \/ Extends(x) PROVE x # t
    <3>1. row[x] = <<>> => StateOf(row[x]) = "absent"
      BY DEF StateOf
    <3> QED
      BY <2>1, <3>1, Transitions DEF Inserts, Extends
  <2> QED
    BY <2>1, RowSteps DEF Inserts, Extends, Inv, TypeOK
<1> QED
  BY <1>1, <1>2, <1>3, PTL DEF Spec, TerminalIsFinal

(* With one process, the table implements the promised life cycle: create  *)
(* and the update of a task are its steps, everything else is a stutter.   *)
THEOREM OneWorkerImplements ==
    ASSUME NEW only, Workers = {only}
    PROVE  Spec => ImplementsLifecycle
<1> DEFINE abstract == [t \in Tasks |-> StateOf(row[t])]
<1>1. Init => Inv /\ Fresh
  BY InitInv DEF Init, Fresh, At, Free
<1>2. Inv /\ Fresh /\ [Next]_vars => (Inv /\ Fresh)'
  BY NextType, NextPaths, NextFresh DEF Inv
<1>3. Init => Lifecycle!Init
  BY DEF Init, Lifecycle!Init, StateOf
<1>4. Inv /\ Fresh /\ [Next]_vars => [Lifecycle!Next]_abstract
  <2> SUFFICES ASSUME Inv, Fresh, [Next]_vars
               PROVE  Lifecycle!Next \/ abstract' = abstract
    OBVIOUS
  <2>1. CASE row' = row
    BY <2>1
  <2>2. ASSUME NEW t \in Tasks, Inserts(t) PROVE Lifecycle!Create(t)
    <3>1. abstract[t] = "absent" /\ abstract' = [abstract EXCEPT ![t] = "submitted"]
      BY <2>2 DEF Inserts, StateOf, Inv, TypeOK
    <3> QED
      BY <3>1 DEF Lifecycle!Create
  <2>3. ASSUME NEW t \in Tasks, Extends(t) PROVE Lifecycle!Move(t)
    <3>1. PICK s \in TaskState :
             /\ row[t] # <<>> /\ s \in VALID_TRANSITIONS[StateOf(row[t])]
             /\ row' = [row EXCEPT ![t] = Append(row[t], s)]
      BY <2>3 DEF Extends
    <3>2. Path(row[t]) /\ row[t] \in Seq(TaskState)
      BY <3>1 DEF Inv, EventsArePath, Path, TypeOK
    <3>3. StateOf(Append(row[t], s)) = s
      BY <3>1, <3>2, PathExtends
    <3>4. abstract' = [abstract EXCEPT ![t] = s]
      BY <3>1, <3>3 DEF Inv, TypeOK
    <3>5. abstract[t] # "absent"
      <4>1. StateOf(row[t]) \in TaskState
        BY <3>2 DEF Path, StateOf
      <4> QED
        BY <4>1, Transitions
    <3> QED
      BY <3>1, <3>4, <3>5 DEF Lifecycle!Move, VALID_TRANSITIONS
  <2> QED
    BY <2>1, <2>2, <2>3, RowSteps DEF Lifecycle!Next
<1> QED
  BY <1>1, <1>2, <1>3, <1>4, PTL DEF Spec, ImplementsLifecycle, Lifecycle!Spec
=============================================================================
