------------------------------ MODULE A2ATasks ------------------------------
(***************************************************************************)
(* moa_gateway/a2a: the tasks of the agent-to-agent protocol in the        *)
(* a2a_tasks table, and the gateway processes that run skills and answer   *)
(* tasks/get and tasks/cancel on it.  The task manager is synchronous, so  *)
(* a process is busy with one request from one await to the next (its      *)
(* threading.Lock is never waited for), and every database access is a     *)
(* transaction of its own: between two of them the other processes go on.  *)
(*                                                                         *)
(* A request of another owner than the task's is answered "not found" and  *)
(* changes nothing; such requests are left out, and so are the contents of *)
(* tasks, artifacts and errors.                                            *)
(***************************************************************************)
EXTENDS Sequences, Naturals

CONSTANTS Workers,     (* gateway processes that share the database         *)
          Tasks,       (* task ids to be handed out                         *)
          MaxFaults    (* bound on crashes and storage errors               *)

ASSUME A2AAssumption == MaxFaults \in Nat

VARIABLES row,       (* row[t]: the states of t's events; <<>> before INSERT*)
          due,       (* tasks whose expires_at has passed                   *)
          job,       (* job[w]: the request that w is busy with             *)
          running,   (* running[w]: tasks whose skill handler w awaits      *)
          told,      (* told[t]: the terminal states that clients were told *)
          faults

vars == <<row, due, job, running, told, faults>>

(* The state column is written together with the events and equals the     *)
(* state of the last one.                                                  *)
StateOf(events) == IF events = <<>> THEN "absent" ELSE events[Len(events)]

Lifecycle == INSTANCE TaskLifecycle WITH state <- [t \in Tasks |-> StateOf(row[t])]

TaskState         == Lifecycle!TaskState
TERMINAL_STATES   == Lifecycle!TERMINAL_STATES
VALID_TRANSITIONS == Lifecycle!VALID_TRANSITIONS

(* An idle process, or one that serves a request.  start and finish: the   *)
(* two ends of _run_skill around the handler; get and cancel: tasks/get    *)
(* and tasks/cancel.  At load, update_task(task, to) is about to read the  *)
(* row, at write to store what it made of the row it has seen, at reread   *)
(* get_task is about to read the row it returns.                           *)
NoJob == [kind |-> "none"]

Job == [kind : {"start", "finish", "get", "cancel"}, task : Tasks,
        step : {"load", "write", "reread"}, to : TaskState, seen : Seq(TaskState)]

TypeOK ==
    /\ row \in [Tasks -> Seq(TaskState)]
    /\ due \subseteq Tasks
    /\ job \in [Workers -> Job \union {NoJob}]
    /\ running \in [Workers -> SUBSET Tasks]
    /\ told \in [Tasks -> SUBSET TERMINAL_STATES]
    /\ faults \in 0 .. MaxFaults

Free(w) == job[w] = NoJob
At(w, step) == ~ Free(w) /\ job[w].step = step

-----------------------------------------------------------------------------
(* Requests.                                                               *)
Update(kind, t, to) ==
    [kind |-> kind, task |-> t, step |-> "load", to |-> to, seen |-> <<>>]

Reread(kind, t) ==
    [kind |-> kind, task |-> t, step |-> "reread", to |-> "failed", seen |-> <<>>]

(* create_task, and then update_task(working).                             *)
Invoke(w, t) ==
    /\ Free(w) /\ row[t] = <<>>
    /\ row' = [row EXCEPT ![t] = <<"submitted">>]
    /\ job' = [job EXCEPT ![w] = Update("start", t, "working")]
    /\ UNCHANGED <<due, running, told, faults>>

Return_AnswersFirst(w, t) ==
    /\ Free(w) /\ t \in running[w]
    /\ running' = [running EXCEPT ![w] = @ \ {t}]
    /\ \E to \in {"completed", "failed"} :
          /\ job' = [job EXCEPT ![w] = Update("finish", t, to)]
          /\ told' = [told EXCEPT ![t] = @ \union {to}]
    /\ UNCHANGED <<row, due, faults>>

(* The handler returns or raises an Exception.                             *)
Return(w, t) ==
    /\ Free(w) /\ t \in running[w]
    /\ running' = [running EXCEPT ![w] = @ \ {t}]
    /\ \E to \in {"completed", "failed"} :
          job' = [job EXCEPT ![w] = Update("finish", t, to)]
    /\ UNCHANGED <<row, due, told, faults>>

(* The handler is cancelled with its request: CancelledError is no         *)
(* Exception, so the task stays as it is.                                  *)
Disconnect(w, t) ==
    /\ Free(w) /\ t \in running[w]
    /\ running' = [running EXCEPT ![w] = @ \ {t}]
    /\ UNCHANGED <<row, due, job, told, faults>>

Overdue_WorkingOnly(t) == t \in due /\ StateOf(row[t]) = "working"

(* _expire_if_needed                                                       *)
Overdue(t) == t \in due /\ StateOf(row[t]) \notin TERMINAL_STATES

(* The first read of get_task, which tasks/cancel begins with as well: an  *)
(* overdue task is failed before it is read again.                         *)
Ask(w, t, kind) ==
    /\ Free(w) /\ row[t] # <<>>
    /\ job' = [job EXCEPT ![w] =
                  IF Overdue(t) THEN Update(kind, t, "failed")
                  ELSE Reread(kind, t)]
    /\ UNCHANGED <<row, due, running, told, faults>>

-----------------------------------------------------------------------------
(* Their database accesses.                                                *)
Expiring(j) == j.kind \in {"get", "cancel"} /\ j.to = "failed"

Allowed_FinishAlways(from, to) == to = "completed" \/ to \in VALID_TRANSITIONS[from]

Allowed(from, to) == to \in VALID_TRANSITIONS[from]

(* update_task reads the row and checks the transition; a refusal ends the *)
(* request with an error, except that get_task ignores it.                 *)
Load(w) ==
    LET j == job[w] IN
    /\ At(w, "load")
    /\ job' = [job EXCEPT ![w] =
                  IF Allowed(StateOf(row[j.task]), j.to)
                  THEN [j EXCEPT !.step = "write", !.seen = row[j.task]]
                  ELSE IF Expiring(j) THEN Reread(j.kind, j.task)
                  ELSE NoJob]
    /\ UNCHANGED <<row, due, running, told, faults>>

(* The UPDATE has no condition on the state that was read.                 *)
Write(w) ==
    LET j == job[w] IN
    /\ At(w, "write")
    /\ row' = [row EXCEPT ![j.task] = Append(j.seen, j.to)]
    /\ job' = [job EXCEPT ![w] =
                  IF Expiring(j) THEN Reread(j.kind, j.task) ELSE NoJob]
    /\ running' = [running EXCEPT ![w] =
                      IF j.kind = "start" THEN @ \union {j.task} ELSE @]
    /\ told' = [told EXCEPT ![j.task] =
                   IF j.kind = "finish" \/ j.to = "cancelled"
                   THEN @ \union {j.to} ELSE @]
    /\ UNCHANGED <<due, faults>>

Answer(w) ==
    LET t == job[w].task IN
    /\ At(w, "reread") /\ job[w].kind = "get"
    /\ told' = [told EXCEPT ![t] = @ \union ({StateOf(row[t])} \intersect TERMINAL_STATES)]
    /\ job' = [job EXCEPT ![w] = NoJob]
    /\ UNCHANGED <<row, due, running, faults>>

GoOnToCancel(w) ==
    /\ At(w, "reread") /\ job[w].kind = "cancel"
    /\ job' = [job EXCEPT ![w] = Update("cancel", job[w].task, "cancelled")]
    /\ UNCHANGED <<row, due, running, told, faults>>

Serve(w) == Load(w) \/ Write(w) \/ Answer(w) \/ GoOnToCancel(w)

-----------------------------------------------------------------------------
(* A database access raises: the request ends there.                       *)
StorageError(w) ==
    /\ faults < MaxFaults /\ ~ Free(w)
    /\ faults' = faults + 1
    /\ job' = [job EXCEPT ![w] = NoJob]
    /\ UNCHANGED <<row, due, running, told>>

(* The process dies and is started again: the rows are all that is left.   *)
Restart(w) ==
    /\ faults < MaxFaults
    /\ faults' = faults + 1
    /\ job' = [job EXCEPT ![w] = NoJob]
    /\ running' = [running EXCEPT ![w] = {}]
    /\ UNCHANGED <<row, due, told>>

Expire(t) ==
    /\ row[t] # <<>> /\ t \notin due
    /\ due' = due \union {t}
    /\ UNCHANGED <<row, job, running, told, faults>>

Init ==
    /\ row = [t \in Tasks |-> <<>>]
    /\ due = {}
    /\ job = [w \in Workers |-> NoJob]
    /\ running = [w \in Workers |-> {}]
    /\ told = [t \in Tasks |-> {}]
    /\ faults = 0

Request(w, t) ==
    \/ Invoke(w, t) \/ Return(w, t) \/ Disconnect(w, t)
    \/ \E kind \in {"get", "cancel"} : Ask(w, t, kind)

Next ==
    \/ \E w \in Workers, t \in Tasks : Request(w, t)
    \/ \E w \in Workers : Serve(w) \/ StorageError(w) \/ Restart(w)
    \/ \E t \in Tasks : Expire(t)

Spec == Init /\ [][Next]_vars

(* A process gets on with the request it is busy with, and time passes.    *)
(* No skill has to return, and no client has to ask.                       *)
FairSpec ==
    /\ Spec
    /\ \A w \in Workers : WF_vars(Serve(w))
    /\ \A t \in Tasks : WF_vars(Expire(t))

-----------------------------------------------------------------------------
(* With one gateway process the table implements the life cycle.           *)
ImplementsLifecycle == Lifecycle!Spec

(* The events of a task are a path of the state machine from submitted,    *)
(* whatever the processes do to each other's updates (task_manager.py:9).  *)
EventsArePath ==
    \A t \in Tasks : row[t] # <<>> =>
       /\ row[t][1] = "submitted"
       /\ \A i \in 1 .. Len(row[t]) - 1 : row[t][i + 1] \in VALID_TRANSITIONS[row[t][i]]

(* Everybody who is told the outcome of a task (the client that invoked    *)
(* the skill, those who cancel and those who poll) is told the same, and   *)
(* it is the one in the table.                                             *)
AnswersAgree == \A t \in Tasks : told[t] \subseteq {StateOf(row[t])}

(* A task that clients keep asking for ends, also when its skill hangs or  *)
(* the process that ran it died: the time to live sees to that.            *)
PolledTasksEnd ==
    \A t \in Tasks :
       []<>(\E w \in Workers : ~ Free(w) /\ job[w].kind = "get" /\ job[w].task = t)
         => <>(StateOf(row[t]) \in TERMINAL_STATES)

(* task_manager.py:10: "terminal states have no outgoing transitions".     *)
TerminalIsFinal ==
    [][\A t \in Tasks : StateOf(row[t]) \in TERMINAL_STATES => row'[t] = row[t]]_vars
=============================================================================
