---------------------------- MODULE AssistantRuns ----------------------------
(***************************************************************************)
(* moa_gateway/assistant/ and routes/assistant.py: the runs of one thread. *)
(* A run is a file.  A gateway process creates it on request, executes it  *)
(* in a background task with one call of a model, hands it to the client   *)
(* when the model calls tools, and takes it up again with their outputs.   *)
(* Several processes may share the directory; each sweeps it when it       *)
(* starts.  A crash or a failing write can leave a file half written: a    *)
(* run's, or a message's, which makes the whole thread unreadable.         *)
(*                                                                         *)
(* A process runs everything between two awaits as one section.  Sections  *)
(* here read, decide and then write one run's file in a step of its own,   *)
(* where other processes come between.  A client submits tool outputs when *)
(* it has seen that they are asked for, which is after the execution's     *)
(* task is over.  Left out: assistants, the contents of messages, steps,   *)
(* who may see what, and the memory hooks, which never break a run.        *)
(***************************************************************************)
EXTENDS Naturals, FiniteSets

CONSTANTS Runs, Workers

ASSUME RunsAssumption == IsFiniteSet(Runs) /\ IsFiniteSet(Workers)

VARIABLES disk,      (* disk[r]: the status in the file of run r            *)
          message,   (* message[r]: answers of r stored in the thread       *)
          task,      (* task[w][r]: the background task of r in process w   *)
          active,    (* active[w]: _active_run_ids                          *)
          job,       (* job[w]: the write that ends the section w is in     *)
          sweep,     (* sweep[w]: files that w at its start has yet to read *)
          thread,    (* whether every message file can be read              *)
          logged     (* runs left to the log: an error of the storage ended *)
                     (*   their task or their sweep (history variable)      *)

vars == <<disk, message, task, active, job, sweep, thread, logged>>

Live     == {"queued", "in_progress"}
Terminal == {"completed", "failed", "cancelled"}
Statuses == Live \cup Terminal \cup {"requires_action"}

Tasks   == {"none", "execute", "calling", "submit", "answering"}
Calling == {"calling", "answering"}

(* What each section writes into the run's file.                           *)
Outcome ==
    [create |-> "queued", start |-> "in_progress", claim |-> "in_progress",
     resume |-> "in_progress", ask |-> "requires_action", complete |-> "completed",
     fail |-> "failed", expire |-> "failed", sweep |-> "failed", cancel |-> "cancelled"]

(* What becomes of the run's task then.                                    *)
Successor == [create |-> "execute", start |-> "calling", claim |-> "submit",
              resume |-> "answering"]

Ending == {"ask", "complete", "fail", "expire"}

NoJob == [op |-> "none", run |-> "none"]
Jobs  == [op : DOMAIN Outcome, run : Runs]

TypeOK ==
    /\ disk \in [Runs -> Statuses \cup {"none", "torn"}]
    /\ message \in [Runs -> Nat]
    /\ task \in [Workers -> [Runs -> Tasks]]
    /\ active \in [Workers -> SUBSET Runs]
    /\ job \in [Workers -> Jobs \cup {NoJob}]
    /\ sweep \in [Workers -> SUBSET Runs]
    /\ thread \in {"readable", "torn"}
    /\ logged \subseteq Runs

-----------------------------------------------------------------------------
(* A process serves requests and tasks when its start is over.             *)
Free(w) == job[w] = NoJob /\ sweep[w] = {}

At(w, op, r) == job[w].op = op /\ job[w].run = r

ToWrite(w, op, r) == job' = [job EXCEPT ![w] = [op |-> op, run |-> r]]

(* The task is over, with _release_run where it held the run.              *)
Over(w, r) == task' = [task EXCEPT ![w][r] = "none"]
Release(w, r) == active' = [active EXCEPT ![w] = @ \ {r}]

(* create_run: 409 with an active run, and an error with a torn file.      *)
Create(w, r) ==
    /\ Free(w)
    /\ disk[r] = "none" /\ \A v \in Workers : ~ At(v, "create", r)
    /\ \A q \in Runs : disk[q] \notin Live \cup {"torn"}
    /\ ToWrite(w, "create", r)
    /\ UNCHANGED <<disk, message, task, active, sweep, thread, logged>>

(* execute_run, for the run as it was created.                             *)
Start(w, r) ==
    /\ Free(w) /\ task[w][r] = "execute"
    /\ \/ r \in active[w] /\ Over(w, r) /\ UNCHANGED <<active, job>>
       \/ /\ r \notin active[w]
          /\ active' = [active EXCEPT ![w] = @ \cup {r}]
          /\ ToWrite(w, "start", r)
          /\ UNCHANGED task
    /\ UNCHANGED <<disk, message, sweep, thread, logged>>

(* submit_run_tool_outputs: the claim, before the task is scheduled.       *)
Claim(w, r) ==
    /\ Free(w) /\ disk[r] = "requires_action"
    /\ ToWrite(w, "claim", r)
    /\ UNCHANGED <<disk, message, task, active, sweep, thread, logged>>

Resume_StaleObject(w, r) ==
    /\ Free(w) /\ task[w][r] = "submit" /\ thread = "readable"
    /\ active' = [active EXCEPT ![w] = @ \cup {r}]
    /\ ToWrite(w, "resume", r)
    /\ UNCHANGED <<disk, message, sweep, task, thread, logged>>

Resume_RejectsClaimed(w, r) ==
    /\ Free(w) /\ task[w][r] = "submit"
    /\ IF disk[r] = "requires_action" /\ r \notin active[w]
       THEN /\ thread = "readable"
            /\ active' = [active EXCEPT ![w] = @ \cup {r}]
            /\ ToWrite(w, "resume", r)
            /\ UNCHANGED task
       ELSE Over(w, r) /\ UNCHANGED <<active, job>>
    /\ UNCHANGED <<disk, message, sweep, thread, logged>>

(* submit_tool_outputs: decides by the file, not by the claimed object,    *)
(* and reads the thread before it writes.                                  *)
Resume(w, r) ==
    /\ Free(w) /\ task[w][r] = "submit"
    /\ IF disk[r] \in {"requires_action", "in_progress"} /\ r \notin active[w]
       THEN /\ thread = "readable"
            /\ active' = [active EXCEPT ![w] = @ \cup {r}]
            /\ ToWrite(w, "resume", r)
            /\ UNCHANGED task
       ELSE Over(w, r) /\ UNCHANGED <<active, job>>
    /\ UNCHANGED <<disk, message, sweep, thread, logged>>

(* The model's reply: the answer is stored before the run is completed.    *)
Answered(w, r) ==
    /\ Free(w) /\ task[w][r] \in Calling
    /\ message' = [message EXCEPT ![r] = @ + 1]
    /\ ToWrite(w, "complete", r)
    /\ UNCHANGED <<disk, task, active, sweep, thread, logged>>

ToolCalls_KeepsText(w, r) ==
    /\ Free(w) /\ task[w][r] = "calling"
    /\ message' = [message EXCEPT ![r] = @ + 1]
    /\ ToWrite(w, "ask", r)
    /\ UNCHANGED <<disk, task, active, sweep, thread, logged>>

(* Only the first call offers tools.                                       *)
ToolCalls(w, r) ==
    /\ Free(w) /\ task[w][r] = "calling"
    /\ ToWrite(w, "ask", r)
    /\ UNCHANGED <<disk, message, task, active, sweep, thread, logged>>

(* The call fails, or the assistant is gone, or the answer is not stored,  *)
(* not even when its file is half written.                                 *)
CallFails(w, r) ==
    /\ Free(w) /\ task[w][r] \in Calling
    /\ ToWrite(w, "fail", r)
    /\ thread' \in {thread, "torn"}
    /\ UNCHANGED <<disk, message, task, active, sweep, logged>>

(* The run's timeout: a settled file is left alone, a torn one raises.     *)
Expire(w, r) ==
    /\ Free(w) /\ task[w][r] \in Calling
    /\ IF disk[r] \in Live THEN ToWrite(w, "expire", r) /\ UNCHANGED <<task, active>>
                           ELSE Over(w, r) /\ Release(w, r) /\ UNCHANGED job
    /\ UNCHANGED <<disk, message, sweep, thread, logged>>

(* A read raises outside the handlers: of the run or the thread before a   *)
(* submission has begun to call, or of the run at the timeout.  The route's*)
(* task logs it, and the run's file stays as it is.                        *)
Raises(w, r) ==
    /\ Free(w) /\ task[w][r] \in {"submit"} \cup Calling
    /\ Over(w, r) /\ Release(w, r)
    /\ logged' = logged \cup {r}
    /\ UNCHANGED <<disk, message, job, sweep, thread>>

Cancel_NotCompleted(w, r) ==
    /\ Free(w) /\ disk[r] \in Statuses \ {"completed", "cancelled"}
    /\ ToWrite(w, "cancel", r)
    /\ UNCHANGED <<disk, message, task, active, sweep, thread, logged>>

(* cancel_run: nobody tells the task.                                      *)
Cancel(w, r) ==
    /\ Free(w) /\ disk[r] \in Statuses \ Terminal
    /\ ToWrite(w, "cancel", r)
    /\ UNCHANGED <<disk, message, task, active, sweep, thread, logged>>

(* create_message, when its write fails half-way.                          *)
PostFails(w) ==
    /\ Free(w) /\ thread' = "torn"
    /\ UNCHANGED <<disk, message, task, active, job, sweep, logged>>

(* save_run, and what the section does after it.  An execution that has    *)
(* started reads the thread next, and fails at once when it cannot.        *)
Write(w) ==
    /\ job[w] # NoJob
    /\ LET op == job[w].op
           r  == job[w].run
       IN  /\ disk' = [disk EXCEPT ![r] = Outcome[op]]
           /\ \/ /\ op \in Ending
                 /\ Over(w, r) /\ Release(w, r)
              \/ /\ op \in DOMAIN Successor
                 /\ task' = [task EXCEPT ![w][r] = Successor[op]]
                 /\ UNCHANGED active
              \/ op \in {"sweep", "cancel"} /\ UNCHANGED <<task, active>>
           /\ IF op = "start" /\ thread = "torn" THEN ToWrite(w, "fail", r)
              ELSE job' = [job EXCEPT ![w] = NoJob]
    /\ UNCHANGED <<message, sweep, thread, logged>>

(* save_run raises: the file is as it was, or truncated.  A client gets an *)
(* error; an execution that was to end with a result fails; anything else  *)
(* is logged, by the task or by the start, which gives up its sweep.       *)
WriteFails(w) ==
    LET op == job[w].op
        r  == job[w].run
    IN  /\ job[w] # NoJob
        /\ disk' \in {disk, [disk EXCEPT ![r] = "torn"]}
        /\ \/ /\ op \in {"create", "claim", "cancel"}
              /\ job' = [job EXCEPT ![w] = NoJob]
              /\ UNCHANGED <<task, active, sweep, logged>>
           \/ /\ op \in {"ask", "complete"}
              /\ ToWrite(w, "fail", r)
              /\ UNCHANGED <<task, active, sweep, logged>>
           \/ /\ op \in {"start", "resume", "fail", "expire"}
              /\ Over(w, r) /\ Release(w, r)
              /\ job' = [job EXCEPT ![w] = NoJob]
              /\ logged' = logged \cup {r}
              /\ UNCHANGED sweep
           \/ /\ op = "sweep"
              /\ job' = [job EXCEPT ![w] = NoJob]
              /\ sweep' = [sweep EXCEPT ![w] = {}]
              /\ logged' = logged \cup {r} \cup sweep[w]
              /\ UNCHANGED <<task, active>>
        /\ UNCHANGED <<message, thread>>

-----------------------------------------------------------------------------
(* The process is gone with all its tasks, and starts again: cleanup_stale_*)
(* runs reads the files that are there, and takes up what was left to the  *)
(* log.  It may die in the middle of writing a file.                       *)
Restart(w, files) ==
    /\ disk' = files
    /\ task' = [task EXCEPT ![w] = [r \in Runs |-> "none"]]
    /\ active' = [active EXCEPT ![w] = {}]
    /\ job' = [job EXCEPT ![w] = NoJob]
    /\ sweep' = [sweep EXCEPT ![w] = {r \in Runs : files[r] # "none"}]
    /\ logged' = {}
    /\ UNCHANGED message

Crash(w) ==
    \/ Restart(w, disk) /\ UNCHANGED thread
    \/ /\ job[w] # NoJob
       /\ Restart(w, [disk EXCEPT ![job[w].run] = "torn"])
       /\ UNCHANGED thread
    \/ Free(w) /\ Restart(w, disk) /\ thread' = "torn"

(* An unreadable file is passed over.                                      *)
Sweep(w) ==
    /\ job[w] = NoJob
    /\ \E r \in sweep[w] :
          /\ sweep' = [sweep EXCEPT ![w] = @ \ {r}]
          /\ IF disk[r] \in Live THEN ToWrite(w, "sweep", r) ELSE UNCHANGED job
    /\ UNCHANGED <<disk, message, task, active, thread, logged>>

Init ==
    /\ disk = [r \in Runs |-> "none"]
    /\ message = [r \in Runs |-> 0]
    /\ task = [w \in Workers |-> [r \in Runs |-> "none"]]
    /\ active = [w \in Workers |-> {}]
    /\ job = [w \in Workers |-> NoJob]
    /\ sweep = [w \in Workers |-> {}]
    /\ thread = "readable"
    /\ logged = {}

Clients(w) == PostFails(w) \/ \E r \in Runs : Create(w, r) \/ Claim(w, r) \/ Cancel(w, r)

Section(w) == Write(w) \/ WriteFails(w)

Execution(w, r) ==
    \/ Start(w, r) \/ Resume(w, r)
    \/ Answered(w, r) \/ ToolCalls(w, r) \/ CallFails(w, r)
    \/ Expire(w, r) \/ Raises(w, r)

Next == \E w \in Workers : \/ Clients(w) \/ Section(w) \/ Sweep(w) \/ Crash(w)
                           \/ \E r \in Runs : Execution(w, r)

Spec == Init /\ [][Next]_vars

(* A process gets on with its section and its start, and every call ends   *)
(* by the run's timeout at the latest.  The event loop's queue is first in *)
(* first out: a task has its turn however many requests come in between.   *)
(* No client has to ask for anything.                                      *)
FairSpec ==
    /\ Spec
    /\ \A w \in Workers : /\ WF_vars(Section(w)) /\ WF_vars(Sweep(w))
                          /\ \A r \in Runs : SF_vars(Execution(w, r))

-----------------------------------------------------------------------------
(* _active_run_ids holds exactly the runs being executed: an id that stays *)
(* behind would make every later execution of its run a skipped duplicate. *)
ActiveIsExecuting ==
    \A w \in Workers : active[w] =
        {r \in Runs : task[w][r] \in Calling \/ At(w, "start", r) \/ At(w, "resume", r)}

(* A run puts one answer into its thread at most, and a completed run has  *)
(* done so, over tool calls, cancellations, timeouts and restarts.         *)
AnsweredOnce ==
    \A r \in Runs : message[r] <= 1 /\ (disk[r] = "completed" => message[r] = 1)

(* A run that completed or failed is never heard of again: no late reply,  *)
(* timeout, tool output, cancellation or sweep touches it.                 *)
FinalStays ==
    [][\A r \in Runs : disk[r] \in {"completed", "failed"} => disk'[r] = disk[r]]_vars

(* A cancelled run stays cancelled and silent unless its model was asked   *)
(* already, or is about to be for the first time.                          *)
Executing(r) == \E w \in Workers : task[w][r] \in Calling \cup {"execute"}

CancelHolds ==
    [][\A r \in Runs : disk[r] = "cancelled" /\ ~ Executing(r) =>
            disk'[r] = "cancelled" /\ message'[r] = message[r]]_vars

(* Once the crashes stop no run stays active for ever, which would close   *)
(* its thread to new ones, not even next to torn files: unless an error of *)
(* the storage was logged for it since the last start, which alone takes   *)
(* it up again.                                                            *)
CrashesStop == <>[][\A w \in Workers : ~ Crash(w)]_vars
RunsEnd ==
    CrashesStop => \A r \in Runs : disk[r] \in Live ~> disk[r] \notin Live \/ r \in logged
=============================================================================
