----------------------------- MODULE StepGraphs -----------------------------
(***************************************************************************)
(* The gateway's three schedulers of step graphs:                          *)
(*   "workflow"  workflows/yaml_workflow.py, steps of a YAML file,         *)
(*   "pipeline"  task_pipeline.py, subtasks that a model has listed,       *)
(*   "plan"      orchestrator/executor.py, the plans of its own planner.   *)
(* Each runs its graph in waves: all steps whose dependencies are done go  *)
(* into one asyncio.gather, and the next wave starts when that returns,    *)
(* with no await in between.                                               *)
(*                                                                         *)
(* A step is one call of an executor, a retried subtask up to three; what  *)
(* comes back is a success, a failure, or, from a multimodal fan-out of    *)
(* which no route worked, evidence whether a platform is worth another     *)
(* try.  Left out: the executors, prompts and outputs, conditions, traces. *)
(***************************************************************************)
EXTENDS Naturals, Sequences, FiniteSets

CONSTANTS Steps,        (* the ids of the graph's steps                     *)
          Unknown,      (* an id that no step has                           *)
          Last,         (* the step that a plan lists last                  *)
          DependsOn,    (* the lists of dependencies that are considered    *)
          Capability    (* Capability[s]: who executes the subtask s        *)

Capabilities == {"moa", "multimodal", "other"}

ASSUME GraphAssumption ==
    /\ IsFiniteSet(Steps)
    /\ Last \in Steps
    /\ Unknown \notin Steps
    /\ DependsOn \subseteq Seq(Steps \cup {Unknown})
    /\ Capability \in [Steps -> Capabilities]

VARIABLES kind,       (* the scheduler                                      *)
          deps,       (* deps[s]: the list of ids that s depends on         *)
          result,     (* the answer to the client, "none" before            *)
          wave,       (* the steps of the current gather                    *)
          done,       (* the steps of the waves before                      *)
          status,     (* status[s]: SubTask.status                          *)
          attempts,   (* attempts[s]: SubTask.attempts                      *)
          routes      (* routes[s]: what the last failed fan-out reported   *)

vars == <<kind, deps, result, wave, done, status, attempts, routes>>

Kinds   == {"workflow", "pipeline", "plan"}
Results == {"none", "running", "rejected", "success", "failure", "cancelled"}

TypeOK ==
    /\ kind \in Kinds
    /\ deps \in [Steps -> DependsOn]
    /\ result \in Results
    /\ wave \subseteq Steps
    /\ done \subseteq Steps \ wave
    /\ status \in [Steps -> {"pending", "running", "success", "failed", "cancelled"}]
    /\ attempts \in [Steps -> 0..3]
    /\ routes \in [Steps -> {"none", "transient", "permanent"}]
    /\ \A s \in Steps : (status[s] = "pending") <=> (s \notin wave \cup done)

Dependencies(s) == {deps[s][i] : i \in DOMAIN deps[s]}

(***************************************************************************)
(* Loading: Kahn's algorithm, which removes steps that wait for nobody     *)
(* until none is left.  A workflow counts every listed dependency down; a  *)
(* pipeline counts a step it depends on once, however often it is listed.  *)
(***************************************************************************)
Waits_Distinct(s, R) == Cardinality(Dependencies(s) \cap R) # Len(deps[s])

Waits(s, R) ==
    CASE kind = "workflow" -> ~ (Dependencies(s) \subseteq R)
      [] kind = "pipeline" -> Cardinality(Dependencies(s) \cap R) # Len(deps[s])

Removed[n \in Nat] ==
    IF n = 0 THEN {} ELSE {s \in Steps : ~ Waits(s, Removed[n - 1])}

Accepted_Unsorted == \A s \in Steps : Dependencies(s) \subseteq Steps \ {s}

Accepted ==
    \/ kind = "plan"
    \/ /\ \A s \in Steps : Dependencies(s) \subseteq Steps \ {s}
       /\ Removed[Cardinality(Steps)] = Steps

(***************************************************************************)
(* Running.                                                                *)
(***************************************************************************)
Ready_Any(finished) ==
    {s \in Steps \ finished : deps[s] = <<>> \/ Dependencies(s) \cap finished # {}}

Ready(finished) == {s \in Steps \ finished : Dependencies(s) \subseteq finished}

(* gather() starts its coroutines; each runs to its first await.           *)
Launch(S) ==
    /\ wave' = S
    /\ status' = [s \in Steps |-> IF s \in S THEN "running" ELSE status[s]]
    /\ attempts' = [s \in Steps |-> IF s \in S THEN 1 ELSE attempts[s]]

Load ==
    /\ result = "none"
    /\ IF Accepted THEN result' = "running" /\ Launch(Ready({}))
                   ELSE result' = "rejected" /\ UNCHANGED <<wave, status, attempts>>
    /\ UNCHANGED <<kind, deps, done, routes>>

Finished(S) == \A s \in S : status[s] # "running"

Failed(S) == \E s \in S : status[s] = "failed"

(* What is said when all steps are done: a plan is content with one.       *)
Verdict_Plan ==
    IF \E s \in Steps : status[s] = "success" THEN "success" ELSE "failure"

Verdict ==
    IF kind = "plan" THEN Verdict_Plan
    ELSE IF Failed(Steps) THEN "failure" ELSE "success"

Stops_All == kind = "workflow" /\ \A s \in wave : status[s] = "failed"

Stops == kind = "workflow" /\ Failed(wave)

(* gather() has returned, and its results are looked at: a workflow ends   *)
(* with the first failure, the others go on without the output.  That no   *)
(* step is ready, which the code reports as a deadlock, cannot be for an   *)
(* accepted graph (theorem NoRunIsStuck); here the wave would be empty.    *)
Gathered ==
    /\ result = "running"
    /\ Finished(wave)
    /\ done' = done \cup wave
    /\ IF done' = Steps \/ Stops
       THEN /\ result' = Verdict
            /\ wave' = {}
            /\ UNCHANGED <<status, attempts>>
       ELSE /\ Launch(Ready(done'))
            /\ UNCHANGED result
    /\ UNCHANGED <<kind, deps, routes>>

Settle(s, outcome) ==
    /\ status' = [status EXCEPT ![s] = outcome]
    /\ UNCHANGED <<kind, deps, result, wave, done>>

Succeed(s) ==
    /\ status[s] = "running"
    /\ Settle(s, "success")
    /\ UNCHANGED <<attempts, routes>>

(* Whether self-healing has an executor to call: the chat for the MoA, a   *)
(* second fan-out where the last one left a platform to try.               *)
Healable(s, report) ==
    \/ Capability[s] = "moa"
    \/ Capability[s] = "multimodal" /\ report = "transient"

(* An executor raised or ran out of time (the report is as before), or a   *)
(* fan-out reported that no route worked.                                  *)
Reports(s) ==
    IF kind = "pipeline" /\ Capability[s] = "multimodal"
    THEN {routes[s], "transient", "permanent"} ELSE {routes[s]}

Again(s, report) ==
    /\ kind = "pipeline"
    /\ \/ attempts[s] = 1
       \/ attempts[s] = 2 /\ Healable(s, report)

Fail(s) ==
    /\ status[s] = "running"
    /\ \E report \in Reports(s) :
          /\ routes' = [routes EXCEPT ![s] = report]
          /\ IF Again(s, report)
             THEN /\ attempts' = [attempts EXCEPT ![s] = @ + 1]
                  /\ UNCHANGED <<kind, deps, result, wave, done, status>>
             ELSE /\ Settle(s, "failed")
                  /\ attempts' = [attempts EXCEPT ![s] = IF kind = "pipeline" THEN 3 ELSE @]

(* The request is cancelled, and gather() cancels what it waits for.       *)
Cancel ==
    /\ result = "running"
    /\ result' = "cancelled"
    /\ status' = [s \in Steps |-> IF status[s] = "running" THEN "cancelled" ELSE status[s]]
    /\ UNCHANGED <<kind, deps, wave, done, attempts, routes>>

(***************************************************************************)
(* The planner lists steps that depend on nothing and may add a last one   *)
(* that depends on all the others (orchestrator/planner.py).               *)
(***************************************************************************)
Planned(g) ==
    /\ \A s \in Steps \ {Last} : g[s] = <<>>
    /\ \/ g[Last] = <<>>
       \/ /\ Len(g[Last]) = Cardinality(Steps) - 1
          /\ {g[Last][i] : i \in DOMAIN g[Last]} = Steps \ {Last}

Init ==
    /\ kind \in Kinds
    /\ deps \in [Steps -> DependsOn]
    /\ kind = "plan" => Planned(deps)
    /\ result = "none"
    /\ wave = {}
    /\ done = {}
    /\ status = [s \in Steps |-> "pending"]
    /\ attempts = [s \in Steps |-> 0]
    /\ routes = [s \in Steps |-> "none"]

Returns(s) == Succeed(s) \/ Fail(s)

Next == Load \/ Gathered \/ Cancel \/ \E s \in Steps : Returns(s)

Spec == Init /\ [][Next]_vars

(* Executors come back: pipelines give them per_subtask_timeout_s, HTTP    *)
(* and model calls have timeouts, loops are bounded.                       *)
FairSpec ==
    /\ Spec
    /\ WF_vars(Load \/ Gathered)
    /\ \A s \in Steps : WF_vars(Returns(s))

(***************************************************************************)
(* Properties.                                                             *)
(***************************************************************************)
Ended == result \notin {"none", "running"}

Numbering(f) == \A s \in Steps : \A d \in Dependencies(s) : d \in Steps /\ f[d] < f[s]

Repeats(s) == Cardinality(Dependencies(s)) # Len(deps[s])

(* A graph is rejected when its steps cannot be numbered so that each one  *)
(* comes after those it depends on, and only then; a pipeline rejects also *)
(* a subtask that lists a dependency twice (_validate_plan and             *)
(* _topological_sort against the definition of a DAG).                     *)
RejectsNoDag ==
    result # "none" =>
        (result = "rejected") <=>
        \/ ~ \E f \in [Steps -> 1..Cardinality(Steps)] : Numbering(f)
        \/ kind = "pipeline" /\ \E s \in Steps : Repeats(s)

(* When the client has its answer, no step is still being executed: each   *)
(* gather waits for all its steps, also when one of them fails.            *)
NothingRunsOn == Ended => \A s \in Steps : status[s] # "running"

(* What an answer says is true of every step: a workflow or pipeline that  *)
(* succeeded has done all of them, a plan at least one; pipelines and      *)
(* plans that failed have tried all of them, and something did fail.       *)
VerdictIsTrue ==
    /\ result = "success" =>
          /\ \A s \in Steps : status[s] = "success" \/ (kind = "plan" /\ status[s] = "failed")
          /\ \E s \in Steps : status[s] = "success"
    /\ result = "failure" =>
          /\ Failed(Steps)
          /\ kind # "workflow" => \A s \in Steps : status[s] \in {"success", "failed"}

(* No step of a workflow runs when one that it depends on has failed, so   *)
(* it never reads an output that is not there.                             *)
WorkflowInputsExist ==
    kind = "workflow" =>
        \A s \in Steps : \A d \in Dependencies(s) :
            s \in wave \cup done => status[d] = "success"

(* Steps start only after all that they depend on has ended.               *)
Stage(s) ==
    CASE status[s] = "pending" -> "waiting"
      [] status[s] = "running" -> "open"
      [] OTHER -> "over"

Order == INSTANCE StepOrder WITH stage <- [s \in Steps |-> Stage(s)]

ImplementsOrder == Order!Spec

(* Every run comes to an end, whatever its steps do: the waves never run   *)
(* out before the steps ("No ready steps", "dependency deadlock").         *)
RunsEnd == (result = "none") ~> Ended
=============================================================================
