--------------------------- MODULE StepGraphsProofs ---------------------------
(* The running of step graphs, for any graph and any number of steps: nothing  *)
(* runs on behind an answer, answers are true, workflows read only outputs     *)
(* that exist, and the schedulers keep the order that StepOrder states: none   *)
(* of this rests on the graph being acyclic.  Then what Kahn's algorithm       *)
(* accepts, by induction over its rounds, and that no run is ever stuck.       *)
EXTENDS StepGraphs, FiniteSetTheorems, WellFoundedInduction, TLAPS

(* What is known of a request before its graph runs, and after it ran.         *)
Idle ==
    /\ result \in {"none", "rejected", "success", "failure"} => wave = {}
    /\ result \in {"none", "rejected"} => done = {}

(* What the waves before have left behind; a cancelled step is the trace of a  *)
(* cancelled request.                                                          *)
Behind ==
    /\ \A s \in done : status[s] \in {"success", "failed"}
    /\ \A s \in wave : result = "running" => status[s] \in {"running", "success", "failed"}

(* A step in a wave has its dependencies in the waves before.                  *)
Layered == \A s \in wave \cup done : Dependencies(s) \subseteq done

(* A workflow that goes on has had no failure so far.                          *)
Clean ==
    kind = "workflow" /\ result = "running" => \A s \in done : status[s] = "success"

Inv ==
    /\ TypeOK /\ Idle /\ Behind /\ Layered /\ Clean
    /\ NothingRunsOn /\ VerdictIsTrue /\ WorkflowInputsExist

LEMMA InitInv == Init => Inv
<1> SUFFICES ASSUME Init PROVE Inv
    OBVIOUS
<1>1. TypeOK
    BY DEF Init, TypeOK, Kinds, Results
<1>2. NothingRunsOn /\ VerdictIsTrue /\ WorkflowInputsExist
    BY DEF Init, NothingRunsOn, VerdictIsTrue, WorkflowInputsExist, Ended
<1> QED BY <1>1, <1>2 DEF Init, Inv, Idle, Behind, Layered, Clean

(* Steps that are launched: waiting before, their dependencies done.           *)
LEMMA ReadySteps ==
    ASSUME NEW finished
    PROVE  /\ Ready(finished) \subseteq Steps \ finished
           /\ \A s \in Ready(finished) : Dependencies(s) \subseteq finished
BY DEF Ready

LEMMA LoadInv == ASSUME Inv, Load PROVE Inv'
<1>1. /\ result = "none" /\ wave = {} /\ done = {}
      /\ kind' = kind /\ deps' = deps /\ done' = {} /\ routes' = routes
      /\ \A s \in Steps : status[s] = "pending"
    BY DEF Load, Inv, Idle, TypeOK
<1>2. CASE result' = "rejected" /\ UNCHANGED <<wave, status, attempts>>
  <2>1. TypeOK'
    BY <1>1, <1>2 DEF Inv, TypeOK, Results
  <2>2. NothingRunsOn' /\ VerdictIsTrue' /\ WorkflowInputsExist'
    BY <1>1, <1>2 DEF NothingRunsOn, VerdictIsTrue, WorkflowInputsExist, Ended
  <2> QED BY <1>1, <1>2, <2>1, <2>2 DEF Inv, Idle, Behind, Layered, Clean
<1>3. CASE result' = "running" /\ Launch(Ready({}))
  <2>1. /\ wave' \subseteq Steps
        /\ \A s \in wave' : Dependencies(s) = {}
        /\ status' = [s \in Steps |-> IF s \in wave' THEN "running" ELSE status[s]]
        /\ attempts' = [s \in Steps |-> IF s \in wave' THEN 1 ELSE attempts[s]]
    BY <1>3, ReadySteps DEF Launch
  <2>2. TypeOK'
    BY <1>1, <1>3, <2>1 DEF Inv, TypeOK, Results
  <2>3. \A s \in wave' : Dependencies(s)' = {}
    BY <1>1, <2>1 DEF Dependencies
  <2>4. NothingRunsOn' /\ VerdictIsTrue' /\ WorkflowInputsExist'
    BY <1>1, <1>3, <2>3 DEF NothingRunsOn, VerdictIsTrue, WorkflowInputsExist, Ended
  <2>5. Idle' /\ Behind' /\ Layered' /\ Clean'
    BY <1>1, <1>3, <2>1, <2>3 DEF Idle, Behind, Layered, Clean
  <2> QED BY <2>2, <2>4, <2>5 DEF Inv
<1> QED BY <1>2, <1>3 DEF Load

(* The steps of a gather that has returned have succeeded or failed.           *)
LEMMA WaveIsOver ==
    ASSUME Inv, Gathered
    PROVE  /\ result = "running" /\ done' = done \cup wave /\ done' \subseteq Steps
           /\ kind' = kind /\ deps' = deps /\ routes' = routes
           /\ \A s \in done' : status[s] \in {"success", "failed"}
           /\ \A s \in Steps \ done' : status[s] = "pending"
           /\ \A s \in done' : Dependencies(s) \subseteq done
<1>1. /\ result = "running" /\ done' = done \cup wave
      /\ kind' = kind /\ deps' = deps /\ routes' = routes
      /\ \A s \in wave : status[s] # "running"
    BY DEF Gathered, Finished
<1>2. \A s \in done' : status[s] \in {"success", "failed"}
    BY <1>1 DEF Inv, Behind
<1>3. done' \subseteq Steps /\ \A s \in Steps \ done' : status[s] = "pending"
    BY <1>1 DEF Inv, TypeOK
<1> QED BY <1>1, <1>2, <1>3 DEF Inv, Layered

LEMMA AnswerInv ==
    ASSUME Inv, Gathered, done' = Steps \/ Stops PROVE Inv'
<1>1. result' = Verdict /\ wave' = {} /\ UNCHANGED <<status, attempts>>
    BY DEF Gathered
<1>2. /\ done' = done \cup wave /\ done' \subseteq Steps
      /\ kind' = kind /\ deps' = deps /\ routes' = routes
      /\ \A s \in done' : status[s] \in {"success", "failed"}
      /\ \A s \in Steps \ done' : status[s] = "pending"
      /\ \A s \in done' : Dependencies(s)' \subseteq done
      /\ result = "running"
    BY WaveIsOver DEF Dependencies
<1>3. result' \in {"success", "failure"}
    BY <1>1 DEF Verdict, Verdict_Plan
<1>4. TypeOK'
    BY <1>1, <1>2, <1>3 DEF Inv, TypeOK, Results
<1>5. NothingRunsOn'
    BY <1>1, <1>2 DEF NothingRunsOn
<1>6. VerdictIsTrue'
  <2>1. ASSUME result' = "success"
        PROVE  /\ \A s \in Steps : status[s] = "success" \/ (kind = "plan" /\ status[s] = "failed")
               /\ \E s \in Steps : status[s] = "success"
    <3>1. CASE kind = "plan"
      <4>1. done' = Steps
        BY <3>1 DEF Stops
      <4>2. \E s \in Steps : status[s] = "success"
        BY <1>1, <2>1, <3>1 DEF Verdict, Verdict_Plan
      <4> QED BY <1>2, <3>1, <4>1, <4>2
    <3>2. CASE kind # "plan"
      <4>1. ~ Failed(Steps)
        BY <1>1, <2>1, <3>2 DEF Verdict
      <4>2. ~ Stops
        BY <4>1 DEF Stops, Failed, Inv, TypeOK
      <4>3. \A s \in Steps : status[s] = "success"
        BY <1>2, <4>1, <4>2 DEF Failed
      <4>4. Steps # {}
        BY GraphAssumption
      <4> QED BY <4>3, <4>4
    <3> QED BY <3>1, <3>2
  <2>2. ASSUME result' = "failure"
        PROVE  /\ Failed(Steps)
               /\ kind # "workflow" => \A s \in Steps : status[s] \in {"success", "failed"}
    <3>1. kind # "workflow" => done' = Steps
      BY DEF Stops
    <3>2. CASE kind = "plan"
      <4>1. Last \in Steps /\ status[Last] # "success"
        BY <1>1, <2>2, <3>2, GraphAssumption DEF Verdict, Verdict_Plan
      <4> QED BY <1>2, <3>1, <3>2, <4>1 DEF Failed
    <3>3. CASE kind # "plan"
      BY <1>1, <1>2, <2>2, <3>1, <3>3 DEF Verdict
    <3> QED BY <3>2, <3>3
  <2> QED BY <1>1, <1>2, <2>1, <2>2 DEF VerdictIsTrue, Failed
<1>7. WorkflowInputsExist'
  <2> SUFFICES ASSUME kind = "workflow", NEW s \in done', NEW d \in Dependencies(s)'
               PROVE  status[d] = "success"
    BY <1>1, <1>2 DEF WorkflowInputsExist
  <2> QED BY <1>2 DEF Inv, Clean
<1>8. Idle' /\ Behind' /\ Layered' /\ Clean'
    BY <1>1, <1>2, <1>3 DEF Idle, Behind, Layered, Clean
<1> QED BY <1>4, <1>5, <1>6, <1>7, <1>8 DEF Inv

LEMMA NextWaveInv ==
    ASSUME Inv, Gathered, ~ (done' = Steps \/ Stops) PROVE Inv'
<1>1. /\ result' = result /\ wave' = Ready(done')
      /\ status' = [s \in Steps |-> IF s \in wave' THEN "running" ELSE status[s]]
      /\ attempts' = [s \in Steps |-> IF s \in wave' THEN 1 ELSE attempts[s]]
    BY DEF Gathered, Launch
<1>2. /\ done' = done \cup wave /\ done' \subseteq Steps
      /\ kind' = kind /\ deps' = deps /\ routes' = routes
      /\ \A s \in done' : status[s] \in {"success", "failed"}
      /\ \A s \in Steps \ done' : status[s] = "pending"
      /\ \A s \in done' : Dependencies(s)' \subseteq done
      /\ result = "running"
    BY WaveIsOver DEF Dependencies
<1>3. /\ wave' \subseteq Steps \ done'
      /\ \A s \in wave' : Dependencies(s)' \subseteq done'
    BY <1>1, <1>2, ReadySteps DEF Dependencies
<1>4. TypeOK'
  <2>1. done' \subseteq Steps \ wave' /\ wave' \subseteq Steps
    BY <1>2, <1>3
  <2>2. /\ status' \in [Steps -> {"pending", "running", "success", "failed", "cancelled"}]
        /\ attempts' \in [Steps -> 0..3]
    BY <1>1 DEF Inv, TypeOK
  <2>3. \A s \in Steps : (status'[s] = "pending") <=> (s \notin wave' \cup done')
    BY <1>1, <1>2
  <2> QED BY <1>1, <1>2, <2>1, <2>2, <2>3 DEF Inv, TypeOK
<1>5. NothingRunsOn' /\ VerdictIsTrue'
    BY <1>1, <1>2 DEF NothingRunsOn, VerdictIsTrue, Ended
<1>6. \A s \in done' : status'[s] = status[s]
    BY <1>1, <1>2, <1>3
<1>7. kind = "workflow" => \A s \in done' : status[s] = "success"
    BY <1>2 DEF Inv, Clean, Stops, Failed
<1>8. WorkflowInputsExist'
    BY <1>2, <1>3, <1>6, <1>7 DEF WorkflowInputsExist
<1>9. Idle' /\ Behind' /\ Layered' /\ Clean'
    BY <1>1, <1>2, <1>3, <1>6, <1>7 DEF Idle, Behind, Layered, Clean
<1> QED BY <1>4, <1>5, <1>8, <1>9 DEF Inv

(* A running step belongs to the wave of a running request, and settles there. *)
LEMMA SettleInv ==
    ASSUME Inv, NEW s \in Steps, status[s] = "running",
           NEW outcome \in {"success", "failed"}, Settle(s, outcome),
           attempts' \in [Steps -> 0..3],
           routes' \in [Steps -> {"none", "transient", "permanent"}]
    PROVE  Inv'
<1>1. /\ status' = [status EXCEPT ![s] = outcome]
      /\ kind' = kind /\ deps' = deps /\ result' = result /\ wave' = wave /\ done' = done
    BY DEF Settle
<1>2. s \in wave /\ s \notin done /\ result = "running"
    BY DEF Inv, TypeOK, Behind, NothingRunsOn, Ended, Idle
<1>3. TypeOK'
    BY <1>1, <1>2 DEF Inv, TypeOK
<1>4. \A t \in Steps \ {s} : status'[t] = status[t]
    BY <1>1 DEF Inv, TypeOK
<1>5. status'[s] = outcome
    BY <1>1 DEF Inv, TypeOK
<1>6. \A t \in Steps : Dependencies(t)' = Dependencies(t)
    BY <1>1 DEF Dependencies
<1>7. NothingRunsOn' /\ VerdictIsTrue'
    BY <1>1, <1>2 DEF NothingRunsOn, VerdictIsTrue, Ended
<1>8. WorkflowInputsExist'
    BY <1>1, <1>2, <1>4, <1>6 DEF Inv, TypeOK, WorkflowInputsExist, Layered
<1>9. Idle' /\ Behind' /\ Layered' /\ Clean'
    BY <1>1, <1>2, <1>4, <1>5, <1>6 DEF Inv, TypeOK, Idle, Behind, Layered, Clean
<1> QED BY <1>3, <1>7, <1>8, <1>9 DEF Inv

LEMMA SucceedInv == ASSUME Inv, NEW s \in Steps, Succeed(s) PROVE Inv'
BY SettleInv DEF Succeed, Inv, TypeOK

LEMMA FailInv == ASSUME Inv, NEW s \in Steps, Fail(s) PROVE Inv'
<1>1. PICK report \in Reports(s) :
          /\ routes' = [routes EXCEPT ![s] = report]
          /\ \/ /\ Again(s, report)
                /\ attempts' = [attempts EXCEPT ![s] = @ + 1]
                /\ UNCHANGED <<kind, deps, result, wave, done, status>>
             \/ /\ Settle(s, "failed")
                /\ attempts' = [attempts EXCEPT ![s] = IF kind = "pipeline" THEN 3 ELSE @]
    BY DEF Fail
<1>2. report \in {"none", "transient", "permanent"}
    BY DEF Reports, Inv, TypeOK
<1>3. routes' \in [Steps -> {"none", "transient", "permanent"}]
    BY <1>1, <1>2 DEF Inv, TypeOK
<1>4. CASE /\ Again(s, report)
           /\ attempts' = [attempts EXCEPT ![s] = @ + 1]
           /\ UNCHANGED <<kind, deps, result, wave, done, status>>
  <2>1. attempts[s] + 1 \in 0..3
    BY <1>4 DEF Again
  <2>2. TypeOK'
    BY <1>3, <1>4, <2>1 DEF Inv, TypeOK
  <2>3. \A t \in Steps : Dependencies(t)' = Dependencies(t)
    BY <1>4 DEF Dependencies
  <2>4. NothingRunsOn' /\ VerdictIsTrue' /\ WorkflowInputsExist'
    BY <1>4, <2>3 DEF Inv, NothingRunsOn, VerdictIsTrue, WorkflowInputsExist, Ended, Failed
  <2>5. Idle' /\ Behind' /\ Layered' /\ Clean'
    BY <1>4, <2>3 DEF Inv, TypeOK, Idle, Behind, Layered, Clean
  <2> QED BY <2>2, <2>4, <2>5 DEF Inv
<1>5. CASE /\ Settle(s, "failed")
           /\ attempts' = [attempts EXCEPT ![s] = IF kind = "pipeline" THEN 3 ELSE @]
  <2>1. attempts' \in [Steps -> 0..3]
    BY <1>5 DEF Inv, TypeOK
  <2>2. status[s] = "running"
    BY DEF Fail
  <2> QED BY <1>3, <1>5, <2>1, <2>2, SettleInv
<1> QED BY <1>1, <1>4, <1>5

LEMMA CancelInv == ASSUME Inv, Cancel PROVE Inv'
<1>1. /\ result = "running" /\ result' = "cancelled"
      /\ status' = [s \in Steps |-> IF status[s] = "running" THEN "cancelled" ELSE status[s]]
      /\ kind' = kind /\ deps' = deps /\ wave' = wave /\ done' = done
      /\ attempts' = attempts /\ routes' = routes
    BY DEF Cancel
<1>2. TypeOK'
    BY <1>1 DEF Inv, TypeOK, Results
<1>3. \A t \in Steps : Dependencies(t)' = Dependencies(t)
    BY <1>1 DEF Dependencies
<1>4. \A s \in done : s \in Steps /\ status'[s] = status[s]
    BY <1>1 DEF Inv, TypeOK, Behind
<1>5. NothingRunsOn' /\ VerdictIsTrue'
    BY <1>1 DEF NothingRunsOn, VerdictIsTrue
<1>6. WorkflowInputsExist'
    BY <1>1, <1>3, <1>4 DEF Inv, TypeOK, WorkflowInputsExist, Layered
<1>7. Idle' /\ Behind' /\ Layered' /\ Clean'
    BY <1>1, <1>3, <1>4 DEF Inv, TypeOK, Idle, Behind, Layered, Clean
<1> QED BY <1>2, <1>5, <1>6, <1>7 DEF Inv

LEMMA NextInv == Inv /\ [Next]_vars => Inv'
<1> SUFFICES ASSUME Inv, [Next]_vars PROVE Inv'
    OBVIOUS
<1>1. CASE Load
    BY <1>1, LoadInv
<1>2. CASE Gathered
    BY <1>2, AnswerInv, NextWaveInv
<1>3. CASE Cancel
    BY <1>3, CancelInv
<1>4. ASSUME NEW s \in Steps, Returns(s) PROVE Inv'
    BY <1>4, SucceedInv, FailInv DEF Returns
<1>5. CASE UNCHANGED vars
  <2>1. \A t \in Steps : Dependencies(t)' = Dependencies(t)
    BY <1>5 DEF Dependencies, vars
  <2>2. TypeOK' /\ NothingRunsOn' /\ VerdictIsTrue' /\ WorkflowInputsExist'
    BY <1>5, <2>1 DEF vars, Inv, TypeOK, NothingRunsOn, VerdictIsTrue, WorkflowInputsExist,
                      Ended, Failed
  <2>3. Idle' /\ Behind' /\ Layered' /\ Clean'
    BY <1>5, <2>1 DEF vars, Inv, TypeOK, Idle, Behind, Layered, Clean
  <2> QED BY <2>2, <2>3 DEF Inv
<1> QED BY <1>1, <1>2, <1>3, <1>4, <1>5 DEF Next

THEOREM Invariance == Spec => []Inv
BY InitInv, NextInv, PTL DEF Spec

(* Every variable keeps its type; a step waits exactly while no wave has had   *)
(* it, and no step is tried more than three times (task_pipeline.py:419-454).  *)
THEOREM TypeCorrect == Spec => []TypeOK
<1>1. Inv => TypeOK
    BY DEF Inv
<1> QED BY <1>1, Invariance, PTL

(* No step is still executed when the client has its answer, also when one of  *)
(* the steps failed (gather with return_exceptions in all three schedulers).   *)
THEOREM NothingIsLeft == Spec => []NothingRunsOn
<1>1. Inv => NothingRunsOn
    BY DEF Inv
<1> QED BY <1>1, Invariance, PTL

(* The answer of a workflow, pipeline or plan agrees with what became of its   *)
(* steps.                                                                      *)
THEOREM AnswersAreTrue == Spec => []VerdictIsTrue
<1>1. Inv => VerdictIsTrue
    BY DEF Inv
<1> QED BY <1>1, Invariance, PTL

(* A step of a workflow runs only with the outputs of its dependencies.        *)
THEOREM InputsExist == Spec => []WorkflowInputsExist
<1>1. Inv => WorkflowInputsExist
    BY DEF Inv
<1> QED BY <1>1, Invariance, PTL

(***************************************************************************)
(* Induction.  The library states it with an operator as parameter, which  *)
(* these provers cannot instantiate; this is the same for sets.            *)
(***************************************************************************)

(* A set of natural numbers that is not empty has a least member.              *)
LEMMA LeastNumber ==
    ASSUME NEW T, T \subseteq Nat, T # {}
    PROVE  \E x \in T : \A y \in T : x <= y
<1> DEFINE R == {ss \in Nat \X Nat : ss[1] < ss[2]}
<1>1. IsWellFoundedOn(R, Nat)
    BY NatLessThanWellFounded DEF OpToRel
<1> HIDE DEF R
<1>2. PICK x \in T : \A y \in T : ~ (<<y, x>> \in R)
    BY <1>1, WFMin
<1>3. ASSUME NEW y \in T, ~ (x <= y) PROVE <<y, x>> \in R
  <2>1. x \in Nat /\ y \in Nat /\ y < x
    BY <1>3
  <2> QED BY <2>1 DEF R
<1> QED BY <1>2, <1>3

LEMMA Induction ==
    ASSUME NEW S, 0 \in S, \A n \in Nat : n \in S => n + 1 \in S
    PROVE  \A n \in Nat : n \in S
<1> DEFINE T == Nat \ S
<1> SUFFICES ASSUME T # {} PROVE FALSE
    OBVIOUS
<1>1. PICK x \in T : \A y \in T : x <= y
    BY LeastNumber
<1>2. x # 0 /\ x - 1 \in Nat
    OBVIOUS
<1>3. x - 1 \in S
    BY <1>1, <1>2
<1> QED BY <1>2, <1>3

(* g iterates F, from a on.                                                    *)
Orbit(g, S, a, F) ==
    g \in [Nat -> S] /\ g[0] = a /\ \A n \in Nat : g[n + 1] = F[g[n]]

(* Any function on a set can be iterated: what a recursive definition over the *)
(* natural numbers takes for granted.                                          *)
LEMMA Iterates ==
    ASSUME NEW S, NEW a \in S, NEW F \in [S -> S]
    PROVE  \E g : Orbit(g, S, a, F)
<1> DEFINE Starts(n) ==
               {h \in [0..n -> S] : h[0] = a /\ \A i \in Nat : i < n => h[i + 1] = F[h[i]]}
           Long == {n \in Nat : Starts(n) # {}}
<1>1. \A n \in Nat : n \in Long
  <2>1. 0 \in Long
    <3>1. [i \in 0..0 |-> a] \in Starts(0)
      OBVIOUS
    <3> QED BY <3>1
  <2>2. ASSUME NEW n \in Nat, n \in Long PROVE n + 1 \in Long
    <3>1. PICK h : h \in Starts(n)
      BY <2>2
    <3> DEFINE k == [i \in 0..(n + 1) |-> IF i = n + 1 THEN F[h[n]] ELSE h[i]]
    <3>2. k \in [0..(n + 1) -> S]
      BY <3>1
    <3>3. k[0] = a /\ \A i \in Nat : i < n + 1 => k[i + 1] = F[k[i]]
      BY <3>1
    <3>4. k \in Starts(n + 1)
      BY <3>2, <3>3
    <3> QED BY <3>4
  <2> HIDE DEF Long
  <2> QED BY <2>1, <2>2, Induction
<1>2. ASSUME NEW n \in Nat, NEW m \in Nat, n <= m, NEW h \in Starts(n), NEW k \in Starts(m)
      PROVE  h[n] = k[n]
  <2> DEFINE Same == {i \in Nat : i <= n => h[i] = k[i]}
  <2>1. 0 \in Same
    OBVIOUS
  <2>2. ASSUME NEW i \in Nat, i \in Same PROVE i + 1 \in Same
    BY <1>2, <2>2
  <2>3. \A i \in Nat : i \in Same
    <3> HIDE DEF Same
    <3> QED BY <2>1, <2>2, Induction
  <2> QED BY <2>3
<1> DEFINE s == [n \in Nat |-> CHOOSE h : h \in Starts(n)]
           g == [n \in Nat |-> s[n][n]]
<1>3. \A n \in Nat : s[n] \in Starts(n)
    BY <1>1
<1>4. g \in [Nat -> S]
  <2>1. ASSUME NEW n \in Nat PROVE s[n][n] \in S
    <3>1. s[n] \in [0..n -> S]
      BY <1>3
    <3> QED BY <3>1
  <2> HIDE DEF s
  <2> QED BY <2>1
<1>5. g[0] = a
  <2>1. s[0][0] = a
    BY <1>3
  <2> HIDE DEF s
  <2> QED BY <2>1
<1>6. ASSUME NEW n \in Nat PROVE g[n + 1] = F[g[n]]
  <2> HIDE DEF s
  <2>1. s[n] \in Starts(n) /\ s[n + 1] \in Starts(n + 1)
    <3> HIDE DEF Starts
    <3> QED BY <1>3
  <2>2. s[n + 1][n + 1] = F[s[n + 1][n]]
    BY <2>1
  <2>3. s[n][n] = s[n + 1][n]
    BY <1>2, <2>1
  <2> QED BY <2>2, <2>3
<1> HIDE DEF g
<1> QED BY <1>4, <1>5, <1>6 DEF Orbit

(***************************************************************************)
(* What Kahn's algorithm accepts.                                          *)
(***************************************************************************)

(* Its rounds: Removed is what its recursive definition says.                  *)
LEMMA RemovedRounds ==
    /\ Removed[0] = {}
    /\ \A n \in Nat : Removed[n + 1] = {s \in Steps : ~ Waits(s, Removed[n])}
    /\ \A n \in Nat : Removed[n] \subseteq Steps
<1> DEFINE F == [R \in SUBSET Steps |-> {s \in Steps : ~ Waits(s, R)}]
           Rec(g) == [n \in Nat |->
                         IF n = 0 THEN {} ELSE {s \in Steps : ~ Waits(s, g[n - 1])}]
<1>1. \E g : g = Rec(g)
  <2>1. /\ F \in [SUBSET Steps -> SUBSET Steps]
        /\ \A R \in SUBSET Steps : F[R] = {s \in Steps : ~ Waits(s, R)}
    OBVIOUS
  <2> HIDE DEF F
  <2>2. {} \in SUBSET Steps
    OBVIOUS
  <2>3. PICK g : Orbit(g, SUBSET Steps, {}, F)
    BY <2>1, <2>2, Iterates
  <2>4. g \in [Nat -> SUBSET Steps] /\ g[0] = {} /\ \A n \in Nat : g[n + 1] = F[g[n]]
    BY <2>3 DEF Orbit
  <2>5. ASSUME NEW n \in Nat, n # 0 PROVE g[n] = {s \in Steps : ~ Waits(s, g[n - 1])}
    <3>1. n - 1 \in Nat /\ (n - 1) + 1 = n
      BY <2>5
    <3>2. g[n] = F[g[n - 1]] /\ g[n - 1] \in SUBSET Steps
      BY <2>4, <3>1
    <3> QED BY <2>1, <3>2
  <2>6. g = Rec(g)
    BY <2>4, <2>5
  <2> QED BY <2>6
<1>2. Removed = Rec(Removed)
    BY <1>1 DEF Removed
<1> HIDE DEF F
<1>3. Removed[0] = {}
    BY <1>2
<1>4. ASSUME NEW n \in Nat PROVE Removed[n + 1] = {s \in Steps : ~ Waits(s, Removed[n])}
  <2>1. n + 1 \in Nat /\ n + 1 # 0 /\ (n + 1) - 1 = n
    OBVIOUS
  <2> QED BY <1>2, <2>1
<1>5. ASSUME NEW n \in Nat PROVE Removed[n] \subseteq Steps
    BY <1>2
<1> QED BY <1>3, <1>4, <1>5

(* A step has as many dependencies as its list is long, or fewer.              *)
LEMMA ListedDependencies ==
    ASSUME TypeOK, NEW s \in Steps
    PROVE  /\ IsFiniteSet(Dependencies(s))
           /\ Cardinality(Dependencies(s)) \in Nat
           /\ Len(deps[s]) \in Nat
           /\ Cardinality(Dependencies(s)) <= Len(deps[s])
<1> DEFINE n == Len(deps[s])
<1>1. deps[s] \in Seq(Steps \cup {Unknown})
    BY GraphAssumption DEF TypeOK
<1>2. n \in Nat /\ DOMAIN deps[s] = 1..n
    BY <1>1
<1>3. deps[s] \in Surjection(1..n, Dependencies(s))
    BY <1>1, <1>2 DEF Surjection, Dependencies
<1>4. IsFiniteSet(1..n) /\ Cardinality(1..n) = n
    BY <1>2, FS_Interval
<1>5. IsFiniteSet(Dependencies(s)) /\ Cardinality(Dependencies(s)) <= n
    BY <1>3, <1>4, FS_Surjection
<1> QED BY <1>2, <1>5, FS_CardinalityType

(* What a step that is removed may not have.                                   *)
Repeated(s) == kind = "pipeline" /\ Repeats(s)

(* A step is removed when all that it depends on is, unless a pipeline lists   *)
(* one of them twice.                                                          *)
LEMMA WaitsForOthers ==
    ASSUME TypeOK, kind # "plan", NEW s \in Steps, NEW R
    PROVE  ~ Waits(s, R) <=> Dependencies(s) \subseteq R /\ ~ Repeated(s)
<1>1. CASE kind = "workflow"
    BY <1>1 DEF Waits, Repeated
<1>2. CASE kind = "pipeline"
  <2> DEFINE D == Dependencies(s)
             W == D \cap R
  <2>1. /\ IsFiniteSet(D) /\ Cardinality(D) \in Nat
        /\ Len(deps[s]) \in Nat /\ Cardinality(D) <= Len(deps[s])
    BY ListedDependencies
  <2>2. W \in SUBSET D
    OBVIOUS
  <2>3. IsFiniteSet(W) /\ Cardinality(W) <= Cardinality(D)
    BY <2>1, <2>2, FS_Subset
  <2>4. Cardinality(W) \in Nat
    BY <2>3, FS_CardinalityType
  <2>5. Cardinality(D) = Cardinality(W) => D = W
    BY <2>1, <2>2, FS_Subset
  <2>6. Waits(s, R) <=> Cardinality(W) # Len(deps[s])
    BY <1>2 DEF Waits
  <2>7. Repeated(s) <=> Cardinality(D) # Len(deps[s])
    BY <1>2 DEF Repeated, Repeats
  <2>8. D \subseteq R => W = D
    OBVIOUS
  <2>9. W = D => D \subseteq R
    OBVIOUS
  <2> HIDE DEF D, W
  <2>10. ~ Waits(s, R) <=> D \subseteq R /\ ~ Repeated(s)
    BY <2>1, <2>3, <2>4, <2>5, <2>6, <2>7, <2>8, <2>9
  <2> QED BY <2>10 DEF D
<1> QED BY <1>1, <1>2 DEF TypeOK, Kinds

(* The rounds in which the steps are removed number them.                      *)
LEMMA AcceptedIsNumbered ==
    ASSUME TypeOK, kind # "plan", Accepted
    PROVE  /\ \E f \in [Steps -> 1..Cardinality(Steps)] : Numbering(f)
           /\ \A s \in Steps : ~ Repeated(s)
<1> DEFINE N == Cardinality(Steps)
           Rounds(s) == {n \in Nat : s \in Removed[n]}
           IsFirst(s, n) == n \in Rounds(s) /\ \A m \in Rounds(s) : n <= m
           f == [s \in Steps |-> CHOOSE n \in Nat : IsFirst(s, n)]
<1>1. N \in Nat /\ Removed[N] = Steps
    BY GraphAssumption, FS_CardinalityType DEF Accepted
<1>2. ASSUME NEW s \in Steps
      PROVE  f[s] \in Nat /\ IsFirst(s, f[s])
  <2>1. Rounds(s) # {} /\ Rounds(s) \subseteq Nat
    BY <1>1
  <2>2. \E n \in Nat : IsFirst(s, n)
    BY <2>1, LeastNumber
  <2> HIDE DEF IsFirst
  <2> QED BY <2>2
<1> HIDE DEF f
<1>3. ASSUME NEW s \in Steps
      PROVE  /\ f[s] \in 1..N
             /\ ~ Repeated(s)
             /\ \A d \in Dependencies(s) : d \in Steps /\ f[d] < f[s]
  <2>1. f[s] \in Nat /\ s \in Removed[f[s]] /\ f[s] <= N
    BY <1>1, <1>2
  <2>2. f[s] # 0
    BY <2>1, RemovedRounds
  <2> DEFINE n == f[s] - 1
  <2>3. n \in Nat /\ n + 1 = f[s]
    BY <2>1, <2>2
  <2> HIDE DEF n
  <2>4. ~ Waits(s, Removed[n])
    BY <2>1, <2>3, RemovedRounds
  <2>5. Dependencies(s) \subseteq Removed[n] /\ ~ Repeated(s)
    BY <2>4, WaitsForOthers
  <2>6. ASSUME NEW d \in Dependencies(s) PROVE d \in Steps /\ f[d] < f[s]
    <3>1. d \in Removed[n] /\ d \in Steps
      BY <2>3, <2>5, RemovedRounds
    <3>2. f[d] \in Nat /\ f[d] <= n
      BY <1>2, <2>3, <3>1
    <3> QED BY <2>3, <3>1, <3>2
  <2> QED BY <1>1, <2>1, <2>2, <2>5, <2>6
<1>4. f \in [Steps -> 1..N]
    BY <1>3 DEF f
<1>5. Numbering(f)
    BY <1>3 DEF Numbering
<1> QED BY <1>3, <1>4, <1>5

(* Steps that can be numbered are removed, at the latest in the round of their *)
(* number.                                                                     *)
LEMMA NumberedIsAccepted ==
    ASSUME TypeOK, kind # "plan",
           NEW f \in [Steps -> 1..Cardinality(Steps)], Numbering(f),
           \A s \in Steps : ~ Repeated(s)
    PROVE  Accepted
<1> DEFINE N == Cardinality(Steps)
           Timely == {n \in Nat : \A s \in Steps : f[s] <= n => s \in Removed[n]}
<1>1. N \in Nat
    BY GraphAssumption, FS_CardinalityType
<1>2. \A s \in Steps : f[s] \in Nat /\ 1 <= f[s] /\ f[s] <= N
    BY <1>1
<1>3. 0 \in Timely
    BY <1>2
<1>4. ASSUME NEW n \in Nat, n \in Timely PROVE n + 1 \in Timely
  <2>1. ASSUME NEW s \in Steps, f[s] <= n + 1 PROVE s \in Removed[n + 1]
    <3>1. ASSUME NEW d \in Dependencies(s) PROVE d \in Removed[n]
      <4>1. d \in Steps /\ f[d] < f[s]
        BY DEF Numbering
      <4>2. f[d] <= n
        BY <1>2, <2>1, <4>1
      <4> QED BY <1>4, <4>1, <4>2
    <3>2. ~ Waits(s, Removed[n])
      BY <3>1, WaitsForOthers
    <3> QED BY <3>2, RemovedRounds
  <2> QED BY <2>1
<1>5. \A n \in Nat : n \in Timely
  <2> HIDE DEF Timely
  <2> QED BY <1>3, <1>4, Induction
<1>6. Removed[N] = Steps
    BY <1>1, <1>2, <1>5, RemovedRounds
<1>7. \A s \in Steps : Dependencies(s) \subseteq Steps \ {s}
  <2>1. ASSUME NEW s \in Steps, NEW d \in Dependencies(s) PROVE d \in Steps /\ d # s
    <3>1. d \in Steps /\ f[d] < f[s]
      BY DEF Numbering
    <3> QED BY <1>2, <3>1
  <2> QED BY <2>1
<1> QED BY <1>6, <1>7 DEF Accepted

(* The plans of the planner can be numbered: the last step comes last.         *)
LEMMA PlannedIsNumbered ==
    ASSUME TypeOK, Planned(deps)
    PROVE  \E f \in [Steps -> 1..Cardinality(Steps)] : Numbering(f)
<1> DEFINE N == Cardinality(Steps)
<1>1. N \in Nat /\ N # 0
    BY GraphAssumption, FS_CardinalityType, FS_EmptySet
<1>2. \A s \in Steps \ {Last} : Dependencies(s) = {}
    BY DEF Planned, Dependencies
<1>3. CASE deps[Last] = <<>>
  <2> DEFINE f == [s \in Steps |-> 1]
  <2>1. f \in [Steps -> 1..N]
    BY <1>1
  <2>2. \A s \in Steps : Dependencies(s) = {}
    <3>1. Dependencies(Last) = {}
      BY <1>3 DEF Dependencies
    <3> QED BY <1>2, <3>1
  <2>3. Numbering(f)
    BY <2>2 DEF Numbering
  <2> QED BY <2>1, <2>3
<1>4. CASE deps[Last] # <<>>
  <2>1. Dependencies(Last) = Steps \ {Last} /\ Len(deps[Last]) = N - 1
    BY <1>4 DEF Planned, Dependencies
  <2>2. N - 1 # 0
    <3>1. deps[Last] \in Seq(Steps \cup {Unknown})
      BY GraphAssumption DEF TypeOK
    <3> QED BY <1>1, <1>4, <2>1, <3>1
  <2> DEFINE f == [s \in Steps |-> IF s = Last THEN N ELSE 1]
  <2>3. f \in [Steps -> 1..N]
    BY <1>1
  <2>4. ASSUME NEW s \in Steps, NEW d \in Dependencies(s) PROVE d \in Steps /\ f[d] < f[s]
    <3>1. s = Last /\ d \in Steps \ {Last}
      BY <1>2, <2>1, <2>4
    <3> QED BY <1>1, <2>2, <3>1
  <2>5. Numbering(f)
    <3> HIDE DEF f
    <3> QED BY <2>4 DEF Numbering
  <2> QED BY <2>3, <2>5
<1> QED BY <1>3, <1>4

(* Loading accepts just the graphs that can be numbered.                       *)
LEMMA AcceptsDags ==
    ASSUME TypeOK, kind = "plan" => Planned(deps)
    PROVE  ~ Accepted <=>
           \/ ~ \E f \in [Steps -> 1..Cardinality(Steps)] : Numbering(f)
           \/ kind = "pipeline" /\ \E s \in Steps : Repeats(s)
<1>1. CASE kind = "plan"
    BY <1>1, PlannedIsNumbered DEF Accepted
<1>2. CASE kind # "plan"
    BY <1>2, AcceptedIsNumbered, NumberedIsAccepted DEF Repeated
<1> QED BY <1>1, <1>2

(* A graph that runs has a numbering, and plans are as the planner makes them. *)
Verdicts == RejectsNoDag /\ (kind = "plan" => Planned(deps))

LEMMA VerdictsStep == TypeOK /\ Verdicts /\ [Next]_vars => Verdicts'
<1> SUFFICES ASSUME TypeOK, Verdicts, [Next]_vars PROVE Verdicts'
    OBVIOUS
<1> DEFINE Bad == \/ ~ \E f \in [Steps -> 1..Cardinality(Steps)] : Numbering(f)
                  \/ kind = "pipeline" /\ \E s \in Steps : Repeats(s)
<1>1. kind' = kind /\ deps' = deps
  <2>1. \A s \in Steps : Fail(s) => kind' = kind /\ deps' = deps
    BY DEF Fail, Settle
  <2> QED BY <2>1 DEF Next, Returns, Load, Gathered, Cancel, Succeed, Settle, vars
<1>2. Bad' <=> Bad
    BY <1>1 DEF Numbering, Repeats, Dependencies
<1>3. Planned(deps)' <=> Planned(deps)
    BY <1>1 DEF Planned
<1>4. CASE Load
  <2>1. result' \in {"running", "rejected"} /\ (result' = "rejected" <=> ~ Accepted)
    BY <1>4 DEF Load
  <2>2. ~ Accepted <=> Bad
    BY AcceptsDags DEF Verdicts
  <2>3. RejectsNoDag'
    <3> HIDE DEF Bad
    <3>1. (result' = "rejected") <=> Bad'
      BY <1>2, <2>1, <2>2
    <3> QED BY <3>1 DEF RejectsNoDag, Bad
  <2> QED BY <1>1, <1>3, <2>3 DEF Verdicts
<1>5. CASE ~ Load
  <2>1. result' # "none" => result # "none" /\ (result' = "rejected" <=> result = "rejected")
    <3>1. ASSUME Gathered PROVE result = "running" /\ result' # "rejected"
      BY <3>1 DEF Gathered, Verdict, Verdict_Plan
    <3>2. ASSUME Cancel PROVE result = "running" /\ result' # "rejected"
      BY <3>2 DEF Cancel
    <3>3. ASSUME NEW s \in Steps, Returns(s) PROVE result' = result
      BY <3>3 DEF Returns, Succeed, Fail, Settle
    <3> QED BY <1>5, <3>1, <3>2, <3>3 DEF Next, vars
  <2>2. RejectsNoDag'
    <3>1. result # "none" => (result = "rejected" <=> Bad)
      BY DEF Verdicts, RejectsNoDag
    <3> HIDE DEF Bad
    <3>2. result' # "none" => (result' = "rejected" <=> Bad')
      BY <1>2, <2>1, <3>1
    <3> QED BY <3>2 DEF RejectsNoDag, Bad
  <2> QED BY <1>1, <1>3, <2>2 DEF Verdicts
<1> QED BY <1>4, <1>5

(* A graph is rejected just when its steps cannot be numbered in the order of  *)
(* their dependencies, or when a pipeline lists one twice: what Kahn's         *)
(* algorithm, as _topological_sort and _validate_plan have it, computes for    *)
(* every graph of any size.                                                    *)
THEOREM RejectsJustCycles == Spec => []RejectsNoDag
<1>1. Init => Verdicts
    BY DEF Init, Verdicts, RejectsNoDag
<1>2. Verdicts => RejectsNoDag
    BY DEF Verdicts
<1> QED BY <1>1, <1>2, VerdictsStep, TypeCorrect, PTL DEF Spec

(***************************************************************************)
(* The waves.                                                              *)
(***************************************************************************)

(* Of steps that are numbered, the first of those that are left is ready.      *)
LEMMA SomeoneIsReady ==
    ASSUME NEW f \in [Steps -> 1..Cardinality(Steps)], Numbering(f),
           NEW finished, Steps \ finished # {}
    PROVE  Ready(finished) # {}
<1> DEFINE T == {f[s] : s \in Steps \ finished}
<1>1. Cardinality(Steps) \in Nat
    BY GraphAssumption, FS_CardinalityType
<1>2. T \subseteq Nat /\ T # {}
    BY <1>1
<1>3. PICK x \in T : \A y \in T : x <= y
    BY <1>2, LeastNumber
<1>4. PICK s \in Steps \ finished : x = f[s]
    BY <1>3
<1>5. Dependencies(s) \subseteq finished
  <2>1. ASSUME NEW d \in Dependencies(s), d \notin finished PROVE FALSE
    <3>1. d \in Steps /\ f[d] < f[s]
      BY DEF Numbering
    <3>2. f[d] \in T
      BY <2>1, <3>1
    <3>3. f[s] <= f[d]
      BY <1>3, <1>4, <3>2
    <3> QED BY <1>1, <3>1, <3>3
  <2> QED BY <2>1
<1> QED BY <1>5 DEF Ready

(* The safety side of RunsEnd: a run that goes on is executing a wave.         *)
WavesNeverEmpty == result = "running" => wave # {}

LEMMA NumberedWhileRunning ==
    ASSUME Verdicts, result = "running"
    PROVE  \E f \in [Steps -> 1..Cardinality(Steps)] : Numbering(f)
BY DEF Verdicts, RejectsNoDag

LEMMA WavesStep ==
    TypeOK /\ Verdicts /\ Verdicts' /\ WavesNeverEmpty /\ [Next]_vars => WavesNeverEmpty'
<1> SUFFICES ASSUME TypeOK, Verdicts, Verdicts', WavesNeverEmpty, [Next]_vars, result' = "running"
             PROVE  wave' # {}
    BY DEF WavesNeverEmpty
<1>1. CASE Load
  <2>1. Accepted /\ wave' = Ready({})
    BY <1>1 DEF Load, Launch
  <2>2. kind' = kind /\ deps' = deps
    BY <1>1 DEF Load
  <2>3. \E f \in [Steps -> 1..Cardinality(Steps)] : Numbering(f)
    <3>1. kind = "plan" => Planned(deps)
      BY DEF Verdicts
    <3> QED BY <2>1, <3>1, AcceptsDags
  <2>4. Steps \ {} # {}
    BY GraphAssumption
  <2> QED BY <2>1, <2>3, <2>4, SomeoneIsReady
<1>2. CASE Gathered
  <2>1. result = "running"
    BY <1>2 DEF Gathered
  <2>2. done' # Steps /\ wave' = Ready(done')
    <3>1. Verdict # "running"
      BY DEF Verdict, Verdict_Plan
    <3> QED BY <1>2, <3>1 DEF Gathered, Launch
  <2>3. done' \subseteq Steps
    BY <1>2 DEF Gathered, TypeOK
  <2>4. Steps \ done' # {}
    BY <2>2, <2>3
  <2> QED BY <2>1, <2>2, <2>4, NumberedWhileRunning, SomeoneIsReady
<1>3. CASE Cancel
    BY <1>3 DEF Cancel
<1>4. ASSUME NEW s \in Steps, Returns(s) PROVE result' = result /\ wave' = wave
    BY <1>4 DEF Returns, Succeed, Fail, Settle
<1>5. CASE UNCHANGED vars
    BY <1>5 DEF vars, WavesNeverEmpty
<1> QED BY <1>1, <1>2, <1>3, <1>4, <1>5 DEF Next, WavesNeverEmpty

(* A run that has begun and not ended always has a wave to wait for, whatever  *)
(* graph was accepted: the "No ready steps" of the workflows and the           *)
(* "dependency deadlock" of the pipeline are never reached.                    *)
THEOREM NoRunIsStuck == Spec => []WavesNeverEmpty
<1>1. Init => Verdicts /\ WavesNeverEmpty
    BY DEF Init, Verdicts, RejectsNoDag, WavesNeverEmpty
<1> QED BY <1>1, VerdictsStep, WavesStep, TypeCorrect, PTL DEF Spec

(***************************************************************************)
(* The refinement.                                                         *)
(***************************************************************************)
Phases == [s \in Steps |-> Stage(s)]

(* Steps that leave every phase alone.                                       *)
Quiet == UNCHANGED deps /\ \A s \in Steps : Stage(s)' = Stage(s)

LEMMA QuietStutters == ASSUME Quiet PROVE UNCHANGED <<deps, Phases>>
BY DEF Quiet, Phases

LEMMA LaunchStarts ==
    ASSUME Inv, NEW D, D \subseteq Steps, Launch(Ready(D)), UNCHANGED deps,
           \A s \in D : status[s] \in {"success", "failed"},
           \A s \in Steps \ D : status[s] = "pending"
    PROVE  Order!Next
<1> DEFINE S == Ready(D)
<1>1. /\ S \subseteq Steps \ D
      /\ \A s \in S : Dependencies(s) \subseteq D
    BY ReadySteps
<1>2. status' = [s \in Steps |-> IF s \in S THEN "running" ELSE status[s]]
    BY DEF Launch
<1> HIDE DEF S
<1>3. \A s \in S : Order!Over(s)
    BY <1>1 DEF Order!Over, Dependencies, Stage
<1>4. \A s \in Steps : Stage(s)' = IF s \in S THEN "open" ELSE Stage(s)
    BY <1>1, <1>2 DEF Stage
<1>5. \A s \in S : Phases[s] = "waiting"
    BY <1>1 DEF Stage, Phases
<1>6. Order!Move(S, "waiting", "open")
    BY <1>1, <1>4, <1>5 DEF Order!Move, Phases
<1>7. S \in SUBSET Steps
    BY <1>1
<1> QED BY <1>3, <1>6, <1>7 DEF Order!Next, Order!Start

LEMMA SettleEnds ==
    ASSUME Inv, NEW S \in SUBSET Steps, UNCHANGED deps,
           \A s \in S : status[s] = "running" /\ status'[s] \in {"success", "failed", "cancelled"},
           \A s \in Steps \ S : status'[s] = status[s]
    PROVE  Order!Next
<1>1. \A s \in Steps : Stage(s)' = IF s \in S THEN "over" ELSE Stage(s)
    BY DEF Stage
<1>2. \A s \in S : Phases[s] = "open"
    BY DEF Stage, Phases
<1>3. Order!Move(S, "open", "over")
    BY <1>1, <1>2 DEF Order!Move, Phases
<1> QED BY <1>3 DEF Order!Next, Order!End

LEMMA StepRefines == Inv /\ [Next]_vars => [Order!Next]_<<deps, Phases>>
<1> SUFFICES ASSUME Inv, [Next]_vars PROVE Order!Next \/ UNCHANGED <<deps, Phases>>
    OBVIOUS
<1>1. CASE Load
  <2>1. /\ deps' = deps /\ \A s \in Steps : status[s] = "pending"
    BY <1>1 DEF Load, Inv, Idle, TypeOK
  <2>2. CASE Launch(Ready({}))
    BY <2>1, <2>2, LaunchStarts
  <2>3. CASE UNCHANGED status
    BY <2>1, <2>3, QuietStutters DEF Quiet, Stage
  <2> QED BY <1>1, <2>2, <2>3 DEF Load
<1>2. CASE Gathered
  <2>1. CASE UNCHANGED status
    BY <1>2, <2>1, QuietStutters DEF Gathered, Quiet, Stage
  <2>2. CASE Launch(Ready(done'))
    BY <1>2, <2>2, WaveIsOver, LaunchStarts
  <2> QED BY <1>2, <2>1, <2>2 DEF Gathered
<1>3. CASE Cancel
  <2> DEFINE S == {s \in Steps : status[s] = "running"}
  <2>1. /\ \A s \in S : status'[s] = "cancelled"
        /\ \A s \in Steps \ S : status'[s] = status[s]
        /\ deps' = deps
    BY <1>3 DEF Cancel
  <2> QED BY <2>1, SettleEnds
<1>4. ASSUME NEW s \in Steps, Returns(s) PROVE Order!Next \/ UNCHANGED <<deps, Phases>>
  <2>1. deps' = deps /\ status[s] = "running"
    BY <1>4 DEF Returns, Succeed, Fail, Settle
  <2>2. CASE UNCHANGED status
    BY <2>1, <2>2, QuietStutters DEF Quiet, Stage
  <2>3. ASSUME NEW outcome \in {"success", "failed"}, Settle(s, outcome)
        PROVE  Order!Next
    <3>1. /\ status'[s] = outcome
          /\ \A t \in Steps \ {s} : status'[t] = status[t]
      BY <2>3 DEF Settle, Inv, TypeOK
    <3>2. {s} \in SUBSET Steps
      OBVIOUS
    <3> QED BY <2>1, <3>1, <3>2, SettleEnds
  <2> QED BY <1>4, <2>2, <2>3 DEF Returns, Succeed, Fail
<1>5. CASE UNCHANGED vars
    BY <1>5, QuietStutters DEF vars, Quiet, Stage
<1> QED BY <1>1, <1>2, <1>3, <1>4, <1>5 DEF Next

(* All three schedulers keep the order of StepOrder: a step starts once, and   *)
(* only after everything it lists is a step that has ended.                    *)
THEOREM KeepsOrder == Spec => ImplementsOrder
<1>1. Init => Order!Init
    BY DEF Init, Order!Init, Stage
<1>2. Inv /\ [Next]_vars => [Order!Next]_<<deps, [s \in Steps |-> Stage(s)]>>
    BY StepRefines DEF Phases
<1> QED BY <1>1, <1>2, Invariance, PTL DEF Spec, ImplementsOrder, Order!Spec
=============================================================================
