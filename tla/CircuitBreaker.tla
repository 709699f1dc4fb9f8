--------------------------- MODULE CircuitBreaker ---------------------------
(***************************************************************************)
(* moa_gateway/ha/circuit_breaker.py under threads: any number of callers  *)
(* share one breaker.  allow_request takes the lock twice - once to read   *)
(* the state, once to take a probe slot - and other threads run between;   *)
(* record_success, record_failure and reset are one locked section each.   *)
(***************************************************************************)
EXTENDS BreakerOps

CONSTANT Callers        (* threads that use the breaker                     *)

ASSUME CallersAssumption == Callers # {}

VARIABLES circuit,
          pc,        (* pc[c]: where caller c is in its request             *)
          streak,    (* history: failures since the last success, saturated *)
          probes,    (* history: slots taken in the current probe window    *)
          leaked     (* history: requests abandoned in it, saturated        *)

threadVars == <<circuit, pc, streak, probes, leaked>>

(* idle; between the two sections of allow_request; or let through.        *)
Stage == {"idle", "asking", "admitted"}

ThreadsTypeOK ==
    /\ circuit \in Breaker
    /\ pc \in [Callers -> Stage]
    /\ streak \in 0 .. FailureThreshold
    /\ probes \in Nat
    /\ leaked \in 0 .. HalfOpenMaxCalls

ThreadsInit ==
    /\ circuit = NewBreaker
    /\ pc = [c \in Callers |-> "idle"]
    /\ streak = 0
    /\ probes = 0
    /\ leaked = 0

MoveTo(c, stage) == pc' = [pc EXCEPT ![c] = stage]

(* Reading the state may open a new probe window.                          *)
Read ==
    /\ circuit' = ReadState(circuit)
    /\ probes' = IF RecoveryDue(circuit) THEN 0 ELSE probes
    /\ leaked' = IF RecoveryDue(circuit) THEN 0 ELSE leaked

-----------------------------------------------------------------------------
(* First section of allow_request.                                         *)
Ask(c) ==
    /\ pc[c] = "idle"
    /\ Read
    /\ MoveTo(c, CASE circuit'.state = "closed"    -> "admitted"
                   [] circuit'.state = "open"      -> "idle"
                   [] circuit'.state = "half_open" -> "asking")
    /\ UNCHANGED streak

GetSlot_Uncounted(c) ==
    /\ pc[c] = "asking"
    /\ HasSlot(circuit)
    /\ probes' = IF circuit.state = "half_open" THEN probes + 1 ELSE probes
    /\ MoveTo(c, "admitted")
    /\ UNCHANGED <<circuit, streak, leaked>>

(* Second section: the state is not looked at again.                       *)
GetSlot(c) ==
    /\ pc[c] = "asking"
    /\ HasSlot(circuit)
    /\ circuit' = TakeSlot(circuit)
    /\ probes' = IF circuit.state = "half_open" THEN probes + 1 ELSE probes
    /\ MoveTo(c, "admitted")
    /\ UNCHANGED <<streak, leaked>>

MissSlot(c) ==
    /\ pc[c] = "asking"
    /\ ~ HasSlot(circuit)
    /\ MoveTo(c, "idle")
    /\ UNCHANGED <<circuit, streak, probes, leaked>>

ReportSuccess(c) ==
    /\ pc[c] = "admitted"
    /\ circuit' = RecordSuccess(circuit)
    /\ streak' = 0
    /\ MoveTo(c, "idle")
    /\ UNCHANGED <<probes, leaked>>

ReportFailure(c) ==
    /\ pc[c] = "admitted"
    /\ circuit' = RecordFailure(circuit)
    /\ streak' = IF streak < FailureThreshold THEN streak + 1 ELSE streak
    /\ MoveTo(c, "idle")
    /\ UNCHANGED <<probes, leaked>>

(* The caller was let through but records nothing: in the model pool, a    *)
(* cancelled request, or an endpoint skipped because it is not available.  *)
Abandon(c) ==
    /\ pc[c] = "admitted"
    /\ leaked' = IF leaked < HalfOpenMaxCalls THEN leaked + 1 ELSE leaked
    /\ MoveTo(c, "idle")
    /\ UNCHANGED <<circuit, streak, probes>>

(* get_status, or any other read of the state property.                    *)
Poll ==
    /\ RecoveryDue(circuit)
    /\ Read
    /\ UNCHANGED <<pc, streak>>

Reset ==
    /\ circuit' = NewBreaker
    /\ UNCHANGED <<pc, streak, probes, leaked>>

RecoveryTimeout ==
    /\ circuit.lastFailure = "recent"
    /\ circuit' = Elapse(circuit)
    /\ UNCHANGED <<pc, streak, probes, leaked>>

Report(c) == ReportSuccess(c) \/ ReportFailure(c) \/ Abandon(c)

ThreadsNext ==
    \/ \E c \in Callers : Ask(c) \/ GetSlot(c) \/ MissSlot(c) \/ Report(c)
    \/ Poll
    \/ Reset
    \/ RecoveryTimeout

ThreadsSpec == ThreadsInit /\ [][ThreadsNext]_threadVars

(* Every thread keeps running its requests, every admitted request ends,   *)
(* and the clock advances.  Nobody is obliged to poll or reset.            *)
ThreadsFairness ==
    /\ \A c \in Callers :
          /\ WF_threadVars(Ask(c))
          /\ WF_threadVars(GetSlot(c) \/ MissSlot(c))
          /\ WF_threadVars(Report(c))
    /\ WF_threadVars(RecoveryTimeout)

ThreadsFairSpec == ThreadsSpec /\ ThreadsFairness

-----------------------------------------------------------------------------
(* The counters that decide the next transition never sit at or above      *)
(* their threshold while the breaker stays in the state they should end,   *)
(* and an open breaker always has a failure time to recover from: without  *)
(* it the state property would never leave OPEN.                           *)
BreakerWellFormed == WellFormed(circuit)

(* However the two sections of allow_request interleave with trips and     *)
(* recoveries, one probe window never lets more than half_open_max_calls   *)
(* requests through.                                                       *)
ProbeBudget == circuit.state = "half_open" => probes <= HalfOpenMaxCalls

(* The breaker only trips from CLOSED when failure_threshold failures were *)
(* recorded, by any threads, with no success recorded between them; in     *)
(* particular failures from before a recovery never count again.           *)
TripIsEarned ==
    [][circuit.state = "closed" /\ circuit'.state = "open"
          => streak' >= FailureThreshold]_threadVars

(* OPEN is left for CLOSED only by a manual reset: a success that arrives  *)
(* late, from a request let through before the trip, does not close it.    *)
NoSilentClose ==
    [][circuit.state = "open" /\ circuit'.state = "closed"
          => circuit' = NewBreaker]_threadVars

(* A probe window always ends, the breaker closes or trips again, as long  *)
(* as enough of its slots are left to requests that record their result.   *)
WindowResolves ==
    circuit.state = "half_open"
        ~> (circuit.state # "half_open" \/ leaked > HalfOpenMaxCalls - SuccessThreshold)
=============================================================================
