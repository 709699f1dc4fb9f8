----------------------------- MODULE BreakerOps -----------------------------
(***************************************************************************)
(* One circuit breaker of moa_gateway/ha/circuit_breaker.py as a record,   *)
(* and what each locked section of the class does to that record.  The     *)
(* modules that hold breakers (CircuitBreaker: threads sharing one;        *)
(* ModelPool: one per endpoint) are built from these operators.            *)
(*                                                                         *)
(* Time is reduced to what the code asks of it: whether recovery_timeout   *)
(* has passed since the last recorded failure.  The failure counter is     *)
(* only ever compared with failure_threshold by >=, so it saturates there. *)
(***************************************************************************)
EXTENDS Naturals

CONSTANTS FailureThreshold,   (* CircuitBreakerConfig.failure_threshold   *)
          HalfOpenMaxCalls,   (* CircuitBreakerConfig.half_open_max_calls *)
          SuccessThreshold    (* CircuitBreakerConfig.success_threshold   *)

ASSUME ThresholdsArePositive ==
    /\ FailureThreshold \in Nat \ {0}
    /\ HalfOpenMaxCalls \in Nat \ {0}
    /\ SuccessThreshold \in Nat \ {0}

CircuitState == {"closed", "open", "half_open"}

(* _last_failure_time: None, less than recovery_timeout ago, or further    *)
(* back than that.                                                         *)
FailureAge == {"none", "recent", "expired"}

Breaker == [state         : CircuitState,
            failures      : 0 .. FailureThreshold,
            successes     : 0 .. SuccessThreshold,
            halfOpenCalls : 0 .. HalfOpenMaxCalls,
            lastFailure   : FailureAge]

NewBreaker == [state         |-> "closed",
               failures      |-> 0,
               successes     |-> 0,
               halfOpenCalls |-> 0,
               lastFailure   |-> "none"]

-----------------------------------------------------------------------------
(* A name with an underscore, Op_Bug, is Op with a plausible bug.  No      *)
(* specification uses it: in the place of Op, which follows it, it shows   *)
(* that the properties tell the difference.                                *)

ClearProbes_KeepsSlots(b) == [b EXCEPT !.successes = 0]

(* Both the lazy OPEN -> HALF_OPEN transition and a failure that trips the *)
(* breaker clear the probe counters.                                       *)
ClearProbes(b) == [b EXCEPT !.halfOpenCalls = 0, !.successes = 0]

RecoveryDue(b) == b.state = "open" /\ b.lastFailure = "expired"

(* The `state` property: reading it is what moves OPEN to HALF_OPEN.       *)
ReadState(b) ==
    IF RecoveryDue(b) THEN [ClearProbes(b) EXCEPT !.state = "half_open"]
                      ELSE b

(* The second locked section of allow_request.                             *)
HasSlot(b)  == b.halfOpenCalls < HalfOpenMaxCalls
TakeSlot(b) == [b EXCEPT !.halfOpenCalls = @ + 1]

(* allow_request when no other thread runs between its two sections.       *)
Allows(b) ==
    LET r == ReadState(b)
    IN  r.state = "closed" \/ (r.state = "half_open" /\ HasSlot(r))
AfterAllow(b) ==
    LET r == ReadState(b)
    IN  IF r.state = "half_open" /\ HasSlot(r) THEN TakeSlot(r) ELSE r

RecordSuccess_KeepsFailures(b) ==
    IF b.state # "half_open" THEN b
    ELSE IF b.successes + 1 < SuccessThreshold
         THEN [b EXCEPT !.successes = @ + 1]
         ELSE [b EXCEPT !.successes = @ + 1, !.state = "closed", !.failures = 0]

RecordSuccess_FromOpen(b) ==
    IF b.state = "closed" THEN [b EXCEPT !.failures = 0]
    ELSE IF b.successes + 1 < SuccessThreshold
         THEN [b EXCEPT !.successes = @ + 1]
         ELSE [b EXCEPT !.successes = @ + 1, !.state = "closed", !.failures = 0]

RecordSuccess(b) ==
    IF b.state # "half_open" THEN [b EXCEPT !.failures = 0]
    ELSE IF b.successes + 1 < SuccessThreshold
         THEN [b EXCEPT !.successes = @ + 1]
         ELSE [b EXCEPT !.successes = @ + 1, !.state = "closed", !.failures = 0]

CountFailure(b) ==
    [b EXCEPT !.failures    = IF @ < FailureThreshold THEN @ + 1 ELSE @,
              !.lastFailure = "recent"]

RecordFailure(b) ==
    LET f == CountFailure(b)
    IN  IF b.state = "half_open" \/ f.failures >= FailureThreshold
        THEN [ClearProbes(f) EXCEPT !.state = "open"]
        ELSE f

(* recovery_timeout passes with no further failure.                        *)
Elapse(b) == [b EXCEPT !.lastFailure = "expired"]

-----------------------------------------------------------------------------
(* What every breaker satisfies between two locked sections: the counters  *)
(* that decide the next transition are below their threshold, and an open  *)
(* breaker remembers the failure its recovery is timed from.               *)
WellFormed(b) ==
    /\ b \in Breaker
    /\ b.state = "closed"    => b.failures < FailureThreshold
    /\ b.state = "half_open" => b.successes < SuccessThreshold
    /\ b.state # "closed"    => b.lastFailure # "none"
=============================================================================
