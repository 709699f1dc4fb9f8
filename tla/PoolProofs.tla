------------------------------ MODULE PoolProofs ------------------------------
(***************************************************************************)
(* Proofs about CircuitBreaker and ModelPool, for every set of threads,    *)
(* every pool, every set of requests and all positive thresholds: what     *)
(* each locked section does to a well-formed breaker; what any number of   *)
(* threads do to the one they share; and for the pool, when no endpoint    *)
(* keeps a mock provider, that its state keeps its types, that one request *)
(* at a time falls back, when no key is lost, and that no call passes over *)
(* an endpoint that could take it.                                         *)
(***************************************************************************)
EXTENDS ModelPool, CircuitBreaker, SequenceTheorems, FiniteSetTheorems, TLAPS

-----------------------------------------------------------------------------
(* The locked sections keep a breaker well formed.                         *)

(* A new or manually reset breaker is well formed.                         *)
LEMMA NewBreakerWellFormed == WellFormed(NewBreaker)
  BY ThresholdsArePositive DEF WellFormed, NewBreaker, Breaker, CircuitState, FailureAge

(* Clearing the probe counters touches nothing else.                       *)
LEMMA ClearProbesFields ==
  ASSUME NEW b \in Breaker
  PROVE  /\ ClearProbes(b) \in Breaker
         /\ ClearProbes(b).state = b.state
         /\ ClearProbes(b).failures = b.failures
         /\ ClearProbes(b).lastFailure = b.lastFailure
         /\ ClearProbes(b).successes = 0
         /\ ClearProbes(b).halfOpenCalls = 0
<1> DEFINE c == [b EXCEPT !.halfOpenCalls = 0]
<1>1. ClearProbes(b) = [c EXCEPT !.successes = 0]
  BY DEF ClearProbes
<1>2. /\ c \in Breaker /\ c.halfOpenCalls = 0
      /\ c.state = b.state /\ c.failures = b.failures
      /\ c.lastFailure = b.lastFailure
  BY ThresholdsArePositive DEF Breaker
<1> HIDE DEF c
<1>3. [c EXCEPT !.successes = 0] \in Breaker
  BY <1>2, ThresholdsArePositive DEF Breaker
<1> QED BY <1>1, <1>2, <1>3 DEF Breaker

(* Reading the state property keeps the breaker well formed, also when the *)
(* read opens a probe window.                                              *)
LEMMA ReadStateWellFormed ==
  ASSUME NEW b, WellFormed(b)
  PROVE  WellFormed(ReadState(b))
<1> DEFINE d == ClearProbes(b)
<1>1. CASE RecoveryDue(b)
  <2>1. ReadState(b) = [d EXCEPT !.state = "half_open"]
    BY <1>1 DEF ReadState
  <2>2. d \in Breaker /\ d.successes = 0 /\ d.lastFailure = "expired"
    BY <1>1, ClearProbesFields DEF WellFormed, RecoveryDue
  <2> HIDE DEF d
  <2> QED BY <2>1, <2>2, ThresholdsArePositive DEF WellFormed, Breaker, CircuitState
<1>2. CASE ~ RecoveryDue(b)
  BY <1>2 DEF ReadState
<1> QED BY <1>1, <1>2

(* Taking a free slot keeps the breaker well formed, in whatever state it  *)
(* is by then.                                                             *)
LEMMA TakeSlotWellFormed ==
  ASSUME NEW b, WellFormed(b), HasSlot(b)
  PROVE  WellFormed(TakeSlot(b))
  BY ThresholdsArePositive DEF WellFormed, TakeSlot, HasSlot, Breaker

(* A success keeps the breaker well formed: the success that reaches the   *)
(* threshold closes it, with no failures on its count.                     *)
LEMMA RecordSuccessWellFormed ==
  ASSUME NEW b, WellFormed(b)
  PROVE  WellFormed(RecordSuccess(b))
<1>1. CASE b.state # "half_open"
  BY <1>1, ThresholdsArePositive DEF WellFormed, RecordSuccess, Breaker
<1>2. CASE b.state = "half_open" /\ b.successes + 1 < SuccessThreshold
  BY <1>2, ThresholdsArePositive DEF WellFormed, RecordSuccess, Breaker
<1>3. CASE b.state = "half_open" /\ ~ (b.successes + 1 < SuccessThreshold)
  <2> DEFINE d == [b EXCEPT !.successes = @ + 1]
             e == [d EXCEPT !.state = "closed"]
  <2>1. d \in Breaker
    BY <1>3, ThresholdsArePositive DEF WellFormed, Breaker
  <2>2. RecordSuccess(b) = [e EXCEPT !.failures = 0]
    BY <1>3 DEF RecordSuccess, WellFormed, Breaker
  <2> HIDE DEF d
  <2>3. e \in Breaker /\ e.state = "closed"
    BY <2>1 DEF Breaker, CircuitState
  <2> HIDE DEF e
  <2> QED BY <2>2, <2>3, ThresholdsArePositive DEF WellFormed, Breaker
<1> QED BY <1>1, <1>2, <1>3

(* Counting a failure moves the count up to its threshold and no further.  *)
LEMMA CountFailureFields ==
  ASSUME NEW b \in Breaker
  PROVE  /\ CountFailure(b) \in Breaker
         /\ CountFailure(b).state = b.state
         /\ CountFailure(b).successes = b.successes
         /\ CountFailure(b).halfOpenCalls = b.halfOpenCalls
         /\ CountFailure(b).lastFailure = "recent"
         /\ CountFailure(b).failures =
               IF b.failures < FailureThreshold THEN b.failures + 1 ELSE b.failures
<1> DEFINE n == IF b.failures < FailureThreshold THEN b.failures + 1 ELSE b.failures
           c == [b EXCEPT !.failures = n]
<1>1. n \in 0 .. FailureThreshold
  BY ThresholdsArePositive DEF Breaker
<1>2. CountFailure(b) = [c EXCEPT !.lastFailure = "recent"]
  BY DEF CountFailure
<1>3. /\ c \in Breaker
      /\ c.state = b.state /\ c.successes = b.successes
      /\ c.halfOpenCalls = b.halfOpenCalls /\ c.failures = n
  <2> HIDE DEF n
  <2> QED BY <1>1 DEF Breaker
<1> HIDE DEF n, c
<1>4. [c EXCEPT !.lastFailure = "recent"] \in Breaker
  BY <1>3 DEF Breaker, FailureAge
<1> QED BY <1>2, <1>3, <1>4 DEF n, Breaker

(* What a recorded failure leaves behind: an open breaker with fresh probe *)
(* counters, or a closed or open one below the threshold.                  *)
LEMMA RecordFailureCases ==
  ASSUME NEW b, WellFormed(b)
  PROVE  LET f == CountFailure(b) IN
         \/ /\ b.state = "half_open" \/ f.failures >= FailureThreshold
            /\ RecordFailure(b) \in Breaker
            /\ RecordFailure(b).state = "open"
            /\ RecordFailure(b).lastFailure = "recent"
         \/ /\ b.state # "half_open" /\ f.failures < FailureThreshold
            /\ RecordFailure(b) = f
<1> DEFINE f == CountFailure(b)
           d == ClearProbes(f)
<1>1. f \in Breaker /\ f.state = b.state /\ f.lastFailure = "recent"
  BY CountFailureFields DEF WellFormed
<1>2. d \in Breaker /\ d.lastFailure = "recent"
  BY <1>1, ClearProbesFields
<1>3. CASE b.state = "half_open" \/ f.failures >= FailureThreshold
  <2>1. RecordFailure(b) = [d EXCEPT !.state = "open"]
    BY <1>3 DEF RecordFailure
  <2>2. [d EXCEPT !.state = "open"] \in Breaker
        /\ [d EXCEPT !.state = "open"].state = "open"
        /\ [d EXCEPT !.state = "open"].lastFailure = "recent"
    <3> HIDE DEF d
    <3> QED BY <1>2 DEF Breaker, CircuitState
  <2> QED BY <1>3, <2>1, <2>2
<1>4. CASE ~ (b.state = "half_open" \/ f.failures >= FailureThreshold)
  <2>1. RecordFailure(b) = f
    BY <1>4 DEF RecordFailure
  <2>2. f.failures < FailureThreshold
    <3> HIDE DEF f
    <3> QED BY <1>1, <1>4, ThresholdsArePositive DEF Breaker
  <2> QED BY <1>4, <2>1, <2>2
<1> QED BY <1>3, <1>4

(* A failure keeps the breaker well formed: a closed breaker that reaches  *)
(* the threshold is open afterwards.                                       *)
LEMMA RecordFailureWellFormed ==
  ASSUME NEW b, WellFormed(b)
  PROVE  WellFormed(RecordFailure(b))
  BY RecordFailureCases, CountFailureFields DEF WellFormed

(* The recovery timeout keeps the breaker well formed.                     *)
LEMMA ElapseWellFormed ==
  ASSUME NEW b, WellFormed(b)
  PROVE  WellFormed(Elapse(b))
  BY DEF WellFormed, Elapse, Breaker, FailureAge

-----------------------------------------------------------------------------
(* The fields that matter to the history variables.                        *)

(* A recovery opens a window with no slot taken; any other read is a       *)
(* no-op.                                                                  *)
LEMMA ReadStateFields ==
  ASSUME NEW b, WellFormed(b)
  PROVE  /\ RecoveryDue(b) => /\ ReadState(b).state = "half_open"
                             /\ ReadState(b).halfOpenCalls = 0
         /\ ~ RecoveryDue(b) => ReadState(b) = b
<1> DEFINE d == ClearProbes(b)
<1>1. d \in Breaker /\ d.halfOpenCalls = 0
  BY ClearProbesFields DEF WellFormed
<1>2. [d EXCEPT !.state = "half_open"].state = "half_open"
      /\ [d EXCEPT !.state = "half_open"].halfOpenCalls = 0
  <2> HIDE DEF d
  <2> QED BY <1>1 DEF Breaker
<1> QED BY <1>2 DEF ReadState

(* A slot is counted, and nothing else changes.                            *)
LEMMA TakeSlotFields ==
  ASSUME NEW b \in Breaker
  PROVE  /\ TakeSlot(b).state = b.state
         /\ TakeSlot(b).failures = b.failures
         /\ TakeSlot(b).halfOpenCalls = b.halfOpenCalls + 1
  BY DEF TakeSlot, Breaker

(* A success takes no slot, never opens the breaker and closes it only     *)
(* from half-open; a breaker it leaves closed counts no failures.          *)
LEMMA RecordSuccessFields ==
  ASSUME NEW b \in Breaker
  PROVE  /\ RecordSuccess(b).halfOpenCalls = b.halfOpenCalls
         /\ b.state # "half_open" => RecordSuccess(b).state = b.state
         /\ b.state = "half_open" =>
               RecordSuccess(b).state \in {"half_open", "closed"}
         /\ RecordSuccess(b).state = "closed" => RecordSuccess(b).failures = 0
<1>1. CASE b.state # "half_open"
  BY <1>1 DEF RecordSuccess, Breaker
<1>2. CASE b.state = "half_open" /\ b.successes + 1 < SuccessThreshold
  BY <1>2 DEF RecordSuccess, Breaker
<1>3. CASE b.state = "half_open" /\ ~ (b.successes + 1 < SuccessThreshold)
  <2> DEFINE d == [b EXCEPT !.successes = @ + 1]
             e == [d EXCEPT !.state = "closed"]
             g == [e EXCEPT !.failures = 0]
  <2>1. RecordSuccess(b) = g
    BY <1>3 DEF RecordSuccess
  <2>2. DOMAIN d = DOMAIN b /\ d.halfOpenCalls = b.halfOpenCalls
    BY DEF Breaker
  <2> HIDE DEF d
  <2>3. DOMAIN e = DOMAIN b /\ e.halfOpenCalls = b.halfOpenCalls /\ e.state = "closed"
    BY <2>2 DEF Breaker
  <2> HIDE DEF e
  <2>4. g.halfOpenCalls = b.halfOpenCalls /\ g.state = "closed" /\ g.failures = 0
    BY <2>3 DEF Breaker
  <2> QED BY <1>3, <2>1, <2>4
<1> QED BY <1>1, <1>2, <1>3

(* The passing of time moves no counter and no state.                      *)
LEMMA ElapseFields ==
  ASSUME NEW b \in Breaker
  PROVE  /\ Elapse(b).state = b.state
         /\ Elapse(b).failures = b.failures
         /\ Elapse(b).halfOpenCalls = b.halfOpenCalls
  BY DEF Elapse, Breaker

-----------------------------------------------------------------------------
(* The inductive invariant.  ProbeBudget needs that the breaker's own slot *)
(* counter dominates the slots taken in the window; TripIsEarned that the  *)
(* failures a closed breaker counts are all part of the current streak.    *)
SlotsCounted     == circuit.state = "half_open" => probes <= circuit.halfOpenCalls
FailuresInStreak == circuit.state = "closed" => circuit.failures <= streak

BreakerInv == ThreadsTypeOK /\ WellFormed(circuit) /\ SlotsCounted /\ FailuresInStreak

(* A new breaker, with nothing on its history, satisfies the invariant.    *)
LEMMA InitBreakerInv == ThreadsInit => BreakerInv
<1> SUFFICES ASSUME ThreadsInit PROVE BreakerInv
  OBVIOUS
<1>1. WellFormed(circuit)
  BY NewBreakerWellFormed DEF ThreadsInit
<1>2. ThreadsTypeOK
  BY <1>1, ThresholdsArePositive DEF ThreadsInit, ThreadsTypeOK, WellFormed, Stage
<1>3. SlotsCounted /\ FailuresInStreak
  BY DEF ThreadsInit, NewBreaker, SlotsCounted, FailuresInStreak
<1> QED BY <1>1, <1>2, <1>3 DEF BreakerInv

(* Every action preserves the invariant.                                   *)
LEMMA NextBreakerInv == BreakerInv /\ [ThreadsNext]_threadVars => BreakerInv'
<1> SUFFICES ASSUME BreakerInv, [ThreadsNext]_threadVars PROVE BreakerInv'
  OBVIOUS
<1> USE ThresholdsArePositive
<1>0. /\ WellFormed(circuit) /\ circuit \in Breaker
      /\ pc \in [Callers -> Stage]
      /\ streak \in 0 .. FailureThreshold /\ probes \in Nat
      /\ leaked \in 0 .. HalfOpenMaxCalls
      /\ SlotsCounted /\ FailuresInStreak
  BY DEF BreakerInv, ThreadsTypeOK, WellFormed
<1>a. ASSUME NEW c \in Callers, NEW s \in Stage, MoveTo(c, s)
      PROVE  pc' \in [Callers -> Stage]
  BY <1>0, <1>a DEF MoveTo
<1>b. ASSUME WellFormed(circuit'), pc' \in [Callers -> Stage],
             streak' \in 0 .. FailureThreshold, probes' \in Nat,
             leaked' \in 0 .. HalfOpenMaxCalls,
             SlotsCounted', FailuresInStreak'
      PROVE  BreakerInv'
  BY <1>b DEF BreakerInv, ThreadsTypeOK, WellFormed
<1>c. ASSUME Read, UNCHANGED streak
      PROVE  /\ WellFormed(circuit') /\ probes' \in Nat
             /\ leaked' \in 0 .. HalfOpenMaxCalls
             /\ SlotsCounted' /\ FailuresInStreak'
  <2>1. leaked' \in 0 .. HalfOpenMaxCalls
    BY <1>0, <1>c DEF Read
  <2> QED
    BY <1>0, <1>c, <2>1, ReadStateWellFormed, ReadStateFields
    DEF Read, SlotsCounted, FailuresInStreak
<1>1. CASE \E c \in Callers : Ask(c)
  <2> PICK c \in Callers : Ask(c)
    BY <1>1
  <2>1. circuit'.state \in CircuitState
    BY <1>0, <1>c DEF Ask, WellFormed, Breaker
  <2>2. PICK s \in Stage : MoveTo(c, s)
    BY <2>1 DEF Ask, CircuitState, Stage
  <2> QED BY <1>0, <1>a, <1>b, <1>c, <2>2 DEF Ask
<1>2. CASE \E c \in Callers : GetSlot(c)
  <2> PICK c \in Callers : GetSlot(c)
    BY <1>2
  <2>1. WellFormed(circuit')
    BY <1>0, TakeSlotWellFormed DEF GetSlot
  <2>2. /\ circuit'.state = circuit.state /\ circuit'.failures = circuit.failures
        /\ circuit'.halfOpenCalls = circuit.halfOpenCalls + 1
    BY <1>0, TakeSlotFields DEF GetSlot
  <2>3. circuit.halfOpenCalls \in Nat /\ circuit.halfOpenCalls < HalfOpenMaxCalls
    BY <1>0 DEF GetSlot, HasSlot, Breaker
  <2>4. probes' \in Nat /\ SlotsCounted'
    BY <1>0, <2>2, <2>3 DEF GetSlot, SlotsCounted
  <2>5. streak' = streak /\ FailuresInStreak'
    BY <1>0, <2>2 DEF GetSlot, FailuresInStreak
  <2> QED BY <1>0, <1>a, <1>b, <2>1, <2>4, <2>5 DEF GetSlot, Stage
<1>3. CASE \E c \in Callers : ReportSuccess(c)
  <2> PICK c \in Callers : ReportSuccess(c)
    BY <1>3
  <2>1. WellFormed(circuit')
    BY <1>0, RecordSuccessWellFormed DEF ReportSuccess
  <2>2. SlotsCounted' /\ FailuresInStreak'
    BY <1>0, RecordSuccessFields
    DEF ReportSuccess, SlotsCounted, FailuresInStreak, CircuitState, Breaker
  <2> QED BY <1>0, <1>a, <1>b, <2>1, <2>2 DEF ReportSuccess, Stage
<1>4. CASE \E c \in Callers : ReportFailure(c)
  <2> PICK c \in Callers : ReportFailure(c)
    BY <1>4
  <2> DEFINE f == CountFailure(circuit)
  <2>1. WellFormed(circuit')
    BY <1>0, RecordFailureWellFormed DEF ReportFailure
  <2>2. streak' \in 0 .. FailureThreshold
    BY <1>0 DEF ReportFailure
  <2>3. \/ circuit'.state = "open"
        \/ circuit.state # "half_open" /\ f.failures < FailureThreshold /\ circuit' = f
    BY <1>0, RecordFailureCases DEF ReportFailure
  <2>4. /\ f.state = circuit.state
        /\ f.failures = IF circuit.failures < FailureThreshold
                          THEN circuit.failures + 1 ELSE circuit.failures
    BY <1>0, CountFailureFields
  <2>5. circuit.failures \in 0 .. FailureThreshold
    BY <1>0 DEF Breaker
  <2> HIDE DEF f
  <2>6. SlotsCounted' /\ FailuresInStreak'
    BY <1>0, <2>3, <2>4, <2>5 DEF ReportFailure, SlotsCounted, FailuresInStreak
  <2> QED BY <1>0, <1>a, <1>b, <2>1, <2>2, <2>6 DEF ReportFailure, Stage
<1>5. CASE \E c \in Callers : MissSlot(c) \/ Abandon(c)
  <2> PICK c \in Callers : MissSlot(c) \/ Abandon(c)
    BY <1>5
  <2>1. MoveTo(c, "idle") /\ UNCHANGED <<circuit, streak, probes>>
    BY DEF MissSlot, Abandon
  <2>2. leaked' \in 0 .. HalfOpenMaxCalls
    BY <1>0 DEF MissSlot, Abandon
  <2> QED BY <1>0, <1>a, <1>b, <2>1, <2>2 DEF Stage, SlotsCounted, FailuresInStreak
<1>6. CASE Poll
  BY <1>0, <1>b, <1>c, <1>6 DEF Poll
<1>7. CASE Reset
  <2>1. WellFormed(circuit')
    BY <1>7, NewBreakerWellFormed DEF Reset
  <2>2. SlotsCounted' /\ FailuresInStreak'
    BY <1>0, <1>7 DEF Reset, NewBreaker, SlotsCounted, FailuresInStreak
  <2> QED BY <1>0, <1>7, <1>b, <2>1, <2>2 DEF Reset
<1>8. CASE RecoveryTimeout
  <2>1. WellFormed(circuit')
    BY <1>0, <1>8, ElapseWellFormed DEF RecoveryTimeout
  <2>2. SlotsCounted' /\ FailuresInStreak'
    BY <1>0, <1>8, ElapseFields DEF RecoveryTimeout, SlotsCounted, FailuresInStreak
  <2> QED BY <1>0, <1>8, <1>b, <2>1, <2>2 DEF RecoveryTimeout
<1>9. CASE UNCHANGED threadVars
  BY <1>0, <1>9, <1>b DEF threadVars, SlotsCounted, FailuresInStreak
<1> QED
  BY <1>1, <1>2, <1>3, <1>4, <1>5, <1>6, <1>7, <1>8, <1>9 DEF ThreadsNext, Report

-----------------------------------------------------------------------------
(* The invariant holds in every reachable state.                           *)
THEOREM BreakerInductive == ThreadsSpec => []BreakerInv
  BY InitBreakerInv, NextBreakerInv, PTL DEF ThreadsSpec

(* Type correctness, for every set of callers.                             *)
THEOREM ThreadsTypeCorrect == ThreadsSpec => []ThreadsTypeOK
<1>1. BreakerInv => ThreadsTypeOK
  BY DEF BreakerInv
<1> QED BY <1>1, BreakerInductive, PTL

(* Between two locked sections the counters are below the threshold that   *)
(* would end the state the breaker is in, and an open breaker can recover. *)
THEOREM AlwaysWellFormed == ThreadsSpec => []BreakerWellFormed
<1>1. BreakerInv => BreakerWellFormed
  BY DEF BreakerInv, BreakerWellFormed
<1> QED BY <1>1, BreakerInductive, PTL

(* No probe window lets more than half_open_max_calls requests through,    *)
(* however the two sections of allow_request interleave.                   *)
THEOREM ProbesBounded == ThreadsSpec => []ProbeBudget
<1>1. BreakerInv => ProbeBudget
  BY ThresholdsArePositive
  DEF BreakerInv, ThreadsTypeOK, SlotsCounted, ProbeBudget, WellFormed, Breaker
<1> QED BY <1>1, BreakerInductive, PTL

(* A closed breaker is opened by a recorded failure and nothing else.      *)
LEMMA OnlyFailuresTrip ==
  ASSUME BreakerInv, [ThreadsNext]_threadVars, circuit.state = "closed", circuit'.state = "open"
  PROVE  \E c \in Callers : ReportFailure(c)
<1>0. WellFormed(circuit) /\ circuit \in Breaker /\ ~ RecoveryDue(circuit)
  BY DEF BreakerInv, WellFormed, RecoveryDue
<1>1. ASSUME NEW c \in Callers,
             Ask(c) \/ GetSlot(c) \/ MissSlot(c) \/ ReportSuccess(c) \/ Abandon(c)
      PROVE  FALSE
  <2>1. ~ Ask(c)
    BY <1>0, ReadStateFields DEF Ask, Read
  <2>2. ~ GetSlot(c)
    BY <1>0, TakeSlotFields DEF GetSlot
  <2>3. ~ ReportSuccess(c)
    BY <1>0, RecordSuccessFields DEF ReportSuccess
  <2>4. ~ MissSlot(c) /\ ~ Abandon(c)
    BY DEF MissSlot, Abandon
  <2> QED BY <1>1, <2>1, <2>2, <2>3, <2>4
<1>2. ~ Poll /\ ~ Reset
  BY <1>0 DEF Poll, Reset, NewBreaker
<1>3. ~ RecoveryTimeout
  BY <1>0, ElapseFields DEF RecoveryTimeout
<1>4. ~ UNCHANGED threadVars
  BY DEF threadVars
<1> QED BY <1>1, <1>2, <1>3, <1>4 DEF ThreadsNext, Report

(* A closed breaker trips only on failure_threshold failures in a row.     *)
THEOREM TripsEarned == ThreadsSpec => TripIsEarned
<1>1. ASSUME BreakerInv, [ThreadsNext]_threadVars, circuit.state = "closed", circuit'.state = "open"
      PROVE  streak' >= FailureThreshold
  <2> PICK c \in Callers : ReportFailure(c)
    BY <1>1, OnlyFailuresTrip
  <2>1. /\ WellFormed(circuit) /\ circuit \in Breaker
        /\ circuit.failures <= streak /\ streak \in 0 .. FailureThreshold
    BY <1>1 DEF BreakerInv, ThreadsTypeOK, WellFormed, FailuresInStreak
  <2> DEFINE f == CountFailure(circuit)
  <2>2. f.failures >= FailureThreshold
    <3>1. f.state = "closed"
      BY <1>1, <2>1, CountFailureFields
    <3> QED BY <1>1, <2>1, <3>1, RecordFailureCases DEF ReportFailure
  <2>3. f.failures = circuit.failures + 1 /\ circuit.failures \in 0 .. FailureThreshold
    BY <1>1, <2>1, CountFailureFields DEF WellFormed, Breaker
  <2> HIDE DEF f
  <2> QED BY <2>1, <2>2, <2>3, ThresholdsArePositive DEF ReportFailure
<1>2. BreakerInv /\ [ThreadsNext]_threadVars
        => [circuit.state = "closed" /\ circuit'.state = "open"
              => streak' >= FailureThreshold]_threadVars
  BY <1>1
<1> QED BY <1>2, BreakerInductive, PTL DEF ThreadsSpec, TripIsEarned

(* A late success never closes an open breaker: only a manual reset does.  *)
THEOREM OpenClosesOnlyByReset == ThreadsSpec => NoSilentClose
<1>1. ASSUME BreakerInv, [ThreadsNext]_threadVars, circuit.state = "open", circuit'.state = "closed"
      PROVE  circuit' = NewBreaker
  <2>0. WellFormed(circuit) /\ circuit \in Breaker
    BY <1>1 DEF BreakerInv, WellFormed
  <2>1. circuit' # ReadState(circuit)
    BY <1>1, <2>0, ReadStateFields
  <2>2. ASSUME NEW c \in Callers PROVE ~ GetSlot(c) /\ ~ ReportSuccess(c) /\ ~ ReportFailure(c)
    <3>1. ~ GetSlot(c)
      BY <1>1, <2>0, TakeSlotFields DEF GetSlot
    <3>2. ~ ReportSuccess(c)
      BY <1>1, <2>0, RecordSuccessFields DEF ReportSuccess
    <3>3. ~ ReportFailure(c)
      BY <1>1, <2>0, RecordFailureCases, CountFailureFields DEF ReportFailure
    <3> QED BY <3>1, <3>2, <3>3
  <2>3. ~ RecoveryTimeout
    BY <1>1, <2>0, ElapseFields DEF RecoveryTimeout
  <2>4. circuit' # circuit
    BY <1>1
  <2> QED BY <1>1, <2>1, <2>2, <2>3, <2>4
          DEF ThreadsNext, Ask, Read, MissSlot, Report, Abandon, Poll, Reset, threadVars
<1>2. BreakerInv /\ [ThreadsNext]_threadVars
        => [circuit.state = "open" /\ circuit'.state = "closed"
              => circuit' = NewBreaker]_threadVars
  BY <1>1
<1> QED BY <1>2, BreakerInductive, PTL DEF ThreadsSpec, NoSilentClose

-----------------------------------------------------------------------------
(* Updates of an endpoint record.                                          *)

(* q is p but for its health and its failure count.                        *)
SameKey(p, q) ==
    q \in Endpoint /\ q.key = p.key /\ q.saved = p.saved /\ q.backend = p.backend

(* Failures and successes leave key and provider alone.                    *)
LEMMA MarksKeepKey ==
  ASSUME NEW p \in Endpoint
  PROVE  /\ SameKey(p, MarkSuccess(p))
         /\ SameKey(p, MarkFailure(p))
         /\ SameKey(p, [p EXCEPT !.consecutive = CountUp(@)])
         /\ SameKey(p, [p EXCEPT !.health = "unknown"])
         /\ SameKey(p, [p EXCEPT !.health = "unhealthy"])
         /\ SameKey(p, [p EXCEPT !.enabled = ~ @])
<1>1. CountUp(p.consecutive) \in 0 .. UnhealthyAfter
  <2>1. p.consecutive \in 0 .. UnhealthyAfter
    BY DEF Endpoint
  <2> QED BY <2>1 DEF CountUp, UnhealthyAfter
<1>2. ASSUME NEW n \in 0 .. UnhealthyAfter, NEW h \in {"unknown", "healthy", "unhealthy"}
      PROVE  SameKey(p, [p EXCEPT !.consecutive = n, !.health = h])
  <2> DEFINE d == [p EXCEPT !.consecutive = n]
  <2>1. d \in Endpoint /\ d.key = p.key /\ d.saved = p.saved /\ d.backend = p.backend
    BY DEF Endpoint
  <2> HIDE DEF d
  <2>2. SameKey(p, [d EXCEPT !.health = h])
    BY <2>1 DEF SameKey, Endpoint
  <2> QED BY <2>2 DEF d
<1>3. SameKey(p, MarkSuccess(p))
  BY <1>2 DEF MarkSuccess, UnhealthyAfter
<1>4. SameKey(p, MarkFailure(p))
  <2> DEFINE h == IF CountUp(p.consecutive) = UnhealthyAfter THEN "unhealthy" ELSE p.health
  <2>1. h \in {"unknown", "healthy", "unhealthy"}
    BY DEF Endpoint
  <2>2. MarkFailure(p) = [p EXCEPT !.consecutive = CountUp(p.consecutive), !.health = h]
    BY DEF MarkFailure
  <2> HIDE DEF h
  <2> QED BY <1>1, <1>2, <2>1, <2>2
<1>5. SameKey(p, [p EXCEPT !.consecutive = CountUp(@)])
  BY <1>1 DEF SameKey, Endpoint
<1>6. /\ SameKey(p, [p EXCEPT !.health = "unknown"])
      /\ SameKey(p, [p EXCEPT !.health = "unhealthy"])
  BY DEF SameKey, Endpoint
<1>7. SameKey(p, [p EXCEPT !.enabled = ~ @])
  BY DEF SameKey, Endpoint
<1> QED BY <1>3, <1>4, <1>5, <1>6, <1>7

(* So does the synchronisation with the breaker.                           *)
LEMMA SyncKeepsKey ==
  ASSUME NEW p \in Endpoint, NEW b
  PROVE  SameKey(p, SyncHealth(p, b))
  BY MarksKeepKey DEF SyncHealth, SameKey

(* SameKey composes.                                                       *)
LEMMA SameKeyTransitive ==
  ASSUME NEW p, NEW q, NEW s, SameKey(p, q), SameKey(q, s)
  PROVE  SameKey(p, s)
  BY DEF SameKey

(* Setting the key sets the provider to what build_provider gives for it.  *)
LEMMA WithKeyFields ==
  ASSUME NEW e, NEW p \in Endpoint, NEW key \in {"real", ""}, NEW mode
  PROVE  /\ WithKey(e, p, key, mode) \in Endpoint
         /\ WithKey(e, p, key, mode).key = key
         /\ WithKey(e, p, key, mode).backend = Backend(e, key, mode)
<1> DEFINE d == [p EXCEPT !.key = key]
<1>1. d \in Endpoint /\ d.key = key /\ d.saved = p.saved
  BY DEF Endpoint
<1>2. Backend(e, key, mode) \in {"real", "mock", "none"}
  BY DEF Backend
<1> HIDE DEF d
<1>3. LET q == [d EXCEPT !.backend = Backend(e, key, mode)] IN
      q \in Endpoint /\ q.key = key /\ q.saved = p.saved /\ q.backend = Backend(e, key, mode)
  BY <1>1, <1>2 DEF Endpoint
<1> QED BY <1>3 DEF WithKey, d

(* The key put aside stays there.                                          *)
LEMMA WithKeySaved ==
  ASSUME NEW e, NEW p \in Endpoint, NEW key \in {"real", ""}, NEW mode
  PROVE  WithKey(e, p, key, mode).saved = p.saved
<1> DEFINE d == [p EXCEPT !.key = key]
<1>1. d \in Endpoint /\ d.saved = p.saved
  BY DEF Endpoint
<1> HIDE DEF d
<1>2. [d EXCEPT !.backend = Backend(e, key, mode)].saved = p.saved
  BY <1>1 DEF Endpoint
<1> QED BY <1>2 DEF WithKey, d

(* A provider of the mock kind is only ever built in explicit mode.        *)
LEMMA BackendMock ==
  ASSUME NEW e, NEW key, NEW mode
  PROVE  Backend(e, key, mode) = "mock" => mode = "explicit"
  BY DEF Backend

-----------------------------------------------------------------------------
(* The shape of a reachable state, as far as keys and providers need it: a *)
(* request under way has an endpoint at the head of its chain, and while   *)
(* it waits for the mock's answer that endpoint has a key put aside.       *)
ReqShape ==
    /\ req \in [Requests -> Request]
    /\ \A r \in Requests : req[r].stage # "idle" => req[r].chain # <<>>
    /\ \A r \in Requests : req[r].stage = "mocking" => ep[Current(r)].saved # "none"

Shape == ep \in [Endpoints -> Endpoint] /\ ReqShape

(* What every step but a reload does to an endpoint: no saved key vanishes *)
(* and no mock provider appears unless the mode is explicit.               *)
Moves(p, q) ==
    /\ q \in Endpoint
    /\ p.saved # "none" => q.saved # "none"
    /\ q.backend = "mock" => p.backend = "mock" \/ mock = "explicit"

EpMoves == ep' \in [Endpoints -> Endpoint] /\ \A e \in Endpoints : Moves(ep[e], ep'[e])

(* Updates that keep the key are moves.                                    *)
LEMMA SameKeyMoves ==
  ASSUME NEW p \in Endpoint, NEW q, SameKey(p, q)
  PROVE  Moves(p, q)
  BY DEF SameKey, Moves

(* So are updates that set the key under the current mode.                 *)
LEMMA WithKeyMoves ==
  ASSUME NEW e, NEW p \in Endpoint, NEW key \in {"real", ""}
  PROVE  Moves(p, WithKey(e, p, key, mock))
<1>1. WithKey(e, p, key, mock) \in Endpoint
  BY WithKeyFields, Zenon
<1>2. WithKey(e, p, key, mock).backend = Backend(e, key, mock)
  BY WithKeyFields, Zenon
<1>3. WithKey(e, p, key, mock).saved = p.saved
  BY WithKeySaved
<1>4. Backend(e, key, mock) = "mock" => mock = "explicit"
  BY BackendMock
<1> QED BY <1>1, <1>2, <1>3, <1>4 DEF Moves

(* Moves compose, and an endpoint that does not change makes one.          *)
LEMMA MovesTransitive ==
  ASSUME NEW p, NEW q, NEW s, Moves(p, q), Moves(q, s)
  PROVE  Moves(p, s)
  BY DEF Moves

LEMMA MovesReflexive ==
  ASSUME NEW p \in Endpoint
  PROVE  Moves(p, p)
  BY DEF Moves

(* A step that moves one endpoint moves the pool.                          *)
LEMMA UpdateMoves ==
  ASSUME ep \in [Endpoints -> Endpoint], NEW e \in Endpoints, NEW p,
         Moves(ep[e], p), ep' = [ep EXCEPT ![e] = p]
  PROVE  EpMoves
<1>1. ASSUME NEW x \in Endpoints PROVE Moves(ep[x], ep'[x])
  <2>1. CASE x = e
    <3>1. ep'[x] = p
      BY <2>1
    <3> QED BY <2>1, <3>1
  <2>2. CASE x # e
    <3>1. ep'[x] = ep[x] /\ ep[x] \in Endpoint
      BY <2>2
    <3> QED BY <3>1, MovesReflexive
  <2> QED BY <2>1, <2>2
<1>2. ep' \in [Endpoints -> Endpoint]
  <2>1. p \in Endpoint
    BY DEF Moves
  <2> QED BY <2>1
<1> QED BY <1>1, <1>2 DEF EpMoves

(* The endpoint a request is trying exists.                                *)
LEMMA CurrentExists ==
  ASSUME ReqShape, NEW r \in Requests, req[r].stage # "idle"
  PROVE  Current(r) \in Endpoints
<1>1. req[r].chain \in Seq(Endpoints) /\ req[r].chain # <<>>
  BY DEF ReqShape, Request
<1> QED BY <1>1 DEF Current

(* A request changes its stage and keeps its chain.                        *)
LEMMA StageFields ==
  ASSUME ReqShape, NEW r \in Requests,
         NEW stage \in {"locking", "mocking", "backoff"}, NEW via \in {"real", "mock", "none"},
         req' = [req EXCEPT ![r].stage = stage, ![r].via = via]
  PROVE  /\ req' \in [Requests -> Request]
         /\ req'[r].stage = stage
         /\ \A x \in Requests : req'[x].chain = req[x].chain
         /\ \A x \in Requests : x # r => req'[x] = req[x]
<1>1. req \in [Requests -> Request] /\ req[r] \in Request
  BY DEF ReqShape
<1> DEFINE d == [req[r] EXCEPT !.stage = stage]
<1>2. d \in Request /\ d.chain = req[r].chain /\ d.stage = stage
  BY <1>1 DEF Request
<1>3. req'[r] = [d EXCEPT !.via = via] /\ \A x \in Requests : x # r => req'[x] = req[x]
  BY <1>1
<1> HIDE DEF d
<1>4. [d EXCEPT !.via = via] \in Request
      /\ [d EXCEPT !.via = via].chain = req[r].chain
      /\ [d EXCEPT !.via = via].stage = stage
  BY <1>2 DEF Request
<1>5. \A x \in Requests : req'[x] \in Request /\ req'[x].chain = req[x].chain
  BY <1>1, <1>3, <1>4
<1>6. req' \in [Requests -> Request]
  BY <1>1, <1>5
<1> QED BY <1>3, <1>4, <1>5, <1>6

(* A request that gives up an attempt or that waits for a lock keeps the   *)
(* shape, whatever moves it made.                                          *)
LEMMA BecomeShape ==
  ASSUME Shape, EpMoves, NEW r \in Requests, req[r].stage # "idle",
         NEW stage \in {"locking", "backoff"}, Become(r, stage)
  PROVE  ReqShape'
<1>1. /\ req' \in [Requests -> Request]
      /\ req'[r].stage = stage
      /\ \A x \in Requests : req'[x].chain = req[x].chain
      /\ \A x \in Requests : x # r => req'[x] = req[x]
  BY StageFields DEF Become, Shape
<1>2. ASSUME NEW x \in Requests, req'[x].stage = "mocking"
      PROVE  ep'[Current(x)'].saved # "none"
  <2>1. req'[x] = req[x] /\ Current(x)' = Current(x)
    BY <1>1, <1>2 DEF Current
  <2>2. Current(x) \in Endpoints
    BY <1>2, <2>1, CurrentExists DEF Shape
  <2> QED BY <1>2, <2>1, <2>2 DEF Shape, ReqShape, EpMoves, Moves
<1>3. \A x \in Requests : req'[x].stage # "idle" => req'[x].chain # <<>>
  BY <1>1 DEF Shape, ReqShape
<1> QED BY <1>1, <1>2, <1>3 DEF ReqShape

(* So do steps that leave each request alone or send it to idle.           *)
LEMMA IdleShape ==
  ASSUME Shape, EpMoves, req' \in [Requests -> Request],
         \A x \in Requests : req'[x] = req[x] \/ req'[x].stage = "idle"
  PROVE  ReqShape'
<1>1. ASSUME NEW x \in Requests, req'[x].stage = "mocking"
      PROVE  ep'[Current(x)'].saved # "none"
  <2>1. req'[x] = req[x] /\ Current(x)' = Current(x)
    BY <1>1 DEF Current
  <2>2. Current(x) \in Endpoints
    BY <1>1, <2>1, CurrentExists DEF Shape
  <2> QED BY <1>1, <2>1, <2>2 DEF Shape, ReqShape, EpMoves, Moves
<1> QED BY <1>1 DEF Shape, ReqShape

LEMMA FinishShape ==
  ASSUME Shape, EpMoves, NEW r \in Requests, Finish(r)
  PROVE  ReqShape'
<1>1. Idle \in Request /\ Idle.stage = "idle"
  BY DEF Idle, Request
<1>2. req' \in [Requests -> Request]
  BY <1>1 DEF Finish, Shape, ReqShape
<1>3. \A x \in Requests : req'[x] = req[x] \/ req'[x].stage = "idle"
  BY <1>1 DEF Finish, Shape, ReqShape
<1> QED BY <1>2, <1>3, IdleShape

LEMMA UnchangedShape ==
  ASSUME Shape, EpMoves, UNCHANGED req
  PROVE  ReqShape'
<1>1. req' \in [Requests -> Request]
  BY DEF Shape, ReqShape
<1> QED BY <1>1, IdleShape

(* The 401 fallback keeps the shape, and puts a key aside if it goes on to *)
(* wait for the mock's answer.                                             *)
LEMMA FallBackShape ==
  ASSUME Shape, NEW r \in Requests, req[r].stage # "idle",
         NEW p, SameKey(ep[Current(r)], p), NEW b,
         FallBack(r, Current(r), p, b)
  PROVE  EpMoves /\ ReqShape'
<1> DEFINE e == Current(r)
           k == [p EXCEPT !.saved = p.key]
           aside == WithKey(e, k, "", mock)
<1>1. e \in Endpoints /\ ep[e] \in Endpoint
  BY CurrentExists DEF Shape
<1>2. p \in Endpoint /\ p.key \in {"real", ""} /\ Moves(ep[e], p)
  BY <1>1, SameKeyMoves DEF SameKey, Endpoint
<1>3. k \in Endpoint /\ k.saved = p.key /\ Moves(p, k)
  BY <1>2 DEF Endpoint, Moves
<1> HIDE DEF k
<1>4. Moves(k, aside) /\ aside.saved = p.key /\ aside \in Endpoint
  <2>1. Moves(k, aside)
    BY <1>3, WithKeyMoves, Zenon
  <2>2. aside.saved = k.saved
    BY <1>3, WithKeySaved, Zenon
  <2> HIDE DEF aside
  <2> QED BY <1>3, <2>1, <2>2 DEF Moves
<1>5. Moves(ep[e], aside)
  BY <1>2, <1>3, <1>4, MovesTransitive
<1>6. CASE aside.backend # "none"
  <2>1. ep' = [ep EXCEPT ![e] = aside]
        /\ req' = [req EXCEPT ![r].stage = "mocking", ![r].via = aside.backend]
    BY <1>6 DEF FallBack, Update, k
  <2>2. EpMoves
    BY <1>1, <1>5, <2>1, UpdateMoves DEF Shape
  <2>3. aside.backend \in {"real", "mock", "none"}
    BY <1>4 DEF Endpoint
  <2>4. /\ req' \in [Requests -> Request]
        /\ req'[r].stage = "mocking"
        /\ \A x \in Requests : req'[x].chain = req[x].chain
        /\ \A x \in Requests : x # r => req'[x] = req[x]
    BY <2>1, <2>3, StageFields DEF Shape
  <2>5. ep'[e].saved # "none"
    BY <1>1, <1>2, <1>4, <2>1 DEF Shape
  <2>6. ASSUME NEW x \in Requests, req'[x].stage = "mocking"
        PROVE  ep'[Current(x)'].saved # "none"
    <3>1. CASE x = r
      BY <2>4, <2>5, <3>1 DEF Current
    <3>2. CASE x # r
      <4>1. req'[x] = req[x] /\ Current(x)' = Current(x)
        BY <2>4, <3>2 DEF Current
      <4>2. Current(x) \in Endpoints
        BY <2>6, <4>1, CurrentExists DEF Shape
      <4> QED BY <2>2, <2>6, <4>1, <4>2 DEF Shape, ReqShape, EpMoves, Moves
    <3> QED BY <3>1, <3>2
  <2>7. \A x \in Requests : req'[x].stage # "idle" => req'[x].chain # <<>>
    BY <2>4 DEF Shape, ReqShape
  <2> QED BY <2>2, <2>4, <2>6, <2>7 DEF ReqShape
<1>7. CASE ~ (aside.backend # "none")
  <2> DEFINE back == WithKey(e, aside, aside.saved, mock)
  <2>1. Moves(aside, back) /\ back \in Endpoint
    BY <1>2, <1>4, WithKeyMoves DEF Moves
  <2>2. Moves(back, SyncHealth(back, ReadState(b)))
    BY <2>1, SyncKeepsKey, SameKeyMoves
  <2>3. Moves(ep[e], SyncHealth(back, ReadState(b)))
    BY <1>5, <2>1, <2>2, MovesTransitive
  <2>4. ep' = [ep EXCEPT ![e] = SyncHealth(back, ReadState(b))] /\ Become(r, "backoff")
    BY <1>7 DEF FallBack, Update, k
  <2>5. EpMoves
    BY <1>1, <2>3, <2>4, UpdateMoves DEF Shape
  <2> QED BY <2>4, <2>5, BecomeShape
<1> QED BY <1>6, <1>7

(* So does a request that goes on along its chain.                         *)
LEMMA AdvanceShape ==
  ASSUME Shape, NEW r \in Requests, NEW chain \in Seq(Endpoints), Advance(r, chain)
  PROVE  EpMoves /\ ReqShape'
<1>1. ASSUME NEW e \in Endpoints
      PROVE  Moves(ep[e], VisitedEndpoint(e)) /\ Rebuilt(ep[e], e) \in Endpoint
  <2>1. ep[e] \in Endpoint /\ ep[e].key \in {"real", ""}
    BY DEF Shape, Endpoint
  <2>2. Moves(ep[e], [ep[e] EXCEPT !.health = "unhealthy"])
    BY <2>1, MarksKeepKey, SameKeyMoves
  <2>3. Moves(ep[e], WithKey(e, ep[e], ep[e].key, mock)) /\ Moves(ep[e], ep[e])
    BY <2>1, WithKeyMoves, MovesReflexive
  <2>4. Moves(ep[e], Rebuilt(ep[e], e))
    BY <2>3 DEF Rebuilt
  <2> QED BY <2>2, <2>3, <2>4 DEF VisitedEndpoint, Moves
<1> PICK next \in 1 .. Len(chain) + 1 :
       /\ \E visited : ep' = [e \in Endpoints |->
                                IF e \in visited THEN VisitedEndpoint(e) ELSE ep[e]]
       /\ req' = [req EXCEPT ![r] =
                     IF next > Len(chain) THEN Idle
                     ELSE [stage |-> "calling",
                           chain |-> SubSeq(chain, next, Len(chain)),
                           via   |-> Rebuilt(ep[chain[next]], chain[next]).backend]]
  BY DEF Advance
<1>2. EpMoves
  <2>1. PICK visited : ep' = [e \in Endpoints |->
                                IF e \in visited THEN VisitedEndpoint(e) ELSE ep[e]]
    OBVIOUS
  <2>2. ASSUME NEW e \in Endpoints PROVE Moves(ep[e], ep'[e])
    BY <1>1, <2>1, MovesReflexive DEF Shape
  <2>3. \A e \in Endpoints : ep'[e] \in Endpoint
    BY <2>2 DEF Moves
  <2> QED BY <2>1, <2>2, <2>3 DEF EpMoves
<1>3. CASE next > Len(chain)
  BY <1>2, <1>3, FinishShape DEF Finish
<1>4. CASE ~ (next > Len(chain))
  <2> DEFINE rest == SubSeq(chain, next, Len(chain))
             via  == Rebuilt(ep[chain[next]], chain[next]).backend
             d    == [stage |-> "calling", chain |-> rest, via |-> via]
  <2>1. Len(chain) \in Nat /\ next \in 1 .. Len(chain)
    BY <1>4
  <2>2. rest \in Seq(Endpoints) /\ rest # <<>>
    <3>1. next \in 1 .. Len(chain) + 1 /\ Len(chain) \in next - 1 .. Len(chain)
      BY <2>1
    <3>2. rest \in Seq(Endpoints)
      BY <3>1, SubSeqProperties
    <3>3. Len(rest) = Len(chain) - next + 1
      BY <2>1, <3>1, SubSeqProperties
    <3> HIDE DEF rest
    <3>4. Len(rest) # 0
      BY <2>1, <3>3
    <3> QED BY <3>2, <3>4
  <2>3. via \in {"real", "mock", "none"}
    <3>1. chain[next] \in Endpoints
      BY <2>1
    <3>2. Rebuilt(ep[chain[next]], chain[next]) \in Endpoint
      BY <1>1, <3>1, Zenon
    <3> QED BY <3>2 DEF Endpoint
  <2> HIDE DEF rest, via
  <2>4. d \in Request /\ d.stage = "calling" /\ d.chain # <<>>
    BY <2>2, <2>3 DEF Request
  <2>5. req' = [req EXCEPT ![r] = d]
    BY <1>4 DEF rest, via
  <2> HIDE DEF d
  <2>6. /\ req' \in [Requests -> Request]
        /\ \A x \in Requests : req'[x] = req[x] \/ req'[x] = d
    BY <2>4, <2>5 DEF Shape, ReqShape
  <2>7. ASSUME NEW x \in Requests, req'[x].stage = "mocking"
        PROVE  ep'[Current(x)'].saved # "none"
    <3>1. req'[x] = req[x] /\ Current(x)' = Current(x)
      BY <2>4, <2>6, <2>7 DEF Current
    <3>2. Current(x) \in Endpoints
      BY <2>7, <3>1, CurrentExists DEF Shape
    <3> QED BY <1>2, <2>7, <3>1, <3>2 DEF Shape, ReqShape, EpMoves, Moves
  <2>8. \A x \in Requests : req'[x].stage # "idle" => req'[x].chain # <<>>
    BY <2>4, <2>6 DEF Shape, ReqShape
  <2> QED BY <1>2, <2>6, <2>7, <2>8 DEF ReqShape
<1> QED BY <1>3, <1>4

(* A step that only changes endpoint e, by an update that keeps its key.   *)
LEMMA QuietUpdate ==
  ASSUME Shape, NEW e \in Endpoints, NEW p, SameKey(ep[e], p), NEW b, Update(e, p, b)
  PROVE  EpMoves
<1>1. Moves(ep[e], p)
  BY SameKeyMoves DEF Shape
<1> QED BY <1>1, UpdateMoves DEF Shape, Update

(* A step that leaves the endpoints alone.                                 *)
LEMMA EpUnchanged ==
  ASSUME Shape, UNCHANGED ep
  PROVE  EpMoves
  BY MovesReflexive DEF Shape, EpMoves

(* The calls that start or go on along a chain.                            *)
LEMMA CallShape ==
  ASSUME Shape, NEW r \in Requests, NEW e \in Endpoints, Call(r, e) \/ Resume(r)
  PROVE  EpMoves /\ ReqShape'
<1>1. CASE Call(r, e)
  <2>1. PICK chain \in Chains(e) : Advance(r, chain)
    BY <1>1 DEF Call
  <2>2. chain \in Seq(Endpoints)
    <3>1. PICK n \in 1 .. MaxRetries : chain \in [1 .. n -> Endpoints]
      BY DEF Chains
    <3>2. n \in Nat
      BY PoolAssumption
    <3> QED BY <3>1, <3>2
  <2> QED BY <2>1, <2>2, AdvanceShape
<1>2. CASE Resume(r)
  <2>1. req[r].chain \in Seq(Endpoints) /\ req[r].chain # <<>>
    BY <1>2 DEF Resume, Shape, ReqShape, Request
  <2>2. Tail(req[r].chain) \in Seq(Endpoints)
    BY <2>1, HeadTailProperties
  <2> QED BY <1>2, <2>2, AdvanceShape DEF Resume
<1> QED BY <1>1, <1>2

(* The answers of the chat calls.                                          *)
LEMMA AnswerShape ==
  ASSUME Shape, NEW r \in Requests, Answer(r) \/ GetLock(r) \/ MockAnswer(r)
  PROVE  EpMoves /\ ReqShape'
<1> DEFINE e == Current(r)
<1>1. req[r].stage # "idle" /\ e \in Endpoints /\ ep[e] \in Endpoint
  <2>1. req[r].stage # "idle"
    BY DEF Answer, GetLock, MockAnswer, Succeed, Crash, Reject, Fail, MockSucceed, MockFail
  <2> QED BY <2>1, CurrentExists DEF Shape
<1>2. SameKey(ep[e], MarkSuccess(ep[e])) /\ SameKey(ep[e], MarkFailure(ep[e]))
  BY <1>1, MarksKeepKey
<1>3. SameKey(ep[e], ep[e])
  BY <1>1 DEF SameKey
<1>4. CASE Succeed(r) \/ MockSucceed(r)
  <2>1. Update(e, MarkSuccess(ep[e]), RecordSuccess(breaker[e])) /\ Finish(r)
    BY <1>4 DEF Succeed, MockSucceed
  <2> QED BY <1>1, <1>2, <2>1, QuietUpdate, FinishShape
<1>5. CASE Crash(r)
  <2>1. Update(e, MarkFailure(ep[e]), RecordFailure(breaker[e])) /\ Become(r, "backoff")
    BY <1>5 DEF Crash
  <2> QED BY <1>1, <1>2, <2>1, QuietUpdate, BecomeShape
<1>6. ASSUME NEW auth \in BOOLEAN, Fail(r, auth)
      PROVE  EpMoves /\ ReqShape'
  <2> DEFINE b == RecordFailure(breaker[e])
  <2>1. Update(e, SyncHealth(MarkFailure(ep[e]), b), b) /\ Become(r, "backoff")
    BY <1>6 DEF Fail
  <2>2. SameKey(MarkFailure(ep[e]), SyncHealth(MarkFailure(ep[e]), b))
    BY <1>2, SyncKeepsKey DEF SameKey
  <2>3. SameKey(ep[e], SyncHealth(MarkFailure(ep[e]), b))
    BY <1>2, <2>2, SameKeyTransitive
  <2> QED BY <1>1, <2>1, <2>3, QuietUpdate, BecomeShape
<1>7. CASE Reject(r)
  <2>1. CASE lock[e] = <<>>
    <3>1. FallBack(r, e, MarkFailure(ep[e]), RecordFailure(breaker[e]))
      BY <1>7, <2>1 DEF Reject
    <3> QED BY <1>1, <1>2, <3>1, FallBackShape
  <2>2. CASE lock[e] # <<>>
    <3>1. Update(e, MarkFailure(ep[e]), RecordFailure(breaker[e])) /\ Become(r, "locking")
      BY <1>7, <2>2 DEF Reject
    <3> QED BY <1>1, <1>2, <3>1, QuietUpdate, BecomeShape
  <2> QED BY <2>1, <2>2
<1>8. CASE GetLock(r)
  <2>1. FallBack(r, e, ep[e], breaker[e])
    BY <1>8 DEF GetLock
  <2> QED BY <1>1, <1>3, <2>1, FallBackShape
<1>9. CASE MockFail(r)
  <2> DEFINE b    == ReadState(breaker[e])
             back == WithKey(e, ep[e], ep[e].saved, mock)
  <2>1. Update(e, SyncHealth(back, b), b) /\ Become(r, "backoff")
    BY <1>9 DEF MockFail
  <2>2. ep[e].saved \in {"real", ""}
    BY <1>1, <1>9 DEF MockFail, Shape, ReqShape, Endpoint
  <2>3. Moves(ep[e], back)
    BY <1>1, <2>2, WithKeyMoves, Zenon
  <2>4. back \in Endpoint
    BY <2>3 DEF Moves
  <2>5. Moves(back, SyncHealth(back, b))
    BY <2>4, SyncKeepsKey, SameKeyMoves
  <2>6. Moves(ep[e], SyncHealth(back, b))
    BY <2>3, <2>5, MovesTransitive
  <2>7. EpMoves
    BY <1>1, <2>1, <2>6, UpdateMoves DEF Shape, Update
  <2> QED BY <1>1, <2>1, <2>7, BecomeShape
<1> QED BY <1>4, <1>5, <1>6, <1>7, <1>8, <1>9 DEF Answer, MockAnswer

(* The health loop, the admin routes and the passing of time.              *)
Housekeeping ==
    \/ Sweep \/ SweepTimeout \/ Snapshot
    \/ \E e \in Endpoints :
         ProbeOk(e) \/ ProbeFail(e) \/ Timeout(e) \/ Toggle(e) \/ ResetBreaker(e)

LEMMA HousekeepingKeepsKeys ==
  ASSUME Shape, Housekeeping
  PROVE  /\ \A e \in Endpoints : SameKey(ep[e], ep'[e])
         /\ ep' \in [Endpoints -> Endpoint]
         /\ UNCHANGED <<req, lock, mock>>
<1>1. ASSUME NEW e \in Endpoints
      PROVE  SameKey(ep[e], ep[e])
  BY DEF Shape, SameKey
<1>2. ASSUME NEW e \in Endpoints, NEW p, SameKey(ep[e], p), ep' = [ep EXCEPT ![e] = p]
      PROVE  ep' \in [Endpoints -> Endpoint] /\ \A x \in Endpoints : SameKey(ep[x], ep'[x])
  BY <1>1, <1>2 DEF Shape, SameKey
<1>3. ASSUME UNCHANGED ep
      PROVE  ep' \in [Endpoints -> Endpoint] /\ \A x \in Endpoints : SameKey(ep[x], ep'[x])
  BY <1>1, <1>3 DEF Shape
<1>4. CASE SweepTimeout
  <2>1. ASSUME NEW e \in Endpoints
        PROVE  SameKey(ep[e], ep'[e])
    <3>1. SameKey(ep[e], [ep[e] EXCEPT !.health = "unknown"])
      BY MarksKeepKey DEF Shape
    <3> QED BY <1>1, <1>4, <3>1 DEF SweepTimeout
  <2>2. ep' \in [Endpoints -> Endpoint]
    BY <1>4, <2>1 DEF SweepTimeout, SameKey
  <2> QED BY <1>4, <2>1, <2>2 DEF SweepTimeout
<1>5. ASSUME NEW e \in Endpoints, ProbeOk(e) \/ ResetBreaker(e)
      PROVE  ep' \in [Endpoints -> Endpoint] /\ \A x \in Endpoints : SameKey(ep[x], ep'[x])
  <2>1. SameKey(ep[e], MarkSuccess(ep[e]))
    BY MarksKeepKey DEF Shape
  <2>2. ep' = [ep EXCEPT ![e] = MarkSuccess(ep[e])]
    BY <1>5 DEF ProbeOk, ResetBreaker, Update
  <2> QED BY <1>2, <2>1, <2>2
<1>6. ASSUME NEW e \in Endpoints, ProbeFail(e)
      PROVE  ep' \in [Endpoints -> Endpoint] /\ \A x \in Endpoints : SameKey(ep[x], ep'[x])
  <2> DEFINE p == [ep[e] EXCEPT !.consecutive = CountUp(@)]
             b == RecordFailure(breaker[e])
  <2>1. SameKey(ep[e], p)
    BY MarksKeepKey DEF Shape
  <2>2. SameKey(p, SyncHealth(p, b))
    BY <2>1, SyncKeepsKey DEF SameKey
  <2>3. SameKey(ep[e], SyncHealth(p, b))
    BY <2>1, <2>2, SameKeyTransitive
  <2>4. ep' = [ep EXCEPT ![e] = SyncHealth(p, b)]
    BY <1>6 DEF ProbeFail, Update
  <2> QED BY <1>2, <2>3, <2>4
<1>7. ASSUME NEW e \in Endpoints, Toggle(e)
      PROVE  ep' \in [Endpoints -> Endpoint] /\ \A x \in Endpoints : SameKey(ep[x], ep'[x])
  <2>1. SameKey(ep[e], [ep[e] EXCEPT !.enabled = ~ @])
    BY MarksKeepKey DEF Shape
  <2>2. ep' = [ep EXCEPT ![e] = [ep[e] EXCEPT !.enabled = ~ @]]
    BY <1>7 DEF Toggle, Shape
  <2> QED BY <1>2, <2>1, <2>2
<1>8. ep' \in [Endpoints -> Endpoint] /\ \A x \in Endpoints : SameKey(ep[x], ep'[x])
  BY <1>3, <1>4, <1>5, <1>6, <1>7 DEF Housekeeping, Sweep, Snapshot, Timeout
<1>9. UNCHANGED <<req, lock, mock>>
  BY DEF Housekeeping, Sweep, SweepTimeout, Snapshot, ProbeOk, ProbeFail, Timeout, Toggle,
         ResetBreaker
<1> QED BY <1>8, <1>9

(* Every step but a reload moves the endpoints and keeps the shape.        *)
LEMMA StepShape ==
  ASSUME Shape, [Next]_vars, ~ Reload, ~ ReloadFails
  PROVE  EpMoves /\ Shape' /\ mock' = mock
<1>1. ASSUME NEW r \in Requests, NEW e \in Endpoints, Call(r, e) \/ Resume(r)
      PROVE  EpMoves /\ ReqShape' /\ mock' = mock
  BY <1>1, CallShape DEF Call, Resume
<1>2. ASSUME NEW r \in Requests, Answer(r) \/ GetLock(r) \/ MockAnswer(r)
      PROVE  EpMoves /\ ReqShape' /\ mock' = mock
  <2>1. mock' = mock
    BY <1>2 DEF Answer, GetLock, MockAnswer, Succeed, Crash, Reject, Fail, MockSucceed,
                MockFail
  <2> QED BY <1>2, <2>1, AnswerShape
<1>3. ASSUME NEW r \in Requests, Cancel(r)
      PROVE  EpMoves /\ ReqShape' /\ mock' = mock
  <2>1. EpMoves
    BY <1>3, EpUnchanged DEF Cancel
  <2> QED BY <1>3, <2>1, FinishShape DEF Cancel
<1>4. ASSUME NEW r \in Requests, Resume(r)
      PROVE  EpMoves /\ ReqShape' /\ mock' = mock
  <2>1. Current(r) \in Endpoints
    BY <1>4, CurrentExists DEF Resume, Shape
  <2> QED BY <1>1, <1>4, <2>1
<1>5. CASE Housekeeping
  <2>1. EpMoves
    BY <1>5, HousekeepingKeepsKeys, SameKeyMoves DEF EpMoves, Shape
  <2>2. req' = req /\ mock' = mock
    BY <1>5, HousekeepingKeepsKeys
  <2>3. ReqShape'
    BY <2>1, <2>2, UnchangedShape
  <2> QED BY <2>1, <2>2, <2>3 DEF EpMoves, Shape
<1>6. CASE UNCHANGED vars
  <2>1. EpMoves
    BY <1>6, EpUnchanged DEF vars
  <2>2. req' = req /\ mock' = mock
    BY <1>6 DEF vars
  <2>3. ReqShape'
    BY <2>1, <2>2, UnchangedShape
  <2> QED BY <2>1, <2>2, <2>3 DEF EpMoves, Shape
<1>7. CASE Next
  <2>1. CASE Housekeeping
    BY <1>5, <2>1
  <2>2. CASE ~ Housekeeping
    <3>1. EpMoves /\ ReqShape' /\ mock' = mock
      BY <1>1, <1>2, <1>3, <1>4, <1>7, <2>2 DEF Next, Housekeeping
    <3> QED BY <3>1 DEF EpMoves, Shape
  <2> QED BY <2>1, <2>2
<1> QED BY <1>6, <1>7

-----------------------------------------------------------------------------
(* No mock provider is in use while the mode is disabled.                  *)

MockInv == Shape /\ NoMockWhenDisabled

LEMMA MockInvInit == Init => MockInv
<1> SUFFICES ASSUME Init PROVE MockInv
  OBVIOUS
<1>1. ASSUME NEW e \in Endpoints PROVE NewEndpoint(e, "explicit") \in Endpoint
  <2>1. ConfiguredKey(e) \in {"real", ""}
    BY DEF ConfiguredKey
  <2>2. Backend(e, ConfiguredKey(e), "explicit") \in {"real", "mock", "none"}
    BY DEF Backend
  <2>3. 0 \in 0 .. UnhealthyAfter
    BY DEF UnhealthyAfter
  <2> QED BY <2>1, <2>2, <2>3 DEF NewEndpoint, Endpoint
<1>2. ep \in [Endpoints -> Endpoint]
  BY <1>1 DEF Init
<1>3. Idle \in Request /\ Idle.stage = "idle"
  BY DEF Idle, Request
<1>4. ReqShape
  BY <1>3 DEF Init, ReqShape
<1>5. NoMockWhenDisabled
  BY DEF Init, NoMockWhenDisabled
<1> QED BY <1>2, <1>4, <1>5 DEF MockInv, Shape

(* A reload sets the configured key.                                       *)
LEMMA ConfiguredFields ==
  ASSUME NEW e, NEW p \in Endpoint, NEW mode
  PROVE  /\ WithKey(e, p, ConfiguredKey(e), mode) \in Endpoint
         /\ WithKey(e, p, ConfiguredKey(e), mode).backend = "mock" => mode = "explicit"
         /\ WithKey(e, p, ConfiguredKey(e), mode).saved = p.saved
         /\ WithKey(e, p, ConfiguredKey(e), mode).key = ConfiguredKey(e)
<1>1. ConfiguredKey(e) \in {"real", ""}
  BY DEF ConfiguredKey
<1> DEFINE key == ConfiguredKey(e)
<1> HIDE DEF key
<1>2. key \in {"real", ""}
  BY <1>1 DEF key
<1>3. WithKey(e, p, key, mode) \in Endpoint
  BY <1>2, WithKeyFields, Zenon
<1>4. WithKey(e, p, key, mode).key = key
  BY <1>2, WithKeyFields, Zenon
<1>5. WithKey(e, p, key, mode).backend = Backend(e, key, mode)
  BY <1>2, WithKeyFields, Zenon
<1>6. WithKey(e, p, key, mode).saved = p.saved
  BY <1>2, WithKeySaved, Zenon
<1>7. WithKey(e, p, key, mode).backend = "mock" => mode = "explicit"
  BY <1>5, BackendMock
<1> QED BY <1>3, <1>4, <1>6, <1>7 DEF key

(* A reload keeps the shape: it takes no saved key away.                   *)
LEMMA ReloadShape ==
  ASSUME Shape, Reload
  PROVE  Shape'
<1>1. PICK mode :
        ep' = [e \in Endpoints |-> WithKey(e, ep[e], ConfiguredKey(e), mode)]
  BY DEF Reload
<1>2. ASSUME NEW e \in Endpoints
      PROVE  ep'[e] \in Endpoint /\ ep'[e].saved = ep[e].saved
  <2>1. ep[e] \in Endpoint
    BY DEF Shape
  <2>2. ep'[e] = WithKey(e, ep[e], ConfiguredKey(e), mode)
    BY <1>1
  <2> QED BY <2>1, <2>2, ConfiguredFields
<1>3. ep' \in [Endpoints -> Endpoint]
  BY <1>1, <1>2
<1>4. req' = req /\ \A r \in Requests : Current(r)' = Current(r)
  BY DEF Reload, Current
<1>5. ASSUME NEW r \in Requests, req[r].stage = "mocking"
      PROVE  ep'[Current(r)'].saved # "none"
  <2>1. Current(r) \in Endpoints
    BY <1>5, CurrentExists DEF Shape
  <2> QED BY <1>2, <1>4, <1>5, <2>1 DEF Shape, ReqShape
<1>6. ReqShape'
  BY <1>4, <1>5 DEF Shape, ReqShape
<1> QED BY <1>3, <1>6 DEF Shape

(* So does every other step.                                               *)
LEMMA ShapeKept ==
  ASSUME Shape, [Next]_vars
  PROVE  Shape'
<1>1. CASE ReloadFails
  <2>1. UNCHANGED <<ep, req>>
    BY <1>1 DEF ReloadFails
  <2> QED BY <2>1 DEF Shape, ReqShape, Current
<1> QED BY <1>1, ReloadShape, StepShape

LEMMA MockInvStep ==
  ASSUME MockInv, [Next]_vars, "storage_error" \notin Disturbances
  PROVE  MockInv'
<1>1. CASE Reload
  <2>1. PICK mode : /\ mock' = mode
                    /\ ep' = [e \in Endpoints |-> WithKey(e, ep[e], ConfiguredKey(e), mode)]
    BY <1>1 DEF Reload
  <2>2. ASSUME NEW e \in Endpoints
        PROVE  ep'[e].backend = "mock" => mode = "explicit"
    <3>1. ep[e] \in Endpoint
      BY DEF MockInv, Shape
    <3>2. ep'[e] = WithKey(e, ep[e], ConfiguredKey(e), mode)
      BY <2>1
    <3> QED BY <3>1, <3>2, ConfiguredFields
  <2>3. NoMockWhenDisabled'
    BY <2>1, <2>2 DEF NoMockWhenDisabled
  <2> QED BY <1>1, <2>3, ReloadShape DEF MockInv
<1>2. CASE ~ Reload
  <2>1. ~ ReloadFails
    BY DEF ReloadFails
  <2>2. EpMoves /\ Shape' /\ mock' = mock
    BY <1>2, <2>1, StepShape DEF MockInv
  <2>3. NoMockWhenDisabled'
    BY <2>2 DEF MockInv, NoMockWhenDisabled, EpMoves, Moves
  <2> QED BY <2>2, <2>3 DEF MockInv
<1> QED BY <1>1, <1>2

(* providers/__init__.py:166, model_pool.py:173-204: as long as every      *)
(* change of the settings rebuilds the providers, no endpoint is left with *)
(* a mock provider in disabled mode, whatever fallbacks, probes, reloads   *)
(* and cancellations are interleaved.                                      *)
THEOREM MockOnlyWhenExplicit ==
  ASSUME "storage_error" \notin Disturbances
  PROVE  Spec => []NoMockWhenDisabled
<1>1. MockInv /\ [Next]_vars => MockInv'
  BY MockInvStep
<1>2. MockInv => NoMockWhenDisabled
  BY DEF MockInv
<1> QED BY MockInvInit, <1>1, <1>2, PTL DEF Spec

-----------------------------------------------------------------------------
(* Going on along a chain.                                                 *)

(* q keeps the key and the saved key of p.                                 *)
KeepsKeys(p, q) == q.key = p.key /\ q.saved = p.saved

(* Building a missing provider leaves the keys alone.                      *)
LEMMA RebuiltKeepsKeys ==
  ASSUME NEW e, NEW p \in Endpoint
  PROVE  KeepsKeys(p, Rebuilt(p, e))
<1> DEFINE key == p.key
<1>1. key \in {"real", ""}
  BY DEF Endpoint
<1> HIDE DEF key
<1>2. WithKey(e, p, key, mock).key = key
  BY <1>1, WithKeyFields, Zenon
<1>3. WithKey(e, p, key, mock).saved = p.saved
  BY <1>1, WithKeySaved, Zenon
<1> QED BY <1>2, <1>3 DEF KeepsKeys, Rebuilt, key

(* No key moves and nobody falls back.                                     *)
LEMMA AdvanceQuiet ==
  ASSUME Shape, NEW r \in Requests, NEW chain, Advance(r, chain)
  PROVE  /\ \A e \in Endpoints : KeepsKeys(ep[e], ep'[e])
         /\ \A x \in Requests : req'[x] = req[x] \/ req'[x].stage \in {"idle", "calling"}
<1>1. ASSUME NEW e \in Endpoints
      PROVE  KeepsKeys(ep[e], VisitedEndpoint(e)) /\ KeepsKeys(ep[e], ep[e])
  <2>1. ep[e] \in Endpoint /\ ep[e].key \in {"real", ""}
    BY DEF Shape, Endpoint
  <2>2. KeepsKeys(ep[e], [ep[e] EXCEPT !.health = "unhealthy"])
    BY <2>1, MarksKeepKey DEF SameKey, KeepsKeys
  <2>3. KeepsKeys(ep[e], Rebuilt(ep[e], e)) /\ KeepsKeys(ep[e], ep[e])
    BY <2>1, RebuiltKeepsKeys DEF KeepsKeys
  <2> QED BY <2>2, <2>3 DEF VisitedEndpoint
<1>2. PICK visited : ep' = [e \in Endpoints |->
                               IF e \in visited THEN VisitedEndpoint(e) ELSE ep[e]]
  BY DEF Advance
<1>3. \A e \in Endpoints : KeepsKeys(ep[e], ep'[e])
  BY <1>1, <1>2
<1>4. \E rest, via : \/ req' = [req EXCEPT ![r] = Idle]
                    \/ req' = [req EXCEPT ![r] = [stage |-> "calling", chain |-> rest,
                                                 via |-> via]]
  BY DEF Advance
<1>5. \A x \in Requests : req'[x] = req[x] \/ req'[x].stage \in {"idle", "calling"}
  BY <1>4 DEF Idle, Shape, ReqShape
<1> QED BY <1>3, <1>5

-----------------------------------------------------------------------------
(* Type correctness of the pool.  A breaker stays a breaker only because   *)
(* it is well formed, and a lock that is given back was held only because  *)
(* the request that answers a mock call is the first in the queue: the     *)
(* lock lets one request at a time fall back.                              *)
Breakers ==
    breaker \in [Endpoints -> Breaker] /\ \A e \in Endpoints : WellFormed(breaker[e])

Waits(queue, r) == \E i \in 1 .. Len(queue) : queue[i] = r

Locks ==
    /\ lock \in [Endpoints -> Seq(Requests)]
    /\ \A r \in Requests :
          /\ req[r].stage = "mocking" => lock[Current(r)] # <<>> /\ lock[Current(r)][1] = r
          /\ req[r].stage = "locking" => Waits(lock[Current(r)], r)

Modes == mock \in {"explicit", "disabled"} /\ probing \subseteq Endpoints

PoolInv == Shape /\ Breakers /\ Locks /\ Modes

(* allow_request keeps a breaker well formed.                              *)
LEMMA AfterAllowWellFormed ==
  ASSUME NEW b, WellFormed(b)
  PROVE  WellFormed(AfterAllow(b))
  BY ReadStateWellFormed, TakeSlotWellFormed DEF AfterAllow

(* A step that replaces the breaker of one endpoint.                       *)
LEMMA BreakerUpdated ==
  ASSUME Breakers, NEW e \in Endpoints, NEW b, WellFormed(b),
         breaker' = [breaker EXCEPT ![e] = b]
  PROVE  Breakers'
<1>1. b \in Breaker
  BY DEF WellFormed
<1>2. breaker' \in [Endpoints -> Breaker]
  BY <1>1 DEF Breakers
<1>3. ASSUME NEW x \in Endpoints
      PROVE  WellFormed(breaker'[x])
  <2>1. breaker'[x] = IF x = e THEN b ELSE breaker[x]
    BY DEF Breakers
  <2> QED BY <2>1 DEF Breakers
<1> QED BY <1>2, <1>3 DEF Breakers

(* A request that goes on along its chain asks the breakers it visits.     *)
LEMMA AdvanceBreakers ==
  ASSUME Breakers, NEW r, NEW chain, Advance(r, chain)
  PROVE  Breakers'
<1>1. PICK visited : breaker' = [e \in Endpoints |->
                                   IF e \in visited THEN VisitedBreaker(e) ELSE breaker[e]]
  BY DEF Advance
<1>2. ASSUME NEW e \in Endpoints
      PROVE  WellFormed(breaker'[e])
  <2>1. WellFormed(breaker[e])
    BY DEF Breakers
  <2>2. WellFormed(AfterAllow(breaker[e]))
    BY <2>1, AfterAllowWellFormed
  <2>3. WellFormed(VisitedBreaker(e))
    BY <2>2, RecordFailureWellFormed DEF VisitedBreaker
  <2> QED BY <1>1, <2>1, <2>3
<1>3. breaker' \in [Endpoints -> Breaker]
  <2>1. \A e \in Endpoints : breaker'[e] \in Breaker
    BY <1>2 DEF WellFormed
  <2> QED BY <1>1, <2>1
<1> QED BY <1>2, <1>3 DEF Breakers

(* Every step keeps the breakers well formed.                              *)
LEMMA BreakersStep ==
  ASSUME Shape, Breakers, [Next]_vars
  PROVE  Breakers'
<1>1. ASSUME NEW e \in Endpoints
      PROVE  /\ WellFormed(breaker[e])
             /\ WellFormed(ReadState(breaker[e]))
             /\ WellFormed(RecordSuccess(breaker[e]))
             /\ WellFormed(RecordFailure(breaker[e]))
             /\ WellFormed(ReadState(RecordFailure(breaker[e])))
             /\ WellFormed(Elapse(breaker[e]))
  <2>1. WellFormed(breaker[e])
    BY DEF Breakers
  <2>2. WellFormed(RecordFailure(breaker[e]))
    BY <2>1, RecordFailureWellFormed
  <2> QED BY <2>1, <2>2, ReadStateWellFormed, RecordSuccessWellFormed, ElapseWellFormed
<1>2. CASE UNCHANGED breaker
  BY <1>2 DEF Breakers
<1>3. ASSUME NEW r \in Requests, Resume(r) \/ \E e \in Endpoints : Call(r, e)
      PROVE  Breakers'
  <2>1. PICK chain : Advance(r, chain)
    BY <1>3 DEF Call, Resume
  <2> QED BY <2>1, AdvanceBreakers
<1>4. ASSUME NEW r \in Requests, Answer(r) \/ GetLock(r) \/ MockAnswer(r)
      PROVE  Breakers'
  <2> DEFINE e == Current(r)
  <2>1. e \in Endpoints
    <3>1. req[r].stage # "idle"
      BY <1>4 DEF Answer, GetLock, MockAnswer, Succeed, Crash, Reject, Fail, MockSucceed,
                  MockFail
    <3> QED BY <3>1, CurrentExists DEF Shape
  <2>2. \E p : \/ FallBack(r, e, p, breaker[e])
               \/ FallBack(r, e, p, RecordFailure(breaker[e]))
               \/ Update(e, p, RecordSuccess(breaker[e]))
               \/ Update(e, p, RecordFailure(breaker[e]))
               \/ Update(e, p, ReadState(breaker[e]))
    BY <1>4, Zenon DEF Answer, GetLock, MockAnswer, Succeed, Crash, Reject, Fail, MockSucceed,
                MockFail
  <2>3. \E b : /\ b \in {breaker[e], RecordFailure(breaker[e]), RecordSuccess(breaker[e]),
                         ReadState(breaker[e]), ReadState(RecordFailure(breaker[e]))}
               /\ breaker' = [breaker EXCEPT ![e] = b]
    BY <2>2, Zenon DEF FallBack, Update
  <2> HIDE DEF e
  <2> QED BY <1>1, <2>1, <2>3, BreakerUpdated
<1>5. ASSUME NEW e \in Endpoints, ProbeOk(e) \/ ProbeFail(e) \/ Timeout(e)
      PROVE  Breakers'
  <2>1. \E b : /\ b \in {RecordFailure(breaker[e]), RecordSuccess(breaker[e]),
                         Elapse(breaker[e])}
               /\ breaker' = [breaker EXCEPT ![e] = b]
    BY <1>5 DEF ProbeOk, ProbeFail, Timeout, Update
  <2> QED BY <1>1, <2>1, BreakerUpdated
<1>6. CASE Snapshot
  <2>1. \A e \in Endpoints : breaker'[e] = ReadState(breaker[e])
    BY <1>6 DEF Snapshot
  <2>2. \A e \in Endpoints : WellFormed(breaker'[e]) /\ breaker'[e] \in Breaker
    BY <1>1, <2>1 DEF WellFormed
  <2>3. breaker' \in [Endpoints -> Breaker]
    BY <1>6, <2>2 DEF Snapshot
  <2> QED BY <2>2, <2>3 DEF Breakers
<1>7. CASE \/ \E r \in Requests : Cancel(r)
           \/ Sweep \/ SweepTimeout \/ Reload \/ ReloadFails \/ UNCHANGED vars
           \/ \E e \in Endpoints : Toggle(e) \/ ResetBreaker(e)
  BY <1>2, <1>7
  DEF Cancel, Sweep, SweepTimeout, Toggle, ResetBreaker, Reload, ReloadFails, vars
<1> QED BY <1>3, <1>4, <1>5, <1>6, <1>7 DEF Next

(* Leaving a queue takes nobody else out of it and leaves its head alone.  *)
LEMMA LeaveQueue ==
  ASSUME NEW S, NEW q \in Seq(S), NEW r, Waits(q, r)
  PROVE  /\ Leave(q, r) \in Seq(S)
         /\ \A x : x # r /\ Waits(q, x) => Waits(Leave(q, r), x)
         /\ q[1] # r => Leave(q, r) # <<>> /\ Leave(q, r)[1] = q[1]
<1> DEFINE i == CHOOSE i \in DOMAIN q : q[i] = r
           n == Len(q)
           a == SubSeq(q, 1, i - 1)
           b == SubSeq(q, i + 1, n)
<1>1. n \in Nat /\ DOMAIN q = 1 .. n /\ \A j \in 1 .. n : q[j] \in S
  OBVIOUS
<1>2. i \in 1 .. n /\ q[i] = r
  BY <1>1 DEF Waits
<1>3. Leave(q, r) = a \o b
  BY DEF Leave
<1> HIDE DEF i, n
<1>4. /\ a \in Seq(S) /\ Len(a) = i - 1
      /\ \A j \in 1 .. i - 1 : a[j] = q[j]
  <2>1. i - 1 \in Int /\ \A j \in 1 .. i - 1 : q[j] \in S
    BY <1>1, <1>2
  <2>2. /\ a \in Seq(S) /\ Len(a) = IF 1 <= i - 1 THEN (i - 1) - 1 + 1 ELSE 0
        /\ \A j \in 1 .. (i - 1) - 1 + 1 : a[j] = q[1 + j - 1]
    BY <2>1, SubSeqProperties
  <2> HIDE DEF a
  <2>3. \A j \in 1 .. i - 1 : 1 + j - 1 = j
    OBVIOUS
  <2> QED BY <1>1, <1>2, <2>2, <2>3
<1>5. /\ b \in Seq(S) /\ Len(b) = n - i
      /\ \A j \in 1 .. n - i : b[j] = q[i + j]
  <2>1. i + 1 \in Int /\ n \in Int /\ \A j \in i + 1 .. n : q[j] \in S
    BY <1>1, <1>2
  <2>2. /\ b \in Seq(S) /\ Len(b) = IF i + 1 <= n THEN n - (i + 1) + 1 ELSE 0
        /\ \A j \in 1 .. n - (i + 1) + 1 : b[j] = q[i + 1 + j - 1]
    BY <2>1, SubSeqProperties
  <2> HIDE DEF b
  <2>3. \A j \in 1 .. n - i : i + 1 + j - 1 = i + j
    BY <1>1, <1>2
  <2> QED BY <1>1, <1>2, <2>2, <2>3
<1> HIDE DEF a, b
<1> DEFINE c == a \o b
<1>6. /\ c \in Seq(S) /\ Len(c) = n - 1
      /\ \A j \in 1 .. n - 1 : c[j] = IF j < i THEN q[j] ELSE q[j + 1]
  <2>1. /\ c \in Seq(S) /\ Len(c) = Len(a) + Len(b)
        /\ \A j \in 1 .. Len(a) + Len(b) :
              c[j] = IF j <= Len(a) THEN a[j] ELSE b[j - Len(a)]
    BY <1>4, <1>5, ConcatProperties
  <2> HIDE DEF c
  <2>2. ASSUME NEW j \in 1 .. n - 1
        PROVE  c[j] = IF j < i THEN q[j] ELSE q[j + 1]
    <3>1. CASE j < i
      <4>1. j \in 1 .. i - 1 /\ j <= Len(a) /\ j \in 1 .. Len(a) + Len(b)
        BY <1>1, <1>2, <1>4, <1>5, <3>1
      <4> QED BY <1>4, <2>1, <3>1, <4>1
    <3>2. CASE ~ (j < i)
      <4>1. j - (i - 1) \in 1 .. n - i /\ ~ (j <= Len(a)) /\ j \in 1 .. Len(a) + Len(b)
        BY <1>1, <1>2, <1>4, <1>5, <3>2
      <4>2. c[j] = b[j - (i - 1)]
        BY <1>4, <2>1, <4>1
      <4>3. i + (j - (i - 1)) = j + 1
        BY <1>1, <1>2
      <4> QED BY <1>5, <3>2, <4>1, <4>2, <4>3
    <3> QED BY <3>1, <3>2
  <2> QED BY <1>1, <1>2, <1>4, <1>5, <2>1, <2>2
<1> HIDE DEF c
<1>7. ASSUME NEW x, x # r, Waits(q, x)
      PROVE  Waits(c, x)
  <2>1. PICK j \in 1 .. n : q[j] = x
    BY <1>7 DEF Waits, n
  <2>2. CASE j < i
    <3>1. j \in 1 .. n - 1 /\ c[j] = x
      BY <1>1, <1>2, <1>6, <2>1, <2>2
    <3> QED BY <1>6, <3>1 DEF Waits
  <2>3. CASE ~ (j < i)
    <3>1. j # i
      BY <1>2, <1>7, <2>1
    <3>2. j - 1 \in 1 .. n - 1 /\ ~ (j - 1 < i) /\ j - 1 + 1 = j
      BY <1>1, <1>2, <2>1, <2>3, <3>1
    <3>3. c[j - 1] = x
      BY <1>6, <2>1, <3>2
    <3> QED BY <1>6, <3>2, <3>3 DEF Waits
  <2> QED BY <2>2, <2>3
<1>8. ASSUME q[1] # r
      PROVE  c # <<>> /\ c[1] = q[1]
  <2>1. 1 < i /\ 1 \in 1 .. n - 1
    BY <1>1, <1>2, <1>8
  <2>2. Len(c) # 0
    BY <1>1, <1>6, <2>1
  <2> QED BY <1>6, <2>1, <2>2
<1> QED BY <1>3, <1>6, <1>7, <1>8 DEF c

(* Joining a queue keeps everybody in it, and its head unless it was empty.*)
LEMMA JoinQueue ==
  ASSUME NEW S, NEW q \in Seq(S), NEW r \in S
  PROVE  /\ Append(q, r) \in Seq(S) /\ Waits(Append(q, r), r)
         /\ \A x : Waits(q, x) => Waits(Append(q, r), x)
         /\ q # <<>> => Append(q, r) # <<>> /\ Append(q, r)[1] = q[1]
<1> DEFINE c == Append(q, r)
<1>1. /\ c \in Seq(S) /\ c # <<>> /\ Len(c) = Len(q) + 1 /\ c[Len(q) + 1] = r
      /\ \A i \in 1 .. Len(q) : c[i] = q[i]
  BY AppendProperties
<1> HIDE DEF c
<1>2. Len(q) \in Nat /\ (q # <<>> => 1 \in 1 .. Len(q))
  BY EmptySeq
<1>3. Waits(c, r)
  BY <1>1, <1>2 DEF Waits
<1>4. ASSUME NEW x, Waits(q, x)
      PROVE  Waits(c, x)
  BY <1>1, <1>2, <1>4 DEF Waits
<1> QED BY <1>1, <1>2, <1>3, <1>4 DEF c

(* The head of a queue is given its turn to the next.                      *)
LEMMA NextInQueue ==
  ASSUME NEW S, NEW q \in Seq(S), q # <<>>
  PROVE  /\ Tail(q) \in Seq(S) /\ Head(q) = q[1]
         /\ \A x : x # q[1] /\ Waits(q, x) => Waits(Tail(q), x)
<1>1. /\ Tail(q) \in Seq(S) /\ Len(Tail(q)) = Len(q) - 1
      /\ \A i \in 1 .. Len(Tail(q)) : Tail(q)[i] = q[i + 1]
  BY HeadTailProperties
<1>2. ASSUME NEW x, x # q[1], Waits(q, x)
      PROVE  Waits(Tail(q), x)
  <2>1. PICK i \in 1 .. Len(q) : q[i] = x
    BY <1>2 DEF Waits
  <2>2. i # 1 /\ Len(q) \in Nat
    BY <1>2, <2>1
  <2>3. i - 1 \in 1 .. Len(Tail(q)) /\ i - 1 + 1 = i
    BY <1>1, <2>1, <2>2
  <2> QED BY <1>1, <2>1, <2>3 DEF Waits
<1>3. Head(q) = q[1]
  OBVIOUS
<1> QED BY <1>1, <1>2, <1>3

(* A step that gives or takes no lock.                                     *)
LEMMA LocksUnchanged ==
  ASSUME Locks, lock' = lock,
         \A x \in Requests :
            req'[x] = req[x] \/ req'[x].stage \in {"idle", "calling", "backoff"}
  PROVE  Locks'
<1>1. \A x \in Requests : req'[x] = req[x] => Current(x)' = Current(x)
  BY DEF Current
<1> QED BY <1>1 DEF Locks

(* A step of request r that changes the queue of its endpoint from         *)
(* lock[Current(r)] to q.                                                  *)
LEMMA QueueChanged ==
  ASSUME Locks, Shape, NEW r \in Requests, req[r].stage # "idle",
         NEW q \in Seq(Requests), lock' = [lock EXCEPT ![Current(r)] = q],
         \A x \in Requests : x # r => req'[x] = req[x],
         \A x \in Requests : x # r /\ lock[Current(r)] # <<>> /\ lock[Current(r)][1] = x
            => (q # <<>> /\ q[1] = x) \/ req[x].stage # "mocking",
         \A x : x # r /\ Waits(lock[Current(r)], x) => Waits(q, x),
         req'[r].chain = req[r].chain \/ req'[r].stage \in {"idle", "calling", "backoff"},
         req'[r].stage = "mocking" => q # <<>> /\ q[1] = r,
         req'[r].stage = "locking" => Waits(q, r)
  PROVE  Locks'
<1> DEFINE e == Current(r)
<1>1. e \in Endpoints /\ lock \in [Endpoints -> Seq(Requests)]
  BY CurrentExists DEF Locks, Shape
<1>2. lock' \in [Endpoints -> Seq(Requests)]
      /\ \A x \in Endpoints : lock'[x] = IF x = e THEN q ELSE lock[x]
  BY <1>1
<1>3. ASSUME NEW x \in Requests, req'[x].stage \in {"mocking", "locking"}
      PROVE  /\ req'[x].stage = "mocking" =>
                   lock'[Current(x)'] # <<>> /\ lock'[Current(x)'][1] = x
             /\ req'[x].stage = "locking" => Waits(lock'[Current(x)'], x)
  <2>1. CASE x = r
    <3>1. Current(x)' = e
      BY <1>3, <2>1 DEF Current
    <3> QED BY <1>1, <1>2, <2>1, <3>1
  <2>2. CASE x # r
    <3>1. req'[x] = req[x] /\ Current(x)' = Current(x)
      BY <2>2 DEF Current
    <3>2. Current(x) \in Endpoints
      BY <1>3, <3>1, CurrentExists DEF Shape
    <3> HIDE DEF e
    <3>3. CASE Current(x) = e
      <4>1. lock'[Current(x)] = q
        BY <1>2, <3>2, <3>3
      <4> QED BY <2>2, <3>1, <3>3, <4>1 DEF Locks, e
    <3>4. CASE Current(x) # e
      <4>1. lock'[Current(x)] = lock[Current(x)]
        BY <1>2, <3>2, <3>4
      <4> QED BY <3>1, <4>1 DEF Locks
    <3> QED BY <3>3, <3>4
  <2> QED BY <2>1, <2>2
<1> QED BY <1>2, <1>3 DEF Locks

(* A request that finishes, or gives up an attempt.                        *)
LEMMA LeavesStage ==
  ASSUME Shape, NEW r \in Requests, Finish(r) \/ Become(r, "backoff")
  PROVE  /\ req'[r].stage \in {"idle", "backoff"}
         /\ \A x \in Requests : x # r => req'[x] = req[x]
<1>1. CASE Finish(r)
  BY <1>1 DEF Finish, Idle, Shape, ReqShape
<1>2. CASE Become(r, "backoff")
  BY <1>2, StageFields DEF Become, Shape
<1> QED BY <1>1, <1>2

(* The lock is given back.                                                 *)
LEMMA Unlocked ==
  ASSUME Locks, Shape, NEW r \in Requests, req[r].stage # "idle",
         lock[Current(r)] # <<>>, lock[Current(r)][1] = r,
         lock' = [lock EXCEPT ![Current(r)] = Tail(@)],
         Finish(r) \/ Become(r, "backoff")
  PROVE  Locks'
<1> DEFINE q == lock[Current(r)]
<1>1. Current(r) \in Endpoints /\ q \in Seq(Requests)
  BY CurrentExists DEF Locks, Shape
<1>2. Tail(q) \in Seq(Requests) /\ \A x : x # q[1] /\ Waits(q, x) => Waits(Tail(q), x)
  BY <1>1, NextInQueue
<1>3. lock' = [lock EXCEPT ![Current(r)] = Tail(q)]
  BY <1>1 DEF Locks
<1>4. /\ req'[r].stage \in {"idle", "backoff"}
      /\ \A x \in Requests : x # r => req'[x] = req[x]
  BY LeavesStage
<1>5. \A x \in Requests : x # r => q[1] # x
  OBVIOUS
<1>6. \A x : x # r /\ Waits(q, x) => Waits(Tail(q), x)
  BY <1>2
<1>7. Tail(q) \in Seq(Requests)
  BY <1>2
<1> DEFINE rest == Tail(q)
<1> HIDE DEF rest
<1> QED BY <1>3, <1>4, <1>5, <1>6, <1>7, QueueChanged DEF rest

(* The 401 fallback, by a request that has the lock or finds it free.      *)
LEMMA FallBackLocks ==
  ASSUME Locks, Shape, NEW r \in Requests, req[r].stage \in {"calling", "locking"},
         NEW p \in Endpoint, NEW b, FallBack(r, Current(r), p, b),
         lock[Current(r)] = <<>> \/ lock[Current(r)][1] = r
  PROVE  Locks'
<1> DEFINE e == Current(r)
           k == [p EXCEPT !.saved = p.key]
           aside == WithKey(e, k, "", mock)
<1>1. e \in Endpoints /\ lock[e] \in Seq(Requests)
  BY CurrentExists DEF Locks, Shape
<1>2. CASE aside.backend # "none"
  <2> DEFINE q == IF lock[e] = <<>> THEN <<r>> ELSE lock[e]
  <2>1. /\ req' = [req EXCEPT ![r].stage = "mocking", ![r].via = aside.backend]
        /\ lock' = [lock EXCEPT ![e] = q]
    <3>1. lock' = [lock EXCEPT ![e] = IF @ = <<>> THEN <<r>> ELSE @]
      BY <1>2 DEF FallBack
    <3>2. req' = [req EXCEPT ![r].stage = "mocking", ![r].via = aside.backend]
      BY <1>2 DEF FallBack
    <3> QED BY <1>1, <3>1, <3>2 DEF Locks
  <2>2. aside.backend \in {"real", "mock", "none"}
    <3>1. k \in Endpoint
      BY DEF Endpoint
    <3> HIDE DEF k
    <3>2. aside \in Endpoint
      BY <3>1, WithKeyFields, Zenon
    <3> QED BY <3>2 DEF Endpoint
  <2> HIDE DEF aside
  <2>3. /\ req'[r].stage = "mocking"
        /\ \A x \in Requests : req'[x].chain = req[x].chain
        /\ \A x \in Requests : x # r => req'[x] = req[x]
    BY <2>1, <2>2, StageFields DEF Shape
  <2>4. q \in Seq(Requests) /\ q # <<>> /\ q[1] = r
    BY <1>1
  <2>5. \A x : x # r /\ Waits(lock[e], x) => Waits(q, x)
    BY DEF Waits
  <2>6. lock[e] # <<>> => q = lock[e]
    OBVIOUS
  <2> HIDE DEF q
  <2> QED BY <2>1, <2>3, <2>4, <2>5, <2>6, QueueChanged
<1>3. CASE ~ (aside.backend # "none")
  <2>1. Become(r, "backoff") /\ lock' = [lock EXCEPT ![e] = IF @ = <<>> THEN @ ELSE Tail(@)]
    BY <1>3 DEF FallBack
  <2>2. CASE lock[e] = <<>>
    <3>1. lock' = lock
      BY <1>1, <2>1, <2>2 DEF Locks
    <3> QED BY <2>1, <3>1, LeavesStage, LocksUnchanged
  <2>3. CASE lock[e] # <<>>
    <3>1. lock' = [lock EXCEPT ![e] = Tail(@)]
      BY <1>1, <2>1, <2>3 DEF Locks
    <3> QED BY <2>1, <2>3, <3>1, Unlocked
  <2> QED BY <2>2, <2>3
<1> QED BY <1>2, <1>3

(* Every step keeps the locks in order.                                    *)
LEMMA LocksStep ==
  ASSUME Shape, Locks, [Next]_vars
  PROVE  Locks'
<1>1. ASSUME NEW r \in Requests, Resume(r) \/ \E e \in Endpoints : Call(r, e)
      PROVE  Locks'
  <2>1. PICK chain : Advance(r, chain)
    BY <1>1 DEF Call, Resume
  <2>2. \A x \in Requests : req'[x] = req[x] \/ req'[x].stage \in {"idle", "calling"}
    BY <2>1, AdvanceQuiet
  <2>3. lock' = lock
    BY <1>1 DEF Call, Resume
  <2> QED BY <2>2, <2>3, LocksUnchanged
<1>2. ASSUME NEW r \in Requests, Succeed(r) \/ Crash(r) \/ \E auth \in BOOLEAN : Fail(r, auth)
      PROVE  Locks'
  <2>1. lock' = lock /\ (Finish(r) \/ Become(r, "backoff"))
    BY <1>2 DEF Succeed, Crash, Fail
  <2> QED BY <2>1, LeavesStage, LocksUnchanged
<1>3. ASSUME NEW r \in Requests, MockSucceed(r) \/ MockFail(r)
      PROVE  Locks'
  <2>1. /\ req[r].stage = "mocking" /\ (Finish(r) \/ Become(r, "backoff"))
        /\ lock' = [lock EXCEPT ![Current(r)] = Tail(@)]
    BY <1>3 DEF MockSucceed, MockFail, Unlock
  <2>2. lock[Current(r)] # <<>> /\ lock[Current(r)][1] = r
    BY <2>1 DEF Locks
  <2> QED BY <2>1, <2>2, Unlocked
<1>4. ASSUME NEW r \in Requests, Reject(r)
      PROVE  Locks'
  <2> DEFINE e == Current(r)
             q == Append(lock[e], r)
  <2>1. req[r].stage = "calling" /\ e \in Endpoints
    BY <1>4, CurrentExists DEF Reject, Shape
  <2>2. ep[e] \in Endpoint /\ lock[e] \in Seq(Requests)
    BY <2>1 DEF Shape, Locks
  <2>3. CASE lock[e] = <<>>
    <3>1. MarkFailure(ep[e]) \in Endpoint
      BY <2>2, MarksKeepKey DEF SameKey
    <3>2. FallBack(r, e, MarkFailure(ep[e]), RecordFailure(breaker[e]))
      BY <1>4, <2>3 DEF Reject
    <3> QED BY <2>1, <2>3, <3>1, <3>2, FallBackLocks
  <2>4. CASE lock[e] # <<>>
    <3>1. lock' = [lock EXCEPT ![e] = q] /\ Become(r, "locking")
      BY <1>4, <2>1, <2>4 DEF Reject, Locks
    <3>2. /\ req'[r].stage = "locking" /\ req'[r].chain = req[r].chain
          /\ \A x \in Requests : x # r => req'[x] = req[x]
      BY <3>1, StageFields DEF Become, Shape
    <3>3. /\ q \in Seq(Requests) /\ Waits(q, r)
          /\ \A x : Waits(lock[e], x) => Waits(q, x)
          /\ q # <<>> /\ q[1] = lock[e][1]
      BY <2>2, <2>4, JoinQueue
    <3> HIDE DEF q
    <3>4. \A x \in Requests : x # r /\ lock[e] # <<>> /\ lock[e][1] = x
             => (q # <<>> /\ q[1] = x) \/ req[x].stage # "mocking"
      BY <3>3
    <3>5. \A x : x # r /\ Waits(lock[e], x) => Waits(q, x)
      BY <3>3
    <3> HIDE DEF e
    <3> QED BY <2>1, <3>1, <3>2, <3>3, <3>4, <3>5, QueueChanged DEF e
  <2> QED BY <2>3, <2>4
<1>5. ASSUME NEW r \in Requests, GetLock(r)
      PROVE  Locks'
  <2> DEFINE e == Current(r)
  <2>1. /\ req[r].stage = "locking" /\ Head(lock[e]) = r
        /\ FallBack(r, e, ep[e], breaker[e])
    BY <1>5 DEF GetLock
  <2>2. e \in Endpoints /\ ep[e] \in Endpoint /\ lock[e] \in Seq(Requests)
    BY <2>1, CurrentExists DEF Shape, Locks
  <2>3. lock[e] # <<>> => lock[e][1] = r
    BY <2>1, <2>2, NextInQueue
  <2> QED BY <2>1, <2>2, <2>3, FallBackLocks
<1>6. ASSUME NEW r \in Requests, Cancel(r)
      PROVE  Locks'
  <2> DEFINE e == Current(r)
             q == Leave(lock[e], r)
  <2>1. req[r].stage # "idle" /\ Finish(r) /\ e \in Endpoints /\ lock[e] \in Seq(Requests)
    BY <1>6, CurrentExists DEF Cancel, Shape, Locks
  <2>2. CASE req[r].stage = "mocking"
    <3>1. lock' = [lock EXCEPT ![e] = Tail(@)]
      BY <1>6, <2>2 DEF Cancel
    <3>2. lock[e] # <<>> /\ lock[e][1] = r
      BY <2>2 DEF Locks
    <3> QED BY <2>1, <3>1, <3>2, Unlocked
  <2>3. CASE req[r].stage = "locking"
    <3>1. lock' = [lock EXCEPT ![e] = Leave(@, r)]
      BY <1>6, <2>3 DEF Cancel
    <3>2. lock' = [lock EXCEPT ![e] = q]
      BY <2>1, <3>1 DEF Locks
    <3>3. /\ req'[r].stage \in {"idle", "backoff"}
          /\ \A x \in Requests : x # r => req'[x] = req[x]
      BY <2>1, LeavesStage
    <3>4. Waits(lock[e], r)
      BY <2>3 DEF Locks
    <3>5. /\ q \in Seq(Requests)
          /\ \A x : x # r /\ Waits(lock[e], x) => Waits(q, x)
          /\ lock[e][1] # r => q # <<>> /\ q[1] = lock[e][1]
      BY <2>1, <3>4, LeaveQueue
    <3> HIDE DEF q
    <3>6. \A x \in Requests : x # r /\ lock[e] # <<>> /\ lock[e][1] = x
             => (q # <<>> /\ q[1] = x) \/ req[x].stage # "mocking"
      BY <3>5
    <3>7. \A x : x # r /\ Waits(lock[e], x) => Waits(q, x)
      BY <3>5
    <3> QED BY <2>1, <3>2, <3>3, <3>5, <3>6, <3>7, QueueChanged
  <2>4. CASE req[r].stage \notin {"mocking", "locking"}
    <3>1. req[r].stage \in {"calling", "backoff"}
      BY <2>1, <2>4 DEF Shape, ReqShape, Request
    <3>2. lock' = lock
      BY <1>6, <3>1 DEF Cancel
    <3> QED BY <2>1, <3>2, LeavesStage, LocksUnchanged
  <2> QED BY <2>2, <2>3, <2>4
<1>7. CASE Housekeeping \/ Reload \/ ReloadFails \/ UNCHANGED vars
  <2>1. UNCHANGED <<req, lock>>
    BY <1>7, HousekeepingKeepsKeys DEF Reload, ReloadFails, vars
  <2> QED BY <2>1, LocksUnchanged
<1> QED
  BY <1>1, <1>2, <1>3, <1>4, <1>5, <1>6, <1>7 DEF Next, Answer, MockAnswer, Housekeeping

(* The parts together are inductive, and give the types.                   *)
LEMMA PoolInvInit == Init => PoolInv
<1> SUFFICES ASSUME Init PROVE PoolInv
  OBVIOUS
<1>1. Shape
  BY MockInvInit DEF MockInv
<1>2. Breakers
  BY NewBreakerWellFormed DEF Init, Breakers, WellFormed
<1>3. lock \in [Endpoints -> Seq(Requests)]
  BY DEF Init
<1>4. Locks
  BY <1>3 DEF Init, Locks, Idle
<1>5. Modes
  BY DEF Init, Modes
<1> QED BY <1>1, <1>2, <1>4, <1>5 DEF PoolInv

LEMMA PoolInvStep ==
  ASSUME PoolInv, [Next]_vars
  PROVE  PoolInv'
<1>1. Shape' /\ Breakers' /\ Locks'
  BY ShapeKept, BreakersStep, LocksStep DEF PoolInv
<1>2. mock' \in {"explicit", "disabled"}
  <2>1. CASE Reload \/ ReloadFails
    BY <2>1 DEF Reload, ReloadFails
  <2>2. CASE ~ (Reload \/ ReloadFails)
    BY <2>2, StepShape DEF PoolInv, Modes
  <2> QED BY <2>1, <2>2
<1>3. probing' \subseteq Endpoints
  <2>1. CASE UNCHANGED probing
    BY <2>1 DEF PoolInv, Modes
  <2>2. CASE \/ Sweep \/ SweepTimeout
             \/ \E e \in Endpoints : ProbeOk(e) \/ ProbeFail(e)
    BY <2>2 DEF PoolInv, Modes, Sweep, SweepTimeout, ProbeOk, ProbeFail
  <2> QED BY <2>1, <2>2, Zenon
          DEF Next, vars, Call, Answer, Succeed, Fail, Crash, Reject, GetLock, MockAnswer,
              MockSucceed, MockFail, Resume, Cancel, Timeout, Toggle, ResetBreaker, Snapshot,
              Reload, ReloadFails
<1> QED BY <1>1, <1>2, <1>3 DEF PoolInv, Modes

(* In every reachable state, whatever disturbs the pool.                   *)
THEOREM PoolInductive == Spec => []PoolInv
<1>1. PoolInv /\ [Next]_vars => PoolInv'
  BY PoolInvStep
<1> QED BY PoolInvInit, <1>1, PTL DEF Spec

(* Type correctness of the pool, with all the disturbances.                *)
THEOREM TypeCorrect == Spec => []TypeOK
<1>1. PoolInv => TypeOK
  BY DEF PoolInv, Shape, ReqShape, Breakers, Locks, Modes, TypeOK
<1> QED BY <1>1, PoolInductive, PTL

(* One fallback per endpoint at a time, for any number of requests.        *)
THEOREM FallbacksExclude == Spec => []OneFallback
<1>1. PoolInv => OneFallback
  BY DEF PoolInv, Locks, OneFallback
<1> QED BY <1>1, PoolInductive, PTL

-----------------------------------------------------------------------------
(* The keys.  As long as no two requests wait for an endpoint's lock, the  *)
(* one that waits finds the key that it has seen rejected: only fallbacks  *)
(* take a key away, nobody but the waiter can start one, and whatever else *)
(* happens, a reload or a failure, puts the real key back.                 *)
KeySafe ==
    /\ \A e \in Keyed : ep[e].saved # "" /\ "real" \in {ep[e].key, ep[e].saved}
    /\ \A r \in Requests :
          req[r].stage = "locking" /\ Current(r) \in Keyed => ep[Current(r)].key = "real"

NoneWaitsAt(e) == \A r \in Requests : ~ (req[r].stage = "locking" /\ Current(r) = e)

LEMMA KeySafeInit == Init => KeySafe
<1> SUFFICES ASSUME Init PROVE KeySafe
  OBVIOUS
<1>1. \A e \in Endpoints : ep[e].saved = "none" /\ ep[e].key = ConfiguredKey(e)
  BY DEF Init, NewEndpoint
<1>2. \A r \in Requests : req[r].stage # "locking"
  BY DEF Init, Idle
<1> QED BY <1>1, <1>2, PoolAssumption DEF KeySafe, ConfiguredKey

(* A step keeps the keys safe if it leaves each of them alone, puts it     *)
(* back, or puts it aside when nobody waits for the lock.                  *)
LEMMA KeySafeStep ==
  ASSUME KeySafe,
         \A e \in Keyed :
            \/ KeepsKeys(ep[e], ep'[e])
            \/ ep'[e].key = "real" /\ ep'[e].saved # ""
            \/ ep'[e].saved = "real" /\ NoneWaitsAt(e)',
         \A x \in Requests : req'[x].stage = "locking" =>
            \/ req'[x] = req[x]
            \/ ep'[Current(x)'].key = "real"
  PROVE  KeySafe'
<1>1. \A e \in Keyed : ep'[e].saved # "" /\ "real" \in {ep'[e].key, ep'[e].saved}
  BY DEF KeySafe, KeepsKeys
<1>2. ASSUME NEW x \in Requests, req'[x].stage = "locking", Current(x)' \in Keyed
      PROVE  ep'[Current(x)'].key = "real"
  <2>1. CASE req'[x] = req[x]
    <3>1. Current(x)' = Current(x) /\ ep[Current(x)].key = "real" /\ Current(x) \in Keyed
      BY <1>2, <2>1 DEF Current, KeySafe
    <3>2. ~ NoneWaitsAt(Current(x))'
      BY <1>2, <3>1 DEF NoneWaitsAt
    <3> QED BY <3>1, <3>2 DEF KeepsKeys
  <2> QED BY <1>2, <2>1
<1> QED BY <1>1, <1>2 DEF KeySafe

(* A step that moves no key and makes nobody wait.                         *)
LEMMA KeySafeQuiet ==
  ASSUME KeySafe,
         \A e \in Endpoints : KeepsKeys(ep[e], ep'[e]),
         \A x \in Requests : req'[x] = req[x] \/ req'[x].stage \in {"idle", "calling", "backoff"}
  PROVE  KeySafe'
<1>1. \A e \in Keyed : KeepsKeys(ep[e], ep'[e])
  BY PoolAssumption
<1> QED BY <1>1, KeySafeStep

(* The endpoint that a step updates is the only one that changes.          *)
LEMMA UpdatedKeys ==
  ASSUME Shape, NEW e \in Endpoints, NEW p, NEW b, Update(e, p, b)
  PROVE  /\ ep'[e] = p
         /\ \A x \in Endpoints : x # e => KeepsKeys(ep[x], ep'[x])
         /\ SameKey(ep[e], p) => \A x \in Endpoints : KeepsKeys(ep[x], ep'[x])
  BY DEF Shape, Update, SameKey, KeepsKeys

(* A fallback of the only request that has something to fall back from.    *)
LEMMA FallBackKeys ==
  ASSUME KeySafe, Shape, NEW r \in Requests, req[r].stage \in {"calling", "locking"},
         NEW p \in Endpoint, NEW b, FallBack(r, Current(r), p, b),
         Current(r) \in Keyed => p.key = "real",
         \A x \in Requests : x # r => ~ (req[x].stage = "locking" /\ Current(x) = Current(r))
  PROVE  KeySafe'
<1> DEFINE e == Current(r)
           k == [p EXCEPT !.saved = p.key]
           aside == WithKey(e, k, "", mock)
<1>1. e \in Endpoints
  BY CurrentExists DEF Shape
<1>2. k \in Endpoint /\ k.saved = p.key
  BY DEF Endpoint
<1> HIDE DEF k
<1>3. aside \in Endpoint /\ aside.key = ""
  BY <1>2, WithKeyFields, Zenon
<1>4. aside.saved = p.key
  <2>1. aside.saved = k.saved
    BY <1>2, WithKeySaved, Zenon
  <2> QED BY <1>2, <2>1
<1>5. \/ /\ Update(e, aside, b)
         /\ req' = [req EXCEPT ![r].stage = "mocking", ![r].via = aside.backend]
      \/ /\ Update(e, SyncHealth(WithKey(e, aside, aside.saved, mock), ReadState(b)),
                   ReadState(b))
         /\ Become(r, "backoff")
  BY DEF FallBack, k
<1> HIDE DEF aside
<1>6. CASE Update(e, aside, b) /\ req' = [req EXCEPT ![r].stage = "mocking",
                                                    ![r].via = aside.backend]
  <2>1. aside.backend \in {"real", "mock", "none"}
    BY <1>3 DEF Endpoint
  <2>2. req'[r].stage = "mocking" /\ \A x \in Requests : x # r => req'[x] = req[x]
    BY <1>6, <2>1, StageFields DEF Shape
  <2>3. ASSUME NEW x \in Requests, req'[x].stage = "locking", Current(x)' = e
        PROVE  FALSE
    <3>1. x # r /\ req'[x] = req[x]
      BY <2>2, <2>3
    <3>2. req[x].stage = "locking" /\ Current(x) = e
      BY <2>3, <3>1 DEF Current
    <3> QED BY <3>1, <3>2
  <2>4. ep'[e] = aside /\ \A x \in Endpoints : x # e => KeepsKeys(ep[x], ep'[x])
    BY <1>1, <1>6, UpdatedKeys
  <2>5. \A x \in Keyed : x # e => KeepsKeys(ep[x], ep'[x])
    BY <2>4, PoolAssumption
  <2>6. e \in Keyed => ep'[e].saved = "real"
    BY <1>4, <2>4
  <2>7. \A x \in Requests : req'[x].stage = "locking" => req'[x] = req[x]
    BY <2>2
  <2>8. \A x \in Keyed :
           \/ KeepsKeys(ep[x], ep'[x])
           \/ ep'[x].saved = "real" /\ NoneWaitsAt(x)'
    BY <2>3, <2>5, <2>6 DEF NoneWaitsAt
  <2> QED BY <2>7, <2>8, KeySafeStep
<1>7. CASE /\ Update(e, SyncHealth(WithKey(e, aside, aside.saved, mock), ReadState(b)),
                     ReadState(b))
           /\ Become(r, "backoff")
  <2> DEFINE back == WithKey(e, aside, p.key, mock)
  <2>1. p.key \in {"real", ""}
    BY DEF Endpoint
  <2>2. back \in Endpoint /\ back.key = p.key
    BY <1>3, <2>1, WithKeyFields, Zenon
  <2>3. back.saved = aside.saved
    BY <1>3, <2>1, WithKeySaved, Zenon
  <2>4. Update(e, SyncHealth(back, ReadState(b)), ReadState(b))
    BY <1>4, <1>7
  <2> HIDE DEF back
  <2>5. SyncHealth(back, ReadState(b)).key = p.key
        /\ SyncHealth(back, ReadState(b)).saved = p.key
    BY <1>4, <2>2, <2>3, SyncKeepsKey DEF SameKey
  <2>6. /\ ep'[e].key = p.key /\ ep'[e].saved = p.key
        /\ \A x \in Endpoints : x # e => KeepsKeys(ep[x], ep'[x])
    BY <1>1, <2>4, <2>5, UpdatedKeys
  <2>7. \A x \in Keyed : x # e => KeepsKeys(ep[x], ep'[x])
    BY <2>6, PoolAssumption
  <2>8. \A x \in Requests : req'[x].stage = "locking" => req'[x] = req[x]
    BY <1>7, LeavesStage
  <2> HIDE DEF e
  <2>9. e \in Keyed => ep'[e].key = "real" /\ ep'[e].saved # ""
    BY <2>6 DEF e
  <2> QED BY <2>7, <2>8, <2>9, KeySafeStep
<1> QED BY <1>5, <1>6, <1>7

(* The answers of chat calls.                                              *)
LEMMA AnswerKeys ==
  ASSUME KeySafe, Shape, Locks, OneWaits,
         NEW r \in Requests, Answer(r) \/ GetLock(r) \/ MockAnswer(r)
  PROVE  KeySafe'
<1> DEFINE e == Current(r)
<1>1. e \in Endpoints /\ ep[e] \in Endpoint /\ ep[e].key \in {"real", ""}
  <2>1. req[r].stage # "idle"
    BY DEF Answer, GetLock, MockAnswer, Succeed, Crash, Reject, Fail, MockSucceed, MockFail
  <2> QED BY <2>1, CurrentExists DEF Shape, Endpoint
<1>2. SameKey(ep[e], MarkSuccess(ep[e])) /\ SameKey(ep[e], MarkFailure(ep[e]))
  BY <1>1, MarksKeepKey
<1>3. ASSUME NEW p, NEW b, SameKey(ep[e], p), Update(e, p, b),
             Finish(r) \/ Become(r, "backoff")
      PROVE  KeySafe'
  <2>1. \A x \in Endpoints : KeepsKeys(ep[x], ep'[x])
    BY <1>1, <1>3, UpdatedKeys
  <2>2. \A x \in Requests :
           req'[x] = req[x] \/ req'[x].stage \in {"idle", "calling", "backoff"}
    BY <1>3, LeavesStage
  <2> QED BY <2>1, <2>2, KeySafeQuiet
<1>4. CASE Succeed(r) \/ MockSucceed(r) \/ Crash(r)
  BY <1>2, <1>3, <1>4 DEF Succeed, MockSucceed, Crash
<1>5. ASSUME NEW auth \in BOOLEAN, Fail(r, auth) PROVE KeySafe'
  <2> DEFINE b == RecordFailure(breaker[e])
  <2>1. SameKey(MarkFailure(ep[e]), SyncHealth(MarkFailure(ep[e]), b))
    BY <1>2, SyncKeepsKey DEF SameKey
  <2>2. SameKey(ep[e], SyncHealth(MarkFailure(ep[e]), b))
    BY <1>2, <2>1, SameKeyTransitive
  <2>3. Update(e, SyncHealth(MarkFailure(ep[e]), b), b) /\ Become(r, "backoff")
    BY <1>5 DEF Fail
  <2> HIDE DEF b
  <2> QED BY <1>3, <2>2, <2>3
<1>6. CASE Reject(r)
  <2> DEFINE p == MarkFailure(ep[e])
  <2>1. ep[e].key = "real" /\ req[r].stage = "calling"
    BY <1>1, <1>6 DEF Reject
  <2>2. p \in Endpoint /\ p.key = "real"
    BY <1>2, <2>1 DEF SameKey
  <2>3. CASE lock[e] = <<>>
    <3>1. FallBack(r, e, p, RecordFailure(breaker[e]))
      BY <1>6, <2>3 DEF Reject
    <3>2. \A x \in Requests : ~ (req[x].stage = "locking" /\ Current(x) = e)
      BY <2>3 DEF Locks, Waits
    <3> HIDE DEF p
    <3> QED BY <2>1, <2>2, <3>1, <3>2, FallBackKeys
  <2>4. CASE lock[e] # <<>>
    <3>1. Update(e, p, RecordFailure(breaker[e])) /\ Become(r, "locking")
      BY <1>6, <2>4 DEF Reject
    <3>2. /\ req'[r].chain = req[r].chain
          /\ \A x \in Requests : x # r => req'[x] = req[x]
      BY <3>1, StageFields DEF Become, Shape
    <3>3. ep'[e] = p /\ \A x \in Endpoints : KeepsKeys(ep[x], ep'[x])
      BY <1>1, <1>2, <3>1, UpdatedKeys
    <3>4. Current(r)' = e
      BY <3>2 DEF Current
    <3>5. ep'[Current(r)'].key = "real"
      BY <2>2, <3>3, <3>4
    <3>6. \A x \in Keyed : KeepsKeys(ep[x], ep'[x])
      BY <3>3, PoolAssumption
    <3> HIDE DEF e, p
    <3> QED BY <3>2, <3>5, <3>6, KeySafeStep
  <2> QED BY <2>3, <2>4
<1>7. CASE GetLock(r)
  <2>1. req[r].stage = "locking" /\ FallBack(r, e, ep[e], breaker[e])
    BY <1>7 DEF GetLock
  <2>2. e \in Keyed => ep[e].key = "real"
    BY <2>1 DEF KeySafe
  <2>3. \A x \in Requests : x # r => ~ (req[x].stage = "locking" /\ Current(x) = e)
    BY <2>1 DEF OneWaits
  <2> QED BY <1>1, <2>1, <2>2, <2>3, FallBackKeys
<1>8. CASE MockFail(r)
  <2> DEFINE b    == ReadState(breaker[e])
             back == WithKey(e, ep[e], ep[e].saved, mock)
  <2>1. Update(e, SyncHealth(back, b), b) /\ Become(r, "backoff")
    BY <1>8 DEF MockFail
  <2>2. ep[e].saved \in {"real", ""} /\ (e \in Keyed => ep[e].saved = "real")
    BY <1>1, <1>8 DEF MockFail, Shape, ReqShape, Endpoint, KeySafe
  <2>3. back \in Endpoint /\ back.key = ep[e].saved
    BY <1>1, <2>2, WithKeyFields, Zenon
  <2>4. back.saved = ep[e].saved
    <3> DEFINE p   == ep[e]
               key == p.saved
    <3>1. p \in Endpoint /\ key \in {"real", ""}
      BY <1>1, <2>2
    <3> HIDE DEF e, p, key
    <3>2. WithKey(e, p, key, mock).saved = p.saved
      BY <3>1, WithKeySaved, Zenon
    <3> QED BY <3>2 DEF p, key
  <2> HIDE DEF back
  <2>5. SyncHealth(back, b).key = ep[e].saved /\ SyncHealth(back, b).saved = ep[e].saved
    BY <2>3, <2>4, SyncKeepsKey DEF SameKey
  <2>6. /\ ep'[e].key = ep[e].saved /\ ep'[e].saved = ep[e].saved
        /\ \A x \in Endpoints : x # e => KeepsKeys(ep[x], ep'[x])
    BY <1>1, <2>1, <2>5, UpdatedKeys
  <2>7. \A x \in Keyed : x # e => KeepsKeys(ep[x], ep'[x])
    BY <2>6, PoolAssumption
  <2>8. \A x \in Requests : req'[x].stage = "locking" => req'[x] = req[x]
    BY <2>1, LeavesStage
  <2>9. e \in Keyed => ep'[e].key = "real" /\ ep'[e].saved # ""
    BY <2>2, <2>6
  <2> HIDE DEF e
  <2> QED BY <2>7, <2>8, <2>9, KeySafeStep
<1> QED BY <1>4, <1>5, <1>6, <1>7, <1>8 DEF Answer, MockAnswer

LEMMA KeySafeNext ==
  ASSUME KeySafe, PoolInv, OneWaits, [Next]_vars
  PROVE  KeySafe'
<1>0. Shape /\ Locks
  BY DEF PoolInv
<1>1. ASSUME NEW r \in Requests, Resume(r) \/ \E e \in Endpoints : Call(r, e)
      PROVE  KeySafe'
  <2>1. PICK chain : Advance(r, chain)
    BY <1>1 DEF Call, Resume
  <2> QED BY <1>0, <2>1, AdvanceQuiet, KeySafeQuiet
<1>2. ASSUME NEW r \in Requests, Cancel(r)
      PROVE  KeySafe'
  <2>1. ep' = ep /\ Finish(r)
    BY <1>2 DEF Cancel
  <2>2. \A x \in Requests :
           req'[x] = req[x] \/ req'[x].stage \in {"idle", "calling", "backoff"}
    BY <1>0, <2>1, LeavesStage
  <2> QED BY <2>1, <2>2, KeySafeQuiet DEF KeepsKeys
<1>3. CASE Housekeeping
  <2>1. req' = req /\ \A e \in Endpoints : KeepsKeys(ep[e], ep'[e])
    BY <1>0, <1>3, HousekeepingKeepsKeys DEF SameKey, KeepsKeys
  <2> QED BY <2>1, KeySafeQuiet
<1>4. CASE ReloadFails \/ UNCHANGED vars
  <2>1. UNCHANGED <<req, ep>>
    BY <1>4 DEF ReloadFails, vars
  <2> QED BY <2>1, KeySafeQuiet DEF KeepsKeys
<1>5. CASE Reload
  <2>1. PICK mode : ep' = [e \in Endpoints |-> WithKey(e, ep[e], ConfiguredKey(e), mode)]
    BY <1>5 DEF Reload
  <2>2. req' = req
    BY <1>5 DEF Reload
  <2>3. ASSUME NEW e \in Keyed
        PROVE  ep'[e].key = "real" /\ ep'[e].saved # ""
    <3>1. e \in Endpoints /\ ep[e] \in Endpoint /\ ConfiguredKey(e) = "real"
      BY <1>0, PoolAssumption DEF Shape, ConfiguredKey
    <3>2. ep'[e] = WithKey(e, ep[e], ConfiguredKey(e), mode)
      BY <2>1, <3>1
    <3>3. ep'[e].saved = ep[e].saved /\ ep'[e].key = ConfiguredKey(e)
      BY <3>1, <3>2, ConfiguredFields
    <3> QED BY <3>1, <3>3 DEF KeySafe
  <2> QED BY <2>2, <2>3, KeySafeStep
<1>6. ASSUME NEW r \in Requests, Answer(r) \/ GetLock(r) \/ MockAnswer(r)
      PROVE  KeySafe'
  BY <1>0, <1>6, AnswerKeys
<1> QED BY <1>1, <1>2, <1>3, <1>4, <1>5, <1>6 DEF Next, Housekeeping

(* model_pool.py:160, 752-786: the real key of an endpoint is always in    *)
(* one of the two places it can be restored from, whatever requests,       *)
(* cancellations, reloads, failing reloads, probes and admin calls come in *)
(* which order, as long as no two requests wait for its lock at once.      *)
(* Without that it is false: OneWaits is what the code would have to see   *)
(* to, by looking at the key again when it has the lock.                   *)
THEOREM OneWaiterKeepsKey == Spec => KeyKeptWhileOneWaits
<1>1. PoolInv /\ KeySafe /\ OneWaits /\ [Next]_vars => KeySafe'
  BY KeySafeNext
<1>2. KeySafe => KeyKept
  BY DEF KeySafe, KeyKept
<1> QED BY <1>1, <1>2, KeySafeInit, PoolInductive, PTL DEF Spec, KeyKeptWhileOneWaits

-----------------------------------------------------------------------------
(* When max_retries covers the pool, the chain of a call holds every       *)
(* endpoint that is available.                                             *)
LEMMA PositionFinds ==
  ASSUME NEW e \in Endpoints
  PROVE  Position(e) \in 1 .. Len(PoolOrder) /\ PoolOrder[Position(e)] = e
<1>1. \E i \in 1 .. Len(PoolOrder) : PoolOrder[i] = e
  BY DEF Endpoints
<1> QED BY <1>1 DEF Position

(* No endpoint comes before itself.                                        *)
LEMMA BeforeIrreflexive ==
  ASSUME NEW primary, NEW e \in Endpoints
  PROVE  ~ Before(primary, e, e)
<1>1. Position(e) \in Nat /\ Group(primary, e) \in Nat
  BY PositionFinds DEF Group
<1> QED BY <1>1 DEF Before

(* A chain does not try an endpoint twice.                                 *)
LEMMA ChainDistinct ==
  ASSUME NEW primary \in Endpoints, NEW c \in Chains(primary)
  PROVE  /\ \E n \in 1 .. MaxRetries : c \in [1 .. n -> Endpoints] /\ Len(c) = n
         /\ \A i, j \in 1 .. Len(c) : i < j => c[i] # c[j]
<1>1. PICK n \in 1 .. MaxRetries : c \in [1 .. n -> Endpoints]
  BY DEF Chains
<1>2. n \in Nat /\ Len(c) = n
  BY <1>1, PoolAssumption
<1>3. ASSUME NEW i \in 1 .. n, NEW j \in 1 .. n, i < j, c[i] = c[j]
      PROVE  FALSE
  <2>1. j \in 2 .. Len(c)
    BY <1>2, <1>3
  <2>2. CASE i = 1
    <3>1. c[1] = primary /\ c[j] \in Others(primary)
      BY <2>1 DEF Chains
    <3> QED BY <1>3, <2>2, <3>1 DEF Others
  <2>3. CASE i # 1
    <3>1. i \in 2 .. Len(c)
      BY <1>2, <2>3
    <3>2. Before(primary, c[i], c[j])
      BY <1>3, <2>1, <3>1 DEF Chains
    <3> QED BY <1>1, <1>3, <3>2, BeforeIrreflexive
  <2> QED BY <2>2, <2>3
<1> QED BY <1>1, <1>2, <1>3

LEMMA ChainComplete ==
  ASSUME MaxRetries >= Len(PoolOrder), NEW primary \in Endpoints, NEW c \in Chains(primary),
         NEW x \in Endpoints, IsAvailable(ep[x])
  PROVE  \E i \in 1 .. Len(c) : c[i] = x
<1> SUFFICES ASSUME \A i \in 1 .. Len(c) : c[i] # x PROVE FALSE
  OBVIOUS
<1> DEFINE n == Len(c)
           pool == Len(PoolOrder)
<1>1. n \in 1 .. MaxRetries /\ c \in [1 .. n -> Endpoints]
      /\ \A i, j \in 1 .. n : i < j => c[i] # c[j]
  BY ChainDistinct
<1>2. MaxRetries \in Nat /\ pool \in Nat
  BY PoolAssumption
<1>3. c[1] = primary /\ 1 \in 1 .. n
  <2>1. c[1] = primary
    BY DEF Chains
  <2>2. \A k \in 1 .. MaxRetries : 1 \in 1 .. k
    BY <1>2
  <2> HIDE DEF n
  <2> QED BY <1>1, <2>1, <2>2
<1>4. x \in Others(primary) \ {c[i] : i \in 2 .. n}
  <2>1. x # primary
    BY <1>3
  <2>2. \A i \in 2 .. n : c[i] # x
    BY <1>1, <1>2
  <2> QED BY <2>1, <2>2 DEF Others
<1>5. n = MaxRetries
  BY <1>4 DEF Chains
<1> HIDE DEF n, pool
<1> DEFINE d == [i \in 1 .. n + 1 |-> IF i = n + 1 THEN x ELSE c[i]]
           f == [i \in 1 .. n + 1 |-> Position(d[i])]
<1>6. ASSUME NEW i \in 1 .. n + 1
      PROVE  d[i] \in Endpoints
  <2>1. i = n + 1 \/ i \in 1 .. n
    BY <1>1, <1>2
  <2> QED BY <1>1, <2>1
<1>7. f \in [1 .. n + 1 -> 1 .. pool]
  BY <1>6, PositionFinds DEF pool
<1>8. /\ IsFiniteSet(1 .. n + 1) /\ Cardinality(1 .. n + 1) = n + 1
      /\ IsFiniteSet(1 .. pool) /\ Cardinality(1 .. pool) = pool
  <2>1. Cardinality(1 .. n + 1) = IF 1 > n + 1 THEN 0 ELSE n + 1 - 1 + 1
    BY <1>1, <1>2, FS_Interval
  <2>2. Cardinality(1 .. pool) = IF 1 > pool THEN 0 ELSE pool - 1 + 1
    BY <1>2, FS_Interval
  <2> QED BY <1>1, <1>2, <2>1, <2>2, FS_Interval
<1>9. pool < n + 1
  BY <1>1, <1>2, <1>5 DEF pool
<1> HIDE DEF f
<1>10. PICK i, j \in 1 .. n + 1 : i # j /\ f[i] = f[j]
  BY <1>7, <1>8, <1>9, FS_PigeonHole
<1>11. d[i] = d[j]
  <2>1. f[i] = Position(d[i]) /\ f[j] = Position(d[j])
    BY DEF f
  <2> QED BY <1>6, <1>10, <2>1, PositionFinds
<1>12. \A k \in 1 .. n : c[k] # x
  BY DEF n
<1>13. /\ i = n + 1 \/ i \in 1 .. n
       /\ j = n + 1 \/ j \in 1 .. n
  BY <1>1, <1>2
<1>14. i \in 1 .. n /\ j \in 1 .. n /\ c[i] = c[j]
  BY <1>1, <1>2, <1>10, <1>11, <1>12, <1>13
<1> QED BY <1>1, <1>2, <1>10, <1>14

(* model_pool.py:556-640, 690-727: with max_retries at least the size of   *)
(* the pool, a call fails without a single attempt only when no endpoint   *)
(* of the pool could be dispatched to: the four groups of the fallback     *)
(* chain leave no available endpoint out, for any pool, whatever its       *)
(* providers and tiers.                                                    *)
THEOREM FailsFast ==
  ASSUME MaxRetries >= Len(PoolOrder)
  PROVE  Spec => FailsFastOnlyIfNoneUsable
<1>1. ASSUME PoolInv, [Next]_vars, NEW r \in Requests, NEW e \in Endpoints,
             Call(r, e), req'[r].stage = "idle", NEW x \in Endpoints, Dispatches(x)
      PROVE  FALSE
  <2>1. PICK chain \in Chains(e) : Advance(r, chain)
    BY <1>1 DEF Call
  <2>2. Len(chain) \in Nat
    BY ChainDistinct, PoolAssumption
  <2>3. \A i \in 1 .. Len(chain) : ~ Dispatches(chain[i])
    <3>1. PICK next \in 1 .. Len(chain) + 1 :
            /\ \A i \in 1 .. Len(chain) : i < next => ~ Dispatches(chain[i])
            /\ req' = [req EXCEPT ![r] =
                          IF next > Len(chain) THEN Idle
                          ELSE [stage |-> "calling",
                                chain |-> SubSeq(chain, next, Len(chain)),
                                via   |-> Rebuilt(ep[chain[next]], chain[next]).backend]]
      BY <2>1 DEF Advance
    <3>2. next > Len(chain)
      <4>1. req'[r] = IF next > Len(chain) THEN Idle
                      ELSE [stage |-> "calling",
                            chain |-> SubSeq(chain, next, Len(chain)),
                            via   |-> Rebuilt(ep[chain[next]], chain[next]).backend]
        BY <1>1, <3>1 DEF PoolInv, Shape, ReqShape
      <4> QED BY <1>1, <4>1
    <3> QED BY <2>2, <3>1, <3>2
  <2>4. IsAvailable(ep[x])
    BY <1>1 DEF Dispatches, Usable
  <2>5. \E i \in 1 .. Len(chain) : chain[i] = x
    BY <2>4, ChainComplete
  <2> QED BY <1>1, <2>3, <2>5
<1>2. PoolInv /\ [Next]_vars =>
        [\A r \in Requests, e \in Endpoints :
            Call(r, e) /\ req'[r].stage = "idle" => \A x \in Endpoints : ~ Dispatches(x)]_vars
  BY <1>1
<1> QED BY <1>2, PoolInductive, PTL DEF Spec, FailsFastOnlyIfNoneUsable
=============================================================================
