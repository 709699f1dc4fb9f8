------------------------------ MODULE QuotaShare ------------------------------
(* Quota-share selection (quota_scheduler/quota_share.py) over the saturation  *)
(* buckets, the deficit round-robin table of one group and the leased in-flight*)
(* counters (quota_scheduler/inflight.py).  A selection runs whole under the   *)
(* lock of the routing engine (routing_strategies/engine.py resolve), so it is *)
(* one step; releases, drops and time come between selections.                 *)
(* Time is relative: a counter and a request each carry what is left of their  *)
(* lease, so behaviours are unbounded.  Deficits are exact multiples of        *)
(* 1 / Scale where the code has floats.                                        *)
EXTENDS Integers, FiniteSets, FiniteSetsExt

CONSTANTS Targets,      \* the candidates of the group
          Rank,         \* their places in the list that is handed over
          Weight,       \* their normalised weights
          Conns,        \* connection ids
          Conn,         \* the connection of a target, or "" for none
          Cap,          \* max_concurrent_by_connection; 0 for no cap
          Scale,        \* units of deficit in one selection
          Lease,        \* DEFAULT_LEASE_MS, in ticks
          Requests      \* requests that can be unsettled at once

ASSUME TargetsAssumption ==
    /\ Targets # {} /\ IsFiniteSet(Targets)
    /\ Rank \in [Targets -> Nat]
    /\ \A t, u \in Targets : Rank[t] = Rank[u] => t = u
    /\ Weight \in [Targets -> Nat]
    /\ Conn \in [Targets -> Conns \cup {""}] /\ "" \notin Conns
ASSUME LimitsAssumption ==
    /\ Cap \in [Conns -> Nat] /\ Lease \in Nat \ {0} /\ Scale \in Nat \ {0}
    /\ IsFiniteSet(Requests)
    /\ \A S \in SUBSET Targets : \A t \in S :
           LET total == MapThenSumSet(LAMBDA u : Weight[u], S)
           IN  total > 0 => (Weight[t] * Scale) % total = 0

VARIABLES saturated,    \* connections with a usage window at 100%
          deficit,      \* the group's DRR table
          count,        \* in-flight count of a connection, 0 without live slot
          left,         \* ticks until a connection's whole count expires
          request       \* the requests and the connection each holds a slot of

vars == <<saturated, deficit, count, left, request>>

(* A request that was routed is "held" until its release is called; it is      *)
(* "dropped" when the caller loses the release (an abort, and every resolve of *)
(* routes/routing_strategies.py).  "late" is a release that came after the     *)
(* request's own lease; it is remembered while it may distort the count.       *)
States == {"idle", "held", "dropped", "late"}
Idle == [state |-> "idle", conn |-> "", lease |-> 0]

On(c, states) == {r \in Requests : request[r].conn = c /\ request[r].state \in states}
Fresh(r) == request[r].lease > 0

----------------------------------------------------------------------------
(* The pipeline of select_quota_share_target *)

First(S) == CHOOSE t \in S : \A u \in S : Rank[t] <= Rank[u]

\* filter_eligible_by_saturation: when all are saturated all stay eligible
Unsaturated == {t \in Targets : Conn[t] = "" \/ Conn[t] \notin saturated}
Eligible == IF Unsaturated = {} THEN Targets ELSE Unsaturated

\* partition_by_concurrency_cap: when all are at their cap all have room
AtCap(t) ==
    /\ Conn[t] # ""
    /\ Cap[Conn[t]] > 0
    /\ count[Conn[t]] >= Cap[Conn[t]]

WithRoom ==
    LET room == {t \in Eligible : ~AtCap(t)}
    IN  IF room = {} THEN Eligible ELSE room

\* apply_drr: every candidate earns its quantum, the richest pays a unit
TotalWeight(S) == MapThenSumSet(LAMBDA t : Weight[t], S)
Contested(S) == Cardinality(S) > 1 /\ TotalWeight(S) > 0
Earned_OfAll(S) ==      \* mutant: the quantum is a share of all targets' weight
    LET total == TotalWeight(Targets)
    IN  [t \in Targets |-> IF t \in S /\ Contested(S)
            THEN deficit[t] + (Weight[t] * Scale) \div total ELSE deficit[t]]

Earned(S) ==
    LET total == TotalWeight(S)
    IN  [t \in Targets |-> IF t \in S /\ Contested(S)
            THEN deficit[t] + (Weight[t] * Scale) \div total ELSE deficit[t]]

Richest(S) ==
    LET e == Earned(S)
    IN  IF Contested(S) THEN First({t \in S : \A u \in S : e[t] >= e[u]}) ELSE First(S)

Paid_OnScratch(S) ==    \* mutant: a committed selection, too, works on a copy
    deficit

Paid(S) ==
    IF Contested(S) THEN [Earned(S) EXCEPT ![Richest(S)] = @ - Scale] ELSE deficit

\* pick_by_inflight_p2c between the winner and the next of the list
Load(t) == IF Conn[t] = "" THEN 0 ELSE count[Conn[t]]
Picked(S) ==
    LET winner == Richest(S)
        next == First(S \ {winner})
    IN  IF S # {winner} /\ Load(next) < Load(winner) THEN next ELSE winner

----------------------------------------------------------------------------
Init ==
    /\ saturated = {}
    /\ deficit = [t \in Targets |-> 0]
    /\ count = [c \in Conns |-> 0]
    /\ left = [c \in Conns |-> 0]
    /\ request = [r \in Requests |-> Idle]

(* InflightTracker.increment: the new expiry is that of the whole count. *)
Increment(c) ==
    /\ count' = [d \in Conns |-> IF d = c THEN count[d] + 1 ELSE count[d]]
    /\ left' = [d \in Conns |-> IF d = c THEN Lease ELSE left[d]]

Decrement_All(c) ==         \* mutant: a release takes the slot with all it counts
    /\ count' = [d \in Conns |-> IF d = c THEN 0 ELSE count[d]]
    /\ left' = [d \in Conns |-> IF d = c THEN 0 ELSE left[d]]

(* InflightTracker.decrement with the clock of the selection: any slot there   *)
(* is was stamped at that moment or later, so it is live by that clock.        *)
Decrement(c) ==
    /\ count' = [d \in Conns |->
            IF d = c /\ count[d] > 0 THEN count[d] - 1 ELSE count[d]]
    /\ left' = [d \in Conns |-> IF d = c /\ count[d] <= 1 THEN 0 ELSE left[d]]

Select_ReleasesRichest(r) ==    \* mutant: the slot of the DRR winner is released
    /\ request[r].state = "idle"
    /\ deficit' = Paid(WithRoom)
    /\ Increment(Conn[Picked(WithRoom)])
    /\ request' = [request EXCEPT ![r] =
           [state |-> "held", conn |-> Conn[Richest(WithRoom)], lease |-> Lease]]
    /\ UNCHANGED saturated

(* A committed selection; a dry run changes nothing that is modelled. *)
Select(r) ==
    /\ request[r].state = "idle"
    /\ deficit' = Paid(WithRoom)
    /\ LET c == Conn[Picked(WithRoom)]
       IN  /\ Increment(c)
           /\ request' = [request EXCEPT
                  ![r] = [state |-> "held", conn |-> c, lease |-> Lease]]
    /\ UNCHANGED saturated

(* release(): a second call finds the flag set and does nothing. *)
Release(r) ==
    LET c == request[r].conn
    IN  /\ request[r].state = "held"
        /\ Decrement(c)
        /\ request' = [request EXCEPT ![r] =
                IF ~Fresh(r) /\ c # "" /\ count[c] > 0
                THEN [state |-> "late", conn |-> c, lease |-> 0] ELSE Idle]
        /\ UNCHANGED <<saturated, deficit>>

(* The caller loses the release. *)
Drop(r) ==
    /\ request[r].state = "held"
    /\ request' = [request EXCEPT ![r].state = "dropped"]
    /\ UNCHANGED <<saturated, deficit, count, left>>

(* BucketStore.record_usage: a window is saturated at 100%; it opens again with *)
(* a lower observation or, lazily, when its reset instant has passed.          *)
Saturate(c) ==
    /\ saturated' = saturated \cup {c}
    /\ UNCHANGED <<deficit, count, left, request>>
Reopen(c) ==
    /\ saturated' = saturated \ {c}
    /\ UNCHANGED <<deficit, count, left, request>>

(* DrrState.deficits: another group takes the place of this one, the oldest of *)
(* MAX_DRR_COMBOS.                                                             *)
Evict ==
    /\ deficit' = [t \in Targets |-> 0]
    /\ UNCHANGED <<saturated, count, left, request>>

(* A slot whose expiry has passed reads as zero wherever it is looked at.      *)
(* Requests that nothing counts any more make room for new ones.               *)
Less(n) == IF n > 0 THEN n - 1 ELSE 0
Forgotten(r) ==
    \/ request[r].state = "dropped" /\ (request[r].conn = "" \/ left'[request[r].conn] = 0)
    \/ request[r].state = "late"
       /\ \A s \in On(request[r].conn, {"held"}) : request[s].lease <= 1
Tick ==
    /\ left' = [c \in Conns |-> Less(left[c])]
    /\ count' = [c \in Conns |-> IF left[c] <= 1 THEN 0 ELSE count[c]]
    /\ request' = [r \in Requests |->
            IF Forgotten(r) THEN Idle ELSE [request[r] EXCEPT !.lease = Less(@)]]
    /\ UNCHANGED <<saturated, deficit>>

Next ==
    \/ \E r \in Requests : Select(r) \/ Release(r) \/ Drop(r)
    \/ \E c \in Conns : Saturate(c) \/ Reopen(c)
    \/ Evict
    \/ Tick

Spec == Init /\ [][Next]_vars

(* Only the clock is sure to move on. *)
FairSpec == Spec /\ WF_vars(Tick)

----------------------------------------------------------------------------
(* Properties *)

(* Types; a connection counts requests exactly while its slot is live. *)
TypeOK ==
    /\ saturated \subseteq Conns
    /\ deficit \in [Targets -> Int]
    /\ count \in [Conns -> Nat]
    /\ left \in [Conns -> 0..Lease]
    /\ request \in [Requests -> [state : States, conn : Conns \cup {""}, lease : 0..Lease]]
    /\ \A c \in Conns : count[c] > 0 <=> left[c] > 0

(* The counter of a connection shows no load that is not there: it is never    *)
(* more than the requests that were routed to it and not released             *)
(* (inflight.py increment, decrement).                                         *)
NoPhantomLoad ==
    \A c \in Conns : count[c] <= Cardinality(On(c, {"held", "dropped"}))

(* A request on the wire and within its lease is counted, and each release     *)
(* that comes after its own lease can hide one such request, not more          *)
(* (quota_share.py:277-283, the release with the clock of the selection).      *)
LoadIsCounted ==
    \A c \in Conns :
        Cardinality({r \in On(c, {"held"}) : Fresh(r)})
            <= count[c] + Cardinality(On(c, {"late"}))

(* The deficits of a group always add up to nothing, and no target is ahead of *)
(* its share or behind it by more than half a unit for each of the others,     *)
(* whatever saturation and caps did to the set that competes (apply_drr).      *)
SharesBalance ==
    LET most == Scale * (Cardinality(Targets) - 1)
    IN  /\ MapThenSumSet(LAMBDA t : deficit[t], Targets) = 0
        /\ \A t \in Targets : 2 * deficit[t] \in -most..most

Routed(r) == request[r].state = "idle" /\ request'[r].state = "held"
TakesConn(c) == \E r \in Requests : Routed(r) /\ request'[r].conn = c

(* No target with a weight and a connection of its own starves: if selections  *)
(* go on and it always has room, it is taken again and again, unless the       *)
(* group's table keeps being evicted.                                          *)
Alone(t) == Conn[t] # "" /\ \A u \in Targets \ {t} : Conn[u] # Conn[t]
NoStarvation ==
    \A t \in {u \in Targets : Weight[u] > 0 /\ Alone(u)} :
        \/ []<><<TakesConn(Conn[t])>>_vars
        \/ []<>(t \notin WithRoom)
        \/ []<><<Evict>>_vars
        \/ <>[][\A r \in Requests : ~Routed(r)]_vars

(* The aborted requests' part of a count expires with their own leases         *)
(* ("an aborted request's slot auto-expires after DEFAULT_LEASE_MS so the      *)
(* counter can never leak monotonically upward", inflight.py:5-8).             *)
AbortedExpire ==
    \A c \in Conns :
        count[c] <= Cardinality(On(c, {"held"}) \cup {r \in On(c, {"dropped"}) : Fresh(r)})
=============================================================================
