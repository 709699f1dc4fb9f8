------------------------------ MODULE ModelPool ------------------------------
(***************************************************************************)
(* moa_gateway/model_pool.py: the endpoints, the requests that call them   *)
(* along a fallback chain, the health loop, and the admin and settings     *)
(* calls that change them meanwhile.  Everything runs on one event loop:   *)
(* an action is the code between two awaits.  Each endpoint has one        *)
(* breaker (BreakerOps) and one asyncio lock for the 401/403 fallback.     *)
(*                                                                         *)
(* Left out: cooldown_until, which only the uncalled trigger_breaker sets; *)
(* the failover manager, which this file writes and never asks; costs,     *)
(* metrics and timestamps; the closing of replaced providers; adding and   *)
(* removing endpoints; the extra sweep start() makes next to the loop's.   *)
(***************************************************************************)
EXTENDS BreakerOps, Sequences, FiniteSets

CONSTANTS PoolOrder,     (* the endpoint ids in the order of pool.endpoints *)
          Provider,      (* Provider[e], Tier[e]: from the endpoint's       *)
          Tier,          (*   configuration, tiers by rank                  *)
          Keyed,         (* endpoints configured with a real API key        *)
          NoAuth,        (* endpoints whose provider is in NO_AUTH_PROVIDERS*)
          Requests,      (* concurrent calls of ModelPool.call              *)
          MaxRetries,    (* its max_retries argument                        *)
          Disturbances   (* what may happen besides calls and health checks *)

Endpoints == {PoolOrder[i] : i \in 1 .. Len(PoolOrder)}

ASSUME PoolAssumption ==
    /\ PoolOrder \in Seq(Endpoints)
    /\ \A i, j \in 1 .. Len(PoolOrder) : PoolOrder[i] = PoolOrder[j] => i = j
    /\ Tier \in [Endpoints -> Nat]
    /\ Keyed \subseteq Endpoints /\ NoAuth \subseteq Endpoints
    /\ MaxRetries \in Nat \ {0}
    /\ Disturbances \subseteq
         {"cancel", "toggle", "reset", "snapshot", "reload", "storage_error"}

VARIABLES ep,        (* ep[e]: the ModelEndpoint                            *)
          breaker,   (* breaker[e]: its entry in the breaker registry       *)
          lock,      (* lock[e]: _ep_locks[e], its holder and the waiters   *)
          mock,      (* settings.mock.mode                                  *)
          req,       (* req[r]: where request r is in _call_chain           *)
          probing    (* endpoints whose health check is in flight           *)

vars == <<ep, breaker, lock, mock, req, probing>>

(* consecutive_failures is only compared with mark_failure's literal 3.    *)
UnhealthyAfter == 3

Endpoint == [key         : {"real", ""},          (* api_key_runtime        *)
             saved       : {"none", "real", ""},  (* _saved_api_key         *)
             backend     : {"real", "mock", "none"},        (* provider_obj *)
             enabled     : BOOLEAN,
             health      : {"unknown", "healthy", "unhealthy"},
             consecutive : 0 .. UnhealthyAfter]

(* calling: in `await chat`; locking: waiting for the endpoint's lock;     *)
(* mocking: in `await chat` under that lock; backoff: asleep between two   *)
(* attempts.  chain is what is left of the fallback chain, its head the    *)
(* endpoint being tried; via the provider object that serves the attempt.  *)
Request == [stage : {"idle", "calling", "locking", "mocking", "backoff"},
            chain : Seq(Endpoints),
            via   : {"real", "mock", "none"}]

Idle == [stage |-> "idle", chain |-> <<>>, via |-> "none"]

Current(r) == Head(req[r].chain)

TypeOK ==
    /\ ep \in [Endpoints -> Endpoint]
    /\ breaker \in [Endpoints -> Breaker]
    /\ lock \in [Endpoints -> Seq(Requests)]
    /\ mock \in {"explicit", "disabled"}
    /\ req \in [Requests -> Request]
    /\ probing \subseteq Endpoints

-----------------------------------------------------------------------------
(* Endpoint records.                                                       *)

ConfiguredKey(e) == IF e \in Keyed THEN "real" ELSE ""

Backend_IgnoresMode(e, key, mode) ==
    IF key = "real" \/ e \in NoAuth THEN "real" ELSE "mock"

(* build_provider, under the mock mode of the moment.                      *)
Backend(e, key, mode) ==
    IF key = "real" \/ e \in NoAuth THEN "real"
    ELSE IF mode = "explicit" THEN "mock"
    ELSE "none"

(* Setting the runtime key is always followed by _rebuild_provider.        *)
WithKey(e, p, key, mode) ==
    [p EXCEPT !.key = key, !.backend = Backend(e, key, mode)]

NewEndpoint(e, mode) ==
    [key |-> ConfiguredKey(e), saved |-> "none",
     backend |-> Backend(e, ConfiguredKey(e), mode), enabled |-> TRUE,
     health |-> "unknown", consecutive |-> 0]

IsAvailable(p) == p.enabled /\ p.health # "unhealthy"

CountUp(n) == IF n < UnhealthyAfter THEN n + 1 ELSE n

MarkSuccess(p) == [p EXCEPT !.consecutive = 0, !.health = "healthy"]

MarkFailure(p) ==
    [p EXCEPT !.consecutive = CountUp(@),
              !.health = IF CountUp(p.consecutive) = UnhealthyAfter
                         THEN "unhealthy" ELSE @]

(* `if breaker.state == OPEN: health_status = "unhealthy"`, b already read.*)
SyncHealth(p, b) == IF b.state = "open" THEN [p EXCEPT !.health = "unhealthy"] ELSE p

-----------------------------------------------------------------------------
(* get_fallback_chain: the other available endpoints in four groups, each  *)
(* in pool order.                                                          *)
Group(primary, e) ==
    IF Provider[e] = Provider[primary]
    THEN IF Tier[e] = Tier[primary] THEN 1
         ELSE IF Tier[e] < Tier[primary] THEN 2 ELSE 4
    ELSE IF Tier[e] = Tier[primary] THEN 3 ELSE 4

Position(e) == CHOOSE i \in 1 .. Len(PoolOrder) : PoolOrder[i] = e

Before(primary, d, e) ==
    \/ Group(primary, d) < Group(primary, e)
    \/ Group(primary, d) = Group(primary, e) /\ Position(d) < Position(e)

Others_SameProvider(primary) ==
    {e \in Endpoints \ {primary} : IsAvailable(ep[e]) /\ Group(primary, e) # 4}

Others(primary) == {e \in Endpoints \ {primary} : IsAvailable(ep[e])}

(* The chain of a call, as the only member of a set: the primary, then the *)
(* others in that order, cut to max_retries.                               *)
Chains(primary) ==
    {c \in UNION {[1 .. n -> Endpoints] : n \in 1 .. MaxRetries} :
       LET tail == {c[i] : i \in 2 .. Len(c)} IN
       /\ c[1] = primary
       /\ tail \subseteq Others(primary)
       /\ \A i, j \in 2 .. Len(c) : i < j => Before(primary, c[i], c[j])
       /\ \A e \in Others(primary) \ tail :
             Len(c) = MaxRetries /\ \A d \in tail : Before(primary, d, e)}

-----------------------------------------------------------------------------
(* The loop of _call_chain runs without an await from one attempt to the   *)
(* next dispatch, passing over the endpoints it cannot use.                *)
Admitted(e)   == Allows(breaker[e])
Usable(e)     == Admitted(e) /\ IsAvailable(ep[e])
Rebuilt(p, e) == IF p.backend = "none" THEN WithKey(e, p, p.key, mock) ELSE p

Dispatches(e) == Usable(e) /\ Rebuilt(ep[e], e).backend # "none"

(* A slot taken in HALF_OPEN stays taken when the endpoint turns out not   *)
(* to be available; an endpoint whose provider cannot be built counts a    *)
(* failure.                                                                *)
VisitedBreaker(e) ==
    IF Usable(e) /\ ~ Dispatches(e) THEN RecordFailure(AfterAllow(breaker[e]))
                                    ELSE AfterAllow(breaker[e])

VisitedEndpoint(e) ==
    IF ~ Admitted(e) THEN [ep[e] EXCEPT !.health = "unhealthy"]
    ELSE IF IsAvailable(ep[e]) THEN Rebuilt(ep[e], e)
    ELSE ep[e]

(* Request r goes on with `chain`: it visits the endpoints up to the first *)
(* it can dispatch to and awaits that one's chat, or fails.                *)
Advance(r, chain) ==
    \E next \in 1 .. Len(chain) + 1 :
       LET visited == {chain[i] : i \in {j \in 1 .. Len(chain) : j <= next}} IN
       /\ \A i \in 1 .. Len(chain) : i < next => ~ Dispatches(chain[i])
       /\ next <= Len(chain) => Dispatches(chain[next])
       /\ breaker' = [e \in Endpoints |->
                         IF e \in visited THEN VisitedBreaker(e) ELSE breaker[e]]
       /\ ep' = [e \in Endpoints |->
                    IF e \in visited THEN VisitedEndpoint(e) ELSE ep[e]]
       /\ req' = [req EXCEPT ![r] =
                     IF next > Len(chain) THEN Idle
                     ELSE [stage |-> "calling",
                           chain |-> SubSeq(chain, next, Len(chain)),
                           via   |-> Rebuilt(ep[chain[next]], chain[next]).backend]]

Call(r, e) ==
    /\ req[r].stage = "idle"
    /\ \E chain \in Chains(e) : Advance(r, chain)
    /\ UNCHANGED <<lock, mock, probing>>

Resume(r) ==
    /\ req[r].stage = "backoff"
    /\ Advance(r, Tail(req[r].chain))
    /\ UNCHANGED <<lock, mock, probing>>

-----------------------------------------------------------------------------
(* The answers of a chat call.                                             *)
Update(e, p, b) == ep' = [ep EXCEPT ![e] = p] /\ breaker' = [breaker EXCEPT ![e] = b]
Become(r, stage) == req' = [req EXCEPT ![r].stage = stage, ![r].via = "none"]
Finish(r)        == req' = [req EXCEPT ![r] = Idle]
Unlock(e)        == lock' = [lock EXCEPT ![e] = Tail(@)]

Succeed(r) ==
    LET e == Current(r) IN
    /\ req[r].stage = "calling"
    /\ Update(e, MarkSuccess(ep[e]), RecordSuccess(breaker[e]))
    /\ Finish(r)
    /\ UNCHANGED <<lock, mock, probing>>

(* A ProviderError that is not an authentication error, or one that finds  *)
(* nothing to fall back from.                                              *)
Fail(r, auth) ==
    LET e == Current(r)
        b == RecordFailure(breaker[e])
    IN  /\ req[r].stage = "calling" /\ req[r].via = "real"
        /\ auth => ep[e].key = "" \/ mock = "disabled"
        /\ Update(e, SyncHealth(MarkFailure(ep[e]), b), b)
        /\ Become(r, "backoff")
        /\ UNCHANGED <<lock, mock, probing>>

(* Any other exception: the health status is not synchronised.             *)
Crash(r) ==
    LET e == Current(r) IN
    /\ req[r].stage = "calling" /\ req[r].via = "real"
    /\ Update(e, MarkFailure(ep[e]), RecordFailure(breaker[e]))
    /\ Become(r, "backoff")
    /\ UNCHANGED <<lock, mock, probing>>

(* With the lock held: the key is put aside and the provider rebuilt       *)
(* without it.  If that gives no provider the chat call fails at once, the *)
(* key is put back, and the attempt ends like any other failure.           *)
FallBack(r, e, p, b) ==
    LET aside == WithKey(e, [p EXCEPT !.saved = p.key], "", mock) IN
    IF aside.backend # "none"
    THEN /\ Update(e, aside, b)
         /\ req' = [req EXCEPT ![r].stage = "mocking", ![r].via = aside.backend]
         /\ lock' = [lock EXCEPT ![e] = IF @ = <<>> THEN <<r>> ELSE @]
    ELSE /\ Update(e, SyncHealth(WithKey(e, aside, aside.saved, mock), ReadState(b)),
                   ReadState(b))
         /\ Become(r, "backoff")
         /\ lock' = [lock EXCEPT ![e] = IF @ = <<>> THEN @ ELSE Tail(@)]

Reject_NoKeyCheck(r) ==
    LET e == Current(r)
        p == MarkFailure(ep[e])
        b == RecordFailure(breaker[e])
    IN  /\ req[r].stage = "calling" /\ req[r].via = "real"
        /\ mock = "explicit"
        /\ IF lock[e] = <<>>
           THEN FallBack(r, e, p, b)
           ELSE /\ Update(e, p, b)
                /\ lock' = [lock EXCEPT ![e] = Append(@, r)]
                /\ Become(r, "locking")
        /\ UNCHANGED <<mock, probing>>

(* 401 or 403 with a key, in explicit mode: the lock is taken at once when *)
(* it is free, and waited for otherwise; the key is not looked at again.   *)
Reject(r) ==
    LET e == Current(r)
        p == MarkFailure(ep[e])
        b == RecordFailure(breaker[e])
    IN  /\ req[r].stage = "calling" /\ req[r].via = "real"
        /\ ep[e].key # "" /\ mock = "explicit"
        /\ IF lock[e] = <<>>
           THEN FallBack(r, e, p, b)
           ELSE /\ Update(e, p, b)
                /\ lock' = [lock EXCEPT ![e] = Append(@, r)]
                /\ Become(r, "locking")
        /\ UNCHANGED <<mock, probing>>

GetLock(r) ==
    LET e == Current(r) IN
    /\ req[r].stage = "locking"
    /\ Head(lock[e]) = r
    /\ FallBack(r, e, ep[e], breaker[e])
    /\ UNCHANGED <<mock, probing>>

MockSucceed_KeepsLock(r) ==
    LET e == Current(r) IN
    /\ req[r].stage = "mocking"
    /\ Update(e, MarkSuccess(ep[e]), RecordSuccess(breaker[e]))
    /\ Finish(r)
    /\ UNCHANGED <<lock, mock, probing>>

MockSucceed(r) ==
    LET e == Current(r) IN
    /\ req[r].stage = "mocking"
    /\ Update(e, MarkSuccess(ep[e]), RecordSuccess(breaker[e]))
    /\ Finish(r)
    /\ Unlock(e)
    /\ UNCHANGED <<mock, probing>>

(* Without a key a no-auth provider is called again instead of the mock,   *)
(* and may fail: the saved key is put back.                                *)
MockFail(r) ==
    LET e == Current(r)
        b == ReadState(breaker[e])
    IN  /\ req[r].stage = "mocking" /\ req[r].via = "real"
        /\ Update(e, SyncHealth(WithKey(e, ep[e], ep[e].saved, mock), b), b)
        /\ Become(r, "backoff")
        /\ Unlock(e)
        /\ UNCHANGED <<mock, probing>>

Leave_Front(queue, r) == Tail(queue)

(* A waiter that is cancelled leaves the queue from wherever it stands.    *)
Leave(queue, r) ==
    LET i == CHOOSE i \in DOMAIN queue : queue[i] = r
    IN  SubSeq(queue, 1, i - 1) \o SubSeq(queue, i + 1, Len(queue))

(* The caller's timeout or disconnect: CancelledError passes every handler *)
(* and only `async with` cleans up.                                        *)
Cancel(r) ==
    /\ "cancel" \in Disturbances
    /\ req[r].stage # "idle"
    /\ lock' = CASE req[r].stage = "mocking" -> [lock EXCEPT ![Current(r)] = Tail(@)]
                 [] req[r].stage = "locking" ->
                      [lock EXCEPT ![Current(r)] = Leave(@, r)]
                 [] req[r].stage \in {"calling", "backoff"} -> lock
    /\ Finish(r)
    /\ UNCHANGED <<ep, breaker, mock, probing>>

-----------------------------------------------------------------------------
(* _check_all_health: one sweep probes every enabled endpoint with a key.  *)
Sweep ==
    /\ probing = {}
    /\ probing' = {e \in Endpoints : ep[e].enabled /\ ep[e].key # "" /\ ep[e].backend # "none"}
    /\ UNCHANGED <<ep, breaker, lock, mock, req>>

ProbeOk_NoRecord(e) ==
    /\ e \in probing
    /\ Update(e, MarkSuccess(ep[e]), breaker[e])
    /\ probing' = probing \ {e}
    /\ UNCHANGED <<lock, mock, req>>

ProbeOk(e) ==
    /\ e \in probing
    /\ Update(e, MarkSuccess(ep[e]), RecordSuccess(breaker[e]))
    /\ probing' = probing \ {e}
    /\ UNCHANGED <<lock, mock, req>>

(* health_check returned False, timed out or raised.  The status code that *)
(* _maybe_fallback_to_mock looks for is None in all three: no provider's   *)
(* health_check raises an HTTP status.                                     *)
ProbeFail(e) ==
    LET b == RecordFailure(breaker[e]) IN
    /\ e \in probing
    /\ Update(e, SyncHealth([ep[e] EXCEPT !.consecutive = CountUp(@)], b), b)
    /\ probing' = probing \ {e}
    /\ UNCHANGED <<lock, mock, req>>

(* probe_timeout ends the whole sweep.                                     *)
SweepTimeout ==
    /\ probing # {}
    /\ ep' = [e \in Endpoints |->
                 IF ep[e].enabled /\ ep[e].key # "" /\ ep[e].backend = "real"
                 THEN [ep[e] EXCEPT !.health = "unknown"] ELSE ep[e]]
    /\ probing' = {}
    /\ UNCHANGED <<breaker, lock, mock, req>>

-----------------------------------------------------------------------------
(* Admin routes, monitoring and settings.                                  *)
Toggle(e) ==
    /\ "toggle" \in Disturbances
    /\ ep' = [ep EXCEPT ![e].enabled = ~ @]
    /\ UNCHANGED <<breaker, lock, mock, req, probing>>

(* POST /api/endpoints/{id}/reset-breaker                                  *)
ResetBreaker(e) ==
    /\ "reset" \in Disturbances
    /\ ep' = [ep EXCEPT ![e] = MarkSuccess(@)]
    /\ UNCHANGED <<breaker, lock, mock, req, probing>>

Snapshot ==
    /\ "snapshot" \in Disturbances
    /\ breaker' = [e \in Endpoints |-> ReadState(breaker[e])]
    /\ UNCHANGED <<ep, lock, mock, req, probing>>

(* reload_settings notifies the pool, which takes the keys of the new      *)
(* settings and rebuilds every provider.  The storage overlay keeps        *)
(* `enabled` as toggled.                                                   *)
Reload ==
    /\ "reload" \in Disturbances
    /\ \E mode \in {"explicit", "disabled"} :
          /\ mock' = mode
          /\ ep' = [e \in Endpoints |-> WithKey(e, ep[e], ConfiguredKey(e), mode)]
    /\ UNCHANGED <<breaker, lock, req, probing>>

(* The pool reads the storage first: when that raises, the new settings    *)
(* are in force and no provider has been rebuilt.                          *)
ReloadFails ==
    /\ "storage_error" \in Disturbances
    /\ mock' \in {"explicit", "disabled"}
    /\ UNCHANGED <<ep, breaker, lock, req, probing>>

Timeout(e) ==
    /\ breaker[e].lastFailure = "recent"
    /\ breaker' = [breaker EXCEPT ![e] = Elapse(@)]
    /\ UNCHANGED <<ep, lock, mock, req, probing>>

-----------------------------------------------------------------------------
Init ==
    /\ mock = "explicit"
    /\ ep = [e \in Endpoints |-> NewEndpoint(e, "explicit")]
    /\ breaker = [e \in Endpoints |-> NewBreaker]
    /\ lock = [e \in Endpoints |-> <<>>]
    /\ req = [r \in Requests |-> Idle]
    /\ probing = {}

Answer(r) ==
    \/ Succeed(r) \/ Crash(r) \/ Reject(r)
    \/ \E auth \in BOOLEAN : Fail(r, auth)

MockAnswer(r) == MockSucceed(r) \/ MockFail(r)

Next ==
    \/ \E r \in Requests :
          \/ \E e \in Endpoints : Call(r, e)
          \/ Answer(r) \/ GetLock(r) \/ MockAnswer(r) \/ Resume(r) \/ Cancel(r)
    \/ Sweep \/ SweepTimeout
    \/ \E e \in Endpoints : ProbeOk(e) \/ ProbeFail(e) \/ Timeout(e)
    \/ \E e \in Endpoints : Toggle(e) \/ ResetBreaker(e)
    \/ Snapshot \/ Reload \/ ReloadFails

Spec == Init /\ [][Next]_vars

(* Chat calls and probes end (both have timeouts), asyncio locks are fair, *)
(* sleeping requests wake up, the health loop goes on and time passes.     *)
(* Nobody has to call, cancel, toggle, reset, poll or reload.              *)
Fairness ==
    /\ \A r \in Requests : /\ WF_vars(Answer(r))
                          /\ WF_vars(GetLock(r))
                          /\ WF_vars(MockAnswer(r))
                          /\ WF_vars(Resume(r))
    /\ WF_vars(Sweep)
    /\ \A e \in Endpoints : /\ WF_vars(ProbeOk(e) \/ ProbeFail(e))
                           /\ WF_vars(Timeout(e))

FairSpec == Spec /\ Fairness

-----------------------------------------------------------------------------
(* The 401 fallback takes the real key out of an endpoint's configuration: *)
(* it is always kept in one of the two places it can be restored from.     *)
(* That is what the log of the fallback says (model_pool.py:761) and what  *)
(* the lock "for _saved_api_key race" is there for (model_pool.py:160).    *)
KeyKept == \A e \in Keyed : "real" \in {ep[e].key, ep[e].saved}

OneWaits ==
    \A r, s \in Requests :
       req[r].stage = "locking" /\ req[s].stage = "locking" /\ Current(r) = Current(s)
          => r = s

(* So it is while no two requests wait for an endpoint's lock at once.     *)
(* After a reload in the middle of a fallback several may be rejected and  *)
(* queue; the second of them to get the lock does not look at the key      *)
(* again, finds none, and overwrites the saved one with it.                *)
KeyKeptWhileOneWaits == []OneWaits => []KeyKept

(* model_pool.py:160, 752-786: the lock does what its comment says: never  *)
(* are two requests at once between taking an endpoint's key aside and     *)
(* putting it back, also when holders and waiters are cancelled.           *)
OneFallback ==
    \A r, s \in Requests :
       req[r].stage = "mocking" /\ req[s].stage = "mocking" /\ Current(r) = Current(s)
          => r = s

(* "no simulated output ever leaves the gateway" with mock.mode=disabled   *)
(* (providers/__init__.py:166): no endpoint is left with a MockProvider    *)
(* once the mode is disabled, whatever fallbacks were under way.           *)
NoMockWhenDisabled == mock = "disabled" => \A e \in Endpoints : ep[e].backend # "mock"

(* When max_retries covers the pool, a call fails without having tried     *)
(* anything only if no endpoint of the pool could take it: the fallback    *)
(* groups leave none out.                                                  *)
FailsFastOnlyIfNoneUsable ==
    [][\A r \in Requests, e \in Endpoints :
          Call(r, e) /\ req'[r].stage = "idle" => \A x \in Endpoints : ~ Dispatches(x)]_vars

(* Every call returns or raises: no request waits for a lock for good.     *)
CallsEnd == \A r \in Requests : req[r].stage # "idle" ~> req[r].stage = "idle"

(* From some moment on, no chat call and no probe fails.                   *)
UpstreamRecovers ==
    <>[][~ \/ \E r \in Requests : \/ Crash(r) \/ Reject(r) \/ MockFail(r)
                                  \/ \E auth \in BOOLEAN : Fail(r, auth)
           \/ \E e \in Endpoints : ProbeFail(e)
           \/ SweepTimeout]_vars

(* Once its provider recovers, an enabled endpoint with a key is usable    *)
(* again and again without an admin: the probes of the health loop count   *)
(* as successes of its breaker, also when requests leaked its probe slots. *)
KeyedRecovers ==
    UpstreamRecovers =>
      \A e \in Endpoints : []<>(~ ep[e].enabled \/ ep[e].key = "" \/ Usable(e))
=============================================================================
