# A verification project for MoA Gateway Pro

TLA+ modules, TLC configurations and TLAPS proofs about the gateway in
`src/moa_gateway`. Paths below are relative to `src/moa_gateway` unless they
begin with `src/`. The project follows the code; where a document, a comment or
a test says something else, section 6 says so.

Contents: 1 the system, 2 what is hard about it, 3 the modules, 4 the runs,
5 the proofs, 6 where code and documents differ, 7 what is not modelled,
8 the plan.

## 1. The system

The gateway takes OpenAI-style requests over HTTP and answers them with calls
to upstream model providers: one call, or many whose answers are combined
("mixture of agents"). A Python process (FastAPI on one asyncio event loop)
holds the state; several may run side by side on one database (`--workers 4`
in `src/README.md`, several backends in `src/deploy/ha/docker-compose.ha.yml`),
optionally behind a Go proxy.

| component | state | operations | what makes it correct |
|---|---|---|---|
| circuit breaker (`ha/circuit_breaker.py`) | state, three counters, time of the last failure | `allow_request`, `record_success`, `record_failure`, `reset`, reading `state` | it trips only when earned, a probe window is bounded, ends, and cannot be closed by a late answer |
| model pool (`model_pool.py`) | endpoints (key, saved key, provider object, enabled, health), one breaker and one lock each, the mock mode | `call` along a fallback chain, the 401/403 fallback, the health sweep, toggle, reset, reload | keys survive the fallback, no mock answers in disabled mode, requests go to usable endpoints and end, endpoints recover |
| A2A tasks (`a2a/`) | one row per task (state, events, expiry) | invoke, get, cancel, lazy expiry | the row follows the state machine, ended tasks stay ended, all clients hear the same outcome, polled tasks end |
| quota share (`quota_scheduler/`, `routing_strategies/`) | in-flight counts with leases, saturation buckets, round-robin deficits | select, release, record usage, expiry, eviction | counts follow the requests on the wire, shares balance, nobody starves |
| memory (`memory/`) | turn keys, buffers, items in SQLite | turn start, writeback, sweep, flush, recall | a turn is stored once and not lost |
| MoA engine (`moa.py`) | one orchestration: its phase, its calls, its result | `execute` in ten strategies, critics, reflections, the tool loop | the cost is complete, mock output is labelled, the answer is some model's output, extras never cost the draft |
| assistant runs (`assistant/`, `routes/assistant.py`) | a file per run, background tasks, the set of active runs | create, execute, submit tool outputs, cancel, time out, sweep at start | a run is answered once, an ended run stays ended, no run stays active |
| workflows, task pipeline, orchestrator (`workflows/`, `task_pipeline.py`, `orchestrator/`) | the steps of a graph, their results | validate, run in waves, retry, heal, cancel | acyclic graphs are accepted, steps run once and in order, the verdict is true |
| dialogue rooms (`dialogue/`) | rooms, stored messages, a lock for each room | post a message, the three modes of a turn, delete | turns do not mix, everybody hears what was said, talks converge and end |
| cache (`cache/`) | three layers | get, set, invalidate | layers agree until they expire |
| graceful shutdown (`ha/graceful.py`) | a flag and a counter of requests | increment, decrement, drain | drains to zero or times out |
| API health (`health/`), failover manager (`ha/failover.py`) | further records of endpoint health | probe, purge, restore | agree with what requests see |
| storage, settings, auth, rate limits, audit, MCP, channels, compression, capability library (75 modules), routes, front ends, deployment | see `PROJECT.json` | | |

How they interact. A route calls the MoA engine or a workflow, which call
`ModelPool.call`. The pool walks a chain of endpoints; each attempt asks the
endpoint's breaker, then its availability, then awaits the provider, and
records the result in both. The health loop probes endpoints and records in the
same two places. `reload_settings` notifies the pool by a callback. Admin
routes write endpoint records directly. A2A skills run as HTTP requests and
keep their progress in the database, where other processes see it. A dialogue
turn and an assistant run are sequences of pool calls between which something
is stored. The orchestration routes run step graphs whose steps are
orchestrations, multi-modal fan-outs or commands. Quota share is one of the
routing strategies; a selection runs whole under the routing engine's lock.

## 2. What is hard about it

`PROJECT.json` lists each hazard at its line. The themes:

* **Two records of one fact.** Availability lives in `health_status` and in the
  breaker; they are updated by different calls in different orders.
* **Awaits between a check and its use**: the 401/403 fallback checks the key,
  waits for a lock and then acts; the chain is computed seconds before its
  last element is tried.
* **Callers that disappear.** A client's disconnect cancels the coroutine;
  `CancelledError` is no `Exception`, so nothing is recorded, and a probe slot,
  a lock, a task or a shared future may stay behind.
* **Read and write in two transactions** by several processes (A2A tasks,
  memory writeback), with crashes in between.
* **Late answers**: a result of a request from before a trip, a release after
  the lease's end, a completion after the expiry, a model's reply after the
  cancellation of its run.
* **Bookkeeping spread over many places**: costs, provider records and traces of
  an orchestration are added up at fourteen places in ten strategies.
* **Two algorithms that must agree**: a graph's validation and the waves that
  run it; what a deficit round gives and what it takes.

## 3. The modules

| module | what it is | code |
|---|---|---|
| `BreakerOps` | one breaker as a record and what each locked section does to it | `ha/circuit_breaker.py` |
| `CircuitBreaker` | threads sharing one breaker | the same, under concurrency |
| `ModelPool` | the pool on its event loop, with one `BreakerOps` record per endpoint | `model_pool.py`, `providers/__init__.py:158-200`, `routes/admin.py:81-118` |
| `TaskLifecycle` | abstract: tasks move along `VALID_TRANSITIONS` | `a2a/task_manager.py:39-49`, its docstring's promise |
| `A2ATasks` | gateway processes and the task table; refines `TaskLifecycle` for one process | `a2a/task_manager.py`, `a2a/protocol.py` |
| `TurnPromise` | abstract: a turn is taken once, buffered, stored | the promises in the docstrings of `memory/writeback.py` |
| `MemoryWriteback` | gateway processes and the memory tables; refines `TurnPromise` for one process | `memory/writeback.py`, `memory/store.py`, `memory/service.py`, `routes/memory.py` |
| `QuotaShare` | selections, releases and leases of one group | `quota_scheduler/quota_share.py`, `inflight.py`, `buckets.py`, `routes/routing_strategies.py` |
| `MoA` | one orchestration from `execute()` to its result | `moa.py` |
| `AssistantRuns` | gateway processes and the runs of one thread | `assistant/executor.py`, `assistant/storage.py`, `routes/assistant.py` |
| `StepOrder` | abstract: a step starts once, after all it depends on has ended | what the three schedulers promise |
| `StepGraphs` | the three schedulers of step graphs; refines `StepOrder` | `workflows/yaml_workflow.py`, `task_pipeline.py`, `orchestrator/` |
| `DialogueRooms` | one room with its lock and its turns | `dialogue/engine.py`, `dialogue/storage.py`, `routes/dialogue.py` |
| `MC...` | instances for TLC: model values and definitions for the `.cfg` files | |
| `...Proofs` | theorems and their proofs | |

Operators named `X_Something` next to `X` are variants with a plausible bug,
defined only to show that a property notices it; no specification uses them.

### BreakerOps and CircuitBreaker

`Breaker` has the fields `_state`, `_failure_count`, `_success_count`,
`_half_open_calls` and `_last_failure_time`. The clock is reduced to what the
code asks: the failure time is absent, recent, or over `recovery_timeout` ago
(`FailureAge`); `RecoveryTimeout` makes a recent one expire. The failure counter is
only compared by `>=` with its threshold, so it saturates there.

Every locked section is one operator: `ReadState` (the `state` property with
its OPEN to HALF_OPEN step), `TakeSlot`, `RecordSuccess`, `RecordFailure`.
`allow_request` takes the lock twice, so in `CircuitBreaker` it is two actions
(`Ask`, then `GetSlot` or `MissSlot`) and other threads run between them. A
caller that was let through ends with `ReportSuccess`, `ReportFailure`, or `Abandon`: the
pool drops a slot without recording anything when it skips the endpoint
afterwards or its request is cancelled. The breaker's variable is `circuit`, and
the module's specification `ThreadsSpec`, so that `PoolProofs` can extend it
next to `ModelPool`. `streak`, `probes` and `leaked` are
history variables for the properties, saturated or reset so that the state
space stays finite.

### ModelPool

One action is the code between two awaits, because the pool runs on one event
loop. A request is `idle`, `calling` (in `await chat`), `locking` (waiting for
the endpoint's lock), `mocking` (in the chat call under that lock) or in
`backoff`; `chain` is the rest of its fallback chain.

* `Call` and `Resume` run the loop of `_call_chain` up to the next await
  (`Advance`): endpoints whose breaker refuses, that are unavailable, or whose
  provider cannot be built are passed over, with the side effects the code has
  (a slot taken, `health_status` set, a failure recorded).
* `Chains` is `get_fallback_chain`: four groups by provider and tier, each in
  pool order, cut to `max_retries`, the primary first.
* `Succeed`, `Fail`, `Crash`, `Reject` are the four ways a chat call ends.
  `Reject` is a 401/403 that leads to the fallback: the key moves from
  `api_key_runtime` to `_saved_api_key` and the provider is rebuilt without it
  (`FallBack`), under the endpoint's asyncio lock, whose holder and waiters
  `lock[e]` lists.
* `Cancel` is a cancelled request: only `async with` cleans up, so it leaves
  the lock's queue, as holder or waiter (`Leave`).
* `Sweep`, `ProbeOk`, `ProbeFail`, `SweepTimeout`: `_check_all_health`.
* `Toggle`, `ResetBreaker`, `Snapshot`, `Reload`, `ReloadFails`: the admin
  routes, the status page, and `_on_settings_change` with and without a
  storage error. The constant `Disturbances` says which of these a run allows.

### TaskLifecycle and A2ATasks

`row[t]` is the sequence of states of the task's stored events; the state column is
written together with them and is its last element (`StateOf`). A gateway
process is busy with at most one request between two awaits (`job[w]`), because
the task manager is synchronous; its `threading.Lock` therefore never makes
anybody wait, and it does not reach other processes. Every database access is a
step of its own: `Load` (read and check the transition), `Write` (the `UPDATE`),
and the second read of `get_task`. `running[w]` are the handlers awaited by
`_run_skill`. `told[t]` records which terminal states clients were told.
`Expire` is the passing of `expires_at`; `StorageError` ends a request at any
access and `Restart` loses everything but the rows. The refinement mapping is
`state[t] <- StateOf(row[t])`.

### TurnPromise and MemoryWriteback

The state is the tables: `prompts` (`memory_turn_state`), `dedupe`, `messages`
and `buf` (the two buffer tables, by buffer key) and `items`. The handlers of
`routes/memory.py` never await between their database accesses, so a process is
busy with one writeback at a time (`job[w]`), but each method of `MemoryStore`
is a transaction of its own and a step here: other processes run in between,
and `Fail` (a database error or a crash) may end the request there.

* A hook's request (`Writeback` of a turn outside `RunTurns`) sweeps
  (`ListKeys`, `SweepNext`), fetches and deletes the prompt that the turn-start
  hook recorded (`Consume`, `Forget`) and enqueues. A run's request
  (`queue_writeback`, `RunTurns`) only enqueues.
* `Check`, `Reserve`, `AppendTurn`, `Count`, `Upsert`, `Decide` are the
  statements of `enqueue_writeback`; `FlushState`, `FlushMessages`, `Insert`,
  `Delete` those of `flush_buffer`, which a sweep and `Decide` both enter.
  `Upsert` writes counters computed from what `Count` has read, and keeps the
  `created_at` in the table.
* Data: the messages that a writeback carries are appended together and are one
  `Message`, the prompt is another; a chunk is a set of messages, and its
  content hash is its identity. Sizes are counted in messages. The clock is the
  flag `old` of a buffer: created `buffer_seconds` ago. `idle_deadline` is the
  last update plus `buffer_seconds` and never comes before that. Another process
  may carry an older reading of the clock in its request; the model reads it at
  each comparison. `delete_buffer` is one step: an error between its two
  `DELETE`s is left out.
* `told` and `receipt` are history: how a turn was answered, and which messages
  an accepted answer acknowledged.

The refinement mapping `Fate` calls a turn new without its key, buffered while a
message of it is in the buffer, stored when one is in an item and none in the
buffer, and else taken. `TurnPromise` promises nothing about a taken turn: a failure between
`Reserve` and `AppendTurn` leaves it there for ever.

### QuotaShare

`Select` is the whole of `select_quota_share_target`, because
`routing_strategies/engine.py` runs a selection under its lock: filter out
saturated connections (`Eligible`), then those at their cap (`WithRoom`), each
giving up when nothing is left; one deficit round (`Earned`, `Paid`); and the power of two
choices between the winner and the next in list order (`Picked`). The
winner pays also when the other one is taken. A committed selection increments
the connection's count. A dry run changes nothing and is left out.

A connection has one count with one expiry (`count`, `left`), which each
increment renews for all of it; `Tick` is the clock, in units of which
`Lease` make a lease. A request is `held` until `Release`, whose clock is that of the
selection; a release after the lease's end is remembered as `late` while it may
still distort a count. `Drop` is a request whose release is never called: an
abort, and every `POST /resolve`. `Saturate` and `Reopen` are what telemetry and time
do to the usage windows, `Evict` the loss of the group's deficits
when 200 other groups come by. Deficits are exact multiples of `1 / Scale`.

### MoA

One action is one reply (or the end of one call) and the code up to the next
await. `phase` says what is awaited; the replies of gathered references are
collected in `asked` until `Gather`; `chain` counts the endpoints that
`_call_with_fallback` may still try; `left` the rounds, stages, layers or tool rounds
to come. A reply is output of a real provider, output of the mock, or an error,
and every call chooses freely. `request.rounds`, `steps` and `tools` stand for
what presets and requests ask for.

`result` has the fields of `MoAResult` that the properties tell apart: which
references, critics and aggregator were recorded with which provider, whose
text the answer is, the cost in replies, the number of traced tool rounds, and
`mock_used`, which is derived at the end (`Answer`) from what was recorded, as
the code does. `seen`, `billed` and `ran` are history.

### AssistantRuns

The handlers and tasks of a process run between awaits as one section. A
section reads, decides and then writes one run's file; the decision and the
write are two steps (`job[w]`), because other processes come between them and
because `write_text` truncates the file first. A `Section` ends with `Write`, which does
what the section does after the write, or with `WriteFails`, which leaves the file as it was or
`torn`, as `Crash` may. `task[w][r]` is the background task of a
run, `active[w]` is `_active_run_ids`. `Claim` and `Resume` are the two halves
of a submission of tool outputs; `Expire` is the run's timeout; `Cancel` writes
the file and tells no task, so the execution overwrites it when its call
returns. `Sweep` is `cleanup_stale_runs` at the start of a process.

Messages are files too: a client's (`PostFails`), the answer's (`CallFails`) or
the one a crashing process was writing may be left half written, and then the `thread`
is torn and every listing of it raises. An execution that has started fails
then; a submission that has been claimed raises before the executor's `try`
(`Raises`): the route's task logs it, and the run's file stays `in_progress`.
`logged` remembers (as history) the runs for which that is all that happened,
until the next start's sweep.

### StepOrder and StepGraphs

`kind` chooses the scheduler, `deps` the graph. A workflow is validated by
Kahn's algorithm over sets, a pipeline by one that counts the listed
dependencies (`Waits`, `Removed`, `Accepted`), a plan is what the planner emits
(`Planned`): all steps at once, or all but the last before the last. `Launch`
starts a wave of ready steps, `Succeed`, `Again` and `Fail` are the ends of an
attempt, and `Gathered` is the return of the wave's gather. A step of a pipeline
is tried twice and then healed by another executor if its capability allows
(`Healable`, `Reports`). Failures stop a workflow after the wave (`Stops`) and
nothing else. `Cancel` is the client's disconnect. The refinement mapping calls
a pending step waiting, a running one open, and the others over.

### DialogueRooms

One room. Its lock is the queue of the requests that hold it and wait for it;
a turn that is over leaves it, wherever it stands (`Leave`, `Put`).
`Post` stores nothing when it has to wait; `Begin` stores the user's message and
reads the context: the first `HistoryLimit` messages of an ascending list
(`Oldest`). Then the turn goes on from reply to reply: `AfterSpeaker`,
`AfterThought` and `AfterTalk` are the three modes, `Decide` is the host's
choice of the next speaker, `Converge` ends a talk that comes to nothing. Storing a message
may fail (`Unstored`): that breaks the turn, and in `parallel_think` leaves the calls
of the gather running, whose `Reply` is stored all the same. `Cancel` cancels
the awaited calls as well. Rooms can be deleted at any time.

## 4. The runs

All constants are in the `.cfg` files. Bounds are on the numbers of actors,
never on the length of behaviours, except `MaxFaults` and the sizes of graphs,
rooms and orchestrations. There is one run for each component, two for the pool,
and two that show a disagreement between code and documents.

| run | instance | checks | distinct states |
|---|---|---|---|
| `breaker` | 3 threads, thresholds 2/3/2 | `ProbeBudget`, `TripIsEarned`, `NoSilentClose`, `WindowResolves` | 17,504 |
| `pool_one` | 1 endpoint with a key, 2 requests, cancel, toggle, reset, snapshot, reload | `OneFallback`, `NoMockWhenDisabled`, `KeyedRecovers`, `CallsEnd`, `KeyKeptWhileOneWaits` | 107,294 |
| `pool_failover` | 3 endpoints, 2 providers, 2 tiers, 1 request, cancel, failing reloads | `FailsFastOnlyIfNoneUsable` | 219,976 |
| `a2a` | 1 process, 2 tasks, 2 faults | `AnswersAgree`, `ImplementsLifecycle`, `PolledTasksEnd` | 12,252 |
| `memory` | 1 process, 2 hook turns of one session (one without text), 1 run turn of another, 2 faults | `AcceptedIsKept`, `LossesAreFaults`, `ImplementsPromise`, `AcceptedGetStored` | 284,508 |
| `moa` | all ten strategies, 2 references, 2 fallbacks, 1 critic round, 3 stages, 2 tool rounds | `CostIsComplete`, `TrackedMockIsLabelled`, `AnswersAreModelOutput`, `DraftSurvives`, `RequestsEnd` | 173,674 |
| `assistant` | 1 process, 2 runs of one thread, crashes, failing reads and failing writes at any time | `AnsweredOnce`, `FinalStays`, `CancelHolds`, `RunsEnd` | 7,112 |
| `quota` | 3 targets (weights 2, 1, 0) on 2 connections, one with cap 1, lease 2, 3 requests | `NoPhantomLoad`, `LoadIsCounted`, `SharesBalance`, `NoStarvation` | 102,180 |
| `quota_leak` | the same with 2 requests | violates `AbortedExpire` | |
| `steps` | 4 steps, dependencies from ten lists, the three schedulers | `RejectsNoDag`, `VerdictIsTrue`, `WorkflowInputsExist`, `ImplementsOrder`, `RunsEnd` | 480,045 |
| `dialogue` | 2 participants, 6 kinds of room, up to 3 turns, history limit 5, 1 storage fault | `TurnsDoNotMix`, `PeersAreHeard`, `ShortContextIsWhole`, `FreeTalkConverges`, `TurnsEnd` | 96,367 |
| `dialogue_question` | the same | violates `QuestionIsHeard` | |

Type correctness is proved for every instance (`TypeCorrect`, section 5); the
runs do not repeat it.

**Why the bounds are enough to see the interesting cases.**

* `breaker`: with three threads one can be between the two sections of
  `allow_request` while a second trips and a third recovers the breaker;
  `HalfOpenMaxCalls` 3 above `SuccessThreshold` 2 is the default relation and
  lets a window lose a slot and still close. `FailureThreshold` 2 separates the
  first from the last failure.
* `pool_one`: one endpoint is where requests meet; the second rejected request
  waits for the lock, and may be cancelled there, while reloads switch the mock
  mode and put the key back. Both can wait at once when the former holder calls
  again: that is when the key gets lost (section 6), so the hypothesis of
  `KeyKeptWhileOneWaits` is met in some behaviours of the run and not in others.
  A breaker with two slots can lose all of them to cancelled requests.
* `pool_failover`: three endpoints fill three of the four groups of the
  chain, one has a key and one needs none; `e1` is both keyed and in
  `NO_AUTH_PROVIDERS`, so the chat under the lock calls the real provider and
  can fail, which no other endpoint allows. Each value of `build_provider`
  occurs. `MaxRetries` covers the pool, the hypothesis of
  `FailsFastOnlyIfNoneUsable`.
* `a2a`: one process already interleaves invocations, polls and cancels of two
  tasks at every await, and two faults allow a crash during the recovery from
  another. What holds for several processes is proved for any number (section 5).
* `memory`: the buffer of the first session reaches `BufferTurns` with both
  turns, or `BufferChars` with the prompts, or grows old; with `ChunkSize` 2 a
  flush has up to two chunks, so that a failure can strike between them. The
  blank turn is one without text or one with its prompt only. Two faults let
  the recovery from a half-done flush fail too, and let `LossesAreFaults` tell
  one loss from two. For any number of turns, buffers and faults the other
  safety properties are proved (section 5).
* `moa`: two references give every mixture of a success and a failure and of a
  real and a mock provider; two fallbacks let a call fail over and run out; three stages have
  a first, a middle and a last. Requests are combined freely with strategies.
* `assistant`: two runs are one that waits for outputs, or whose file is torn,
  and one that was created meanwhile. Nothing bounds crashes and failures.
* `quota`: two targets share a connection; two of them have weights that do not
  divide each other's rounds, the third has none; the cap and the saturation of
  the other connection change who competes. Three requests are one on the wire,
  one dropped and one released late, on the same connection. `Scale` 6 makes
  every quantum exact.
* `steps`: the ten lists contain none, one, two and three dependencies, an
  unknown one, one on itself and one that is listed twice; four steps have
  graphs with chains of four, diamonds, and cycles of every length up to four.
* `dialogue`: six messages exceed the limit of 5 within two turns; a second turn
  waits and a third waits behind it; four rounds of a free talk are twice either
  limit.

**What the properties say.** `ProbeBudget`: however the two sections interleave
with trips and recoveries, one window admits at most `half_open_max_calls`.
`TripIsEarned`: failures from before a success or a recovery never count.
`NoSilentClose`: a success reported late does not close an open breaker.
`WindowResolves`: a window ends unless more of its slots leaked than it can
spare. `OneFallback`: one request at a time replaces an endpoint's provider,
whoever is cancelled while it holds the lock or waits for it.
`KeyKeptWhileOneWaits`: the fallback does not lose the real key, through
reloads, cancellations and failing chats, as long as no two requests wait for an
endpoint's lock at once; when two do, it can (section 6). `KeyedRecovers`: once
its provider works, an endpoint with a key becomes usable again and again
without an admin, even if requests leaked all its probe slots, because the
health loop's probes record successes without asking for a slot. `CallsEnd`:
every call ends, also one that waits for a lock whose holder is cancelled.
`NoMockWhenDisabled`: no mock provider survives a switch to disabled mode.
`FailsFastOnlyIfNoneUsable`: requests fail at once only when no endpoint is
usable. `AnswersAgree`: all clients hear the outcome that is in the table;
`ImplementsLifecycle`: the rows follow the state machine; `PolledTasksEnd`: a
polled task ends. `AcceptedIsKept`: what a receipt acknowledged is in the buffer
or in an item ever after, also across half-done flushes. `LossesAreFaults`: a
failure loses at most the turn its own request had reserved, never one of
another request. `ImplementsPromise`: the tables implement `TurnPromise`.
`AcceptedGetStored`: accepted turns reach the items if hooks go on writing back.

`CostIsComplete`: the cost of an answer counts every reply received on the way,
except in `compose`. `TrackedMockIsLabelled`: where every provider is recorded,
mock output is never returned unlabelled. `AnswersAreModelOutput`: no error
text, verdict or empty string becomes the answer, except in three strategies.
`DraftSurvives`: no critic, revision, reflection or tool round that fails costs
the draft. `AnsweredOnce`: a run stores one answer at most, a completed one
exactly one. `FinalStays`: a completed or failed run is never touched again.
`CancelHolds`: neither is a cancelled one, unless its model was asked already.
`RunsEnd` (of `AssistantRuns`): once the crashes stop no run stays queued or in
progress, but those that a storage error left to the log since the last start
(section 6). `NoPhantomLoad` and `LoadIsCounted` bound a count from above and
below: not more than the requests that were not released, not less than those
within their lease but for one per late release. `SharesBalance`: what a group's
targets are given is what they pay, whoever competes: the deficits add up to
nothing, and none is ahead or behind by more than half a unit for each other
target. `NoStarvation`: a weighted target with a connection of its own is taken
again and again. `RejectsNoDag`: the validation is equivalent to the definition
of an acyclic graph (and, in pipelines, no repetition). `VerdictIsTrue`: the
answer agrees with the steps. `WorkflowInputsExist`: after a failed step of a
workflow none that depends on it runs. `ImplementsOrder`: `StepOrder`. `RunsEnd`
(of `StepGraphs`): the waves never run dry before the steps. `TurnsDoNotMix`,
`PeersAreHeard`, `ShortContextIsWhole`: what is stored and heard in a room,
whatever else goes on in it. `FreeTalkConverges`: both limits of a free talk
hold. `TurnsEnd`: every message posted has a turn, which ends.

**Fairness and why the code justifies it.** `CircuitBreaker.ThreadsFairness`:
threads keep issuing requests and every admitted request ends (chat calls have
timeouts); the clock runs. Nothing obliges anybody to poll or reset.
`ModelPool.Fairness`: chat calls and probes end (client timeouts and
`probe_timeout`), `asyncio.Lock` hands over in order, sleeping tasks wake up,
the health loop repeats. The outcome of a call is free, and so are calls,
cancellations and admin actions. `KeyedRecovers` adds its own hypothesis,
`UpstreamRecovers`: from some moment on no chat call and no probe fails.
`A2ATasks.FairSpec`: a process finishes the synchronous request it is busy with,
and time passes. No skill has to return; `PolledTasksEnd` assumes that somebody
keeps asking for the task, because only `get_task` expires it.
`MemoryWriteback.FairSpec`: a process gets on with its request, and time passes.
Nobody has to write back; that hooks go on doing so is the hypothesis of
`AcceptedGetStored`, because only their sweep looks at old buffers.
`MoA.FairSpec`: every call ends; the overall timeout need not fire.
`AssistantRuns.FairSpec`: a process finishes its section, well or not, and its
sweep; a call ends by the run's timeout at the latest, and an execution has its
turn however many requests come in between, because the event loop's queue is
first in, first out (hence strong fairness); `RunsEnd` has the hypothesis that
crashes stop. `QuotaShare.FairSpec`: the clock moves on, nothing else.
`StepGraphs.FairSpec`: executors come back (timeouts, bounded loops).
`DialogueRooms.FairSpec`: a free lock wakes its first waiter, and calls end by
`participant_timeout`.

Deadlock is checked in every run but `steps` and `dialogue`, whose graph and
whose messages are used up at the end.

## 5. The proofs

All theorems hold for every value of the constants under the modules' named
assumptions: `ThresholdsArePositive`, `CallersAssumption`, `PoolAssumption`
(endpoint ids are distinct, tiers are ranks, `max_retries` is positive),
`A2AAssumption` and `MemoryAssumption` (limits are positive),
`DialogueAssumption` (participants have distinct names, none of them the model's
name for the user, the host or the host's other answers; limits are positive),
`TargetsAssumption` and `LimitsAssumption` (ranks are distinct, quanta are whole),
`MoAAssumption`, `RunsAssumption` and `GraphAssumption` (finite sets, positive
limits). TLC evaluates them in the runs.

**`PoolProofs`** is about the breaker and the pool, which use the same
operations (`BreakerOps`). It begins with lemmas about single operations: each of them
maps well-formed breakers to well-formed breakers, what it does to the counters,
and that only a reset leads from OPEN to CLOSED. Of the threads it proves
`ThreadsTypeCorrect`, `AlwaysWellFormed`, `ProbesBounded`, `TripsEarned` and
`OpenClosesOnlyByReset`. The inductive invariant is needed for two of them: `ProbesBounded`
rests on the history counter never exceeding `_half_open_calls` while the
breaker is HALF_OPEN (a request that gets its slot in a later window than it
asked in counts there), and `TripsEarned` on `_failure_count` never exceeding
the streak while CLOSED.

Of the pool it proves `TypeCorrect`, `FallbacksExclude` (`OneFallback`),
`FailsFast` (`FailsFastOnlyIfNoneUsable`), `MockOnlyWhenExplicit`
(`NoMockWhenDisabled`) and `OneWaiterKeepsKey` (`KeyKeptWhileOneWaits`).

* `TypeCorrect` and `FallbacksExclude` follow from `PoolInv`, which has four
  parts: the requests' stages and chains fit each other (`Shape`), the breakers
  are well formed (`Breakers`), who waits for a lock is in its queue and who
  holds it is the first there (`Locks`), and the mock mode and the probes have
  their types (`Modes`). `Locks` is where cancellation matters: `LeaveQueue` and
  `JoinQueue` say what a queue is after somebody has left it anywhere.
  `FallbacksExclude`: at most one request at a time is answered under the lock
  of an endpoint.
* `FailsFast` assumes that `max_retries` covers the pool. It is a pigeonhole
  argument about `Chains`: a chain lists no endpoint twice and leaves out none
  that could be tried, so it is never cut.
* `MockOnlyWhenExplicit` assumes that no reload fails on the storage
  (`"storage_error" \notin Disturbances`); section 6 shows why. The property is
  nearly inductive: what is added (`Shape`) is that a request awaiting the
  mock's answer has an endpoint at the head of its chain whose key was put aside, so
  that the rebuild after it uses a value that is there. Every step but a reload
  makes "moves" only: no saved key vanishes, and a mock provider appears only in explicit mode.
* `OneWaiterKeepsKey` is for any number of requests and all disturbances,
  reloads that fail included. Its only hypothesis is in the property: no two
  requests wait for one endpoint's lock. The invariant `KeySafe` adds to
  `KeyKept` that whoever waits for the lock finds the real key in the
  configuration. It is there when a request joins the queue, because the check
  of line 754 comes right before; only a fallback takes it away, and with no
  second waiter none begins before this one's own; a holder that ends, or a reload, puts
  it back if anything. A second waiter is what the code would need a check
  under the lock for (section 6).

**`A2ATasksProofs`** proves, for any number of processes, `TypeCorrect` and
`EventsAlwaysPath`: every `Write` appends to the sequence it has read a state that
the check allowed after that sequence's last, so the stored sequence is a path
even if another process's events are lost by it. With exactly one process
(`Workers = {only}`) it proves `OneWorkerAgrees`, `OneWorkerFinal` and
`OneWorkerImplements`: the invariant adds that what a busy process has seen is
still what the row holds, since nobody else writes it; hence its check is
still valid when it writes, and each step is a step of `TaskLifecycle` or
leaves `state` alone.

**`MemoryWritebackProofs`** proves `TypeCorrect` for any number of processes
and, with at most one (`OneWorker`), `OneWorkerKeeps` and `OneWorkerImplements`.
`AcceptedIsKept` is not inductive: that deleting a buffer loses nothing depends
on what the flush has inserted so far. The invariant `OneInv` adds, for the busy
process, `Orderly`: the transcript it has read is still the buffer's content,
what is not in `left` is stored, and the turn's key is missing at `reserve` and
present from `append` on; and, for the tables, that every message in a buffer or
an item belongs to a turn whose key is there (`Placed`, `StoredTaken`). So what
`AppendTurn` appends is new, and `Delete` deletes stored messages only. The
failure of a request keeps `OneInv` because it leaves the tables alone.

`ReservationsSuffice` is about the comment on concurrent writebacks
(`memory/writeback.py:382-383`), for any number of processes that run
concurrently, crash and retry: `NoDoubleBuffer` holds as long as no process reserves a
key that is reserved already (`LateReserve`). It tells how much of the claim the
reservation carries: everything, if its outcome were looked at. The invariant `Reserved` says
that every message in a buffer, in an item or in the transcript of a flush under way
(`Present`) is of a reserved turn, that a turn about to be appended is reserved
and has no message there, and that only one process is about to append it. All
steps but `Reserve` and `AppendTurn` are `Steady`: they add nothing to `Present`.

**`MoAProofs`** proves `TypeCorrect`, `CostsAreComplete`, `MockIsTracked`,
`AnswersAreSaid`, `ToolRunsTraced` and `DraftsSurvive` for any number of
references, rounds, stages, fallbacks and tool rounds. The invariant says for
each phase what of `billed`, `ran` and `seen` is already in the result and what
is still on its way: the cost lags behind by the good references until they are
gathered (`Costs`), the trace by the round that is running (`Traces`), the mock label
by what `asked` and the references remember (`Mocks`).

**`AssistantRunsProofs`** proves, for any number of processes and runs, `TypeCorrect` and
`ActiveExact` (`_active_run_ids` holds exactly the runs being executed), and for
one process `OneWorkerAnswersOnce`, `OneWorkerFinal` and `OneWorkerCancels`. The
first invariant says which task and which file a section may belong to
(`Fresh`, `Handed`, `First`, `Belongs`); for one process `Sequential` adds that it
finds in the file what its section has read, unless a failed write has torn it, and
`AnswersFit` that a message is in the thread only for a completed run, for a section about to
complete one or to fail one whose status could not be written, and for what a crash
left of these. Failing reads and writes end a task (`RaisesKeeps`, `WriteFailsKeeps`) and
release its run, so they need no assumption.

**`QuotaShareProofs`** proves `TypeCorrect`, `NeverPhantom`, `AliveIsCounted`
and `SharesStayBalanced`. What is needed besides the first three is `Covers`: a live slot
outlasts the lease of every held request on its connection, so nothing within
its lease is lost when it expires. Nothing is assumed of the choice of the
target there. `SharesStayBalanced` needs it: the winner of a deficit round has the
largest deficit of those that compete, so what a round pays never takes it lower
than the others allow. `SharesBalance` itself is not inductive, because the
next round may be among any subset of the targets: `Balanced` bounds the
sum of the deficits of every subset, and sums over sets (the folds of the code's
loops) are handled by an induction over finite sets.

**`StepGraphsProofs`** proves `TypeCorrect`, `NothingIsLeft` (no step is running
when the client has its answer), `AnswersAreTrue`, `InputsExist` (no step of a workflow
runs after a failed dependency) and `KeepsOrder`, the refinement of `StepOrder`,
for every graph, cyclic ones included. `Layered` carries them: a
step in a wave has its dependencies in earlier waves. `RejectsJustCycles` is the
correctness of Kahn's algorithm, as both validations have it: what it
removes can be numbered in the order of removal, and what it cannot remove
contains a step below each of its steps, which a numbering would have to
descend for ever. `NoRunIsStuck` uses it: a graph that was accepted has a
numbering, and the step with the least number of those not done is ready.

**`DialogueRoomsProofs`** proves `TypeCorrect`, `TurnsStayApart`
(`TurnsDoNotMix`), `PeersHeard` (`PeersAreHeard`), `ShortContextsWhole`
(`ShortContextIsWhole`) and `TalksConverge` (`FreeTalkConverges`), for any
number of requests, participants, rounds and storage faults, and every value of the limits.
Every step deletes the room or moves the turn of one request in one of five
ways (`Stirs`: it opens, is answered, ruled by its host, trails behind, or stores
nothing), and the parts of `DialogueInv` are preserved by each.

* `Queues`: those that wait or run are in the lock's queue, once, and who runs is
  the first; hence one turn runs at a time.
* `Serial`: stored messages are of turns that have begun, a message after one of
  a running turn is of that turn or of one that left calls behind (`Apart`), and
  then the same for any three messages (`Unmixed`). `TurnsDoNotMix` alone is
  not inductive: it says nothing of a turn that has yet to speak again.
* `Hearing`: what a running turn has said is in its history, or kept back in this
  round of thoughts.
* `Talking`: the messages at the end of a talk that are all of the last speaker
  are no more than its streak, and the last answer is `idle` rounds ago. The
  first limit then follows from a comparison of two sets (`RecentDiffer`).

The proofs led to two changes of the models, neither of which changes what the code
does in them. `SharesBalance` had a bound on the deficits (one unit) that is true of three
targets and false of four; it now grows with the number of targets. In
`NextRound` the guards of a `CASE` overlapped; TLC takes the first that holds,
logic any of them. They are an `IF` now.

**Only model-checked**: liveness, which the proof system does not reach
(`WindowResolves`, `CallsEnd`, `KeyedRecovers`, `PolledTasksEnd`,
`AcceptedGetStored`, `RequestsEnd`, `RunsEnd` twice, `NoStarvation`,
`TurnsEnd`), and `LossesAreFaults`, which counts failures. The safety of
`A2ATasks`, `MemoryWriteback` and `AssistantRuns` that is stated for one process
is proved for one process; section 6 says what several do. Every other property
of a run is a theorem.

## 6. Where code and documents differ

Shown by runs, with the quoted lines in `PROJECT.json`:

* `quota_leak`: an increment renews the lease of a connection's whole count, so
  the slots of aborted requests stay while traffic goes on, although they are
  documented to expire one by one.
* `dialogue_question`: the limit of the history keeps the oldest 100 messages
  of a room; in longer rooms the participants never see the message they are to
  answer, although the context is documented to be the complete history.

Seen while modelling. The modules contain what leads to them; a property that
would fail is stated without the case, or not stated.

Circuit breaker and pool:

* `record_failure` resets the probe counters because "otherwise
  `_half_open_calls` stays saturated and no probes are ever allowed after
  recovery_timeout" (`ha/circuit_breaker.py:111-113`). Slots taken by requests that record
  nothing (`model_pool.py:711-716`, or a cancellation during the call) are never
  returned either; after `half_open_max_calls` of them the breaker stays
  HALF_OPEN and admits nothing. `WindowResolves` says when this cannot happen.
* Between the two sections of `allow_request` the breaker may trip, and a
  request that then takes a free slot is let through an OPEN breaker. The
  budget of a window is kept all the same (`ProbesBounded`).
* The fallback logs that the original key is kept (`model_pool.py:761`), and the lock is
  there "for `_saved_api_key` race" (line 160). The check of the key (line 754)
  is made before the lock is awaited and not repeated under it. While one request
  falls back, a reload puts the key back; two more are then rejected and
  wait (or one more, and the first, which is done and calls again); the one falls
  back, and the other, finding no key, saves the empty one over the real one. It
  is gone until the next reload brings a new configuration.
  `KeyKept` is violated in the instance of `pool_one` already. `OneWaiterKeepsKey` says that
  it takes two waiting requests.
* `recovery_timeout` is "Seconds to wait before probing"
  (`ha/circuit_breaker.py:25`), but an endpoint of a no-auth provider that went
  unhealthy is never probed (`model_pool.py:421`) and gets no requests (715);
  it does not come back without an admin. `KeyedRecovers` is about the others.
* `POST /api/endpoints/{id}/reset-breaker` (`routes/admin.py:111-118`) clears
  the endpoint's health fields and leaves its breaker OPEN, although
  `src/docs/07-faq.md:157-160` and `src/docs/04-api-reference.md:240` describe
  it as resetting the breaker. `ResetBreaker` models what it does.
* `_check_one` stores `last_status_code = None` (`model_pool.py:468`) before
  `_maybe_fallback_to_mock` looks at it (498-506), so a probe that is answered
  401 never leads to the fallback described in
  `src/docs/09-auth-auto-fallback.md:14`. `ProbeFail` models that.
* `_on_settings_change` puts the new settings in force before it reads the
  storage (`model_pool.py:173-191`). If that raises, mock providers stay in
  place in disabled mode (compare `providers/__init__.py:165-166`).
  `ReloadFails` models it; `NoMockWhenDisabled` is stated without it.

A2A tasks and memory, with several processes on one database:

* `update_task` checks the transition against the row it has read and writes
  with `WHERE id = ?` only (`a2a/task_manager.py:219`), under a lock of one process. A
  second process may have ended the task in between: a terminal state changes,
  although terminal states "have no outgoing transitions" (line 10).
  `TerminalIsFinal` is proved for one process.
* The turn key is reserved "BEFORE mutating the buffer: concurrent or replayed
  writebacks for the same turn cannot double-buffer"
  (`memory/writeback.py:382-383`), but the outcome of the `INSERT OR IGNORE` is
  not looked at; two processes that have both found the key missing both buffer
  the turn, and with two workers `NoDoubleBuffer` is violated.
  `ReservationsSuffice` says when it is not, for any number of processes. Within
  one process the comment is true, because the event loop runs
  `enqueue_writeback` as a whole; the run says nothing about the race.
* `AcceptedIsKept` fails as well then: one process's `Delete` takes a
  turn with it that another has appended since the first read the buffer, and
  has answered as accepted.
* A failure after `Forget` loses the prompt, one after `Reserve` the whole turn:
  the retry is told it is a duplicate. A failure between `AppendTurn` and
  `Upsert` leaves messages that no sweep sees until the session's next turn.
  No document says otherwise; the model has all three.

Quota share:

* The power of two choices is documented "between the top two DRR candidates"
  (`quota_scheduler/quota_share.py:16-18`); the second candidate is the next in list order.
  Hence a target with weight zero gets traffic as runner-up, and a winner that
  is replaced pays all the same. `Picked` and `Paid` model that.
* With more than 200 groups in turn every group starts with fresh deficits, and
  light targets starve; `NoStarvation` excludes endless eviction.

MoA engine:

* `mock_used` is documented as true when any reference, aggregator or critic
  output came from the mock (`moa.py:94-98`). It is not set when results are
  copied without their provider (layered, single_proposer, ranker), in chain
  (the sub-results' flags are dropped), pipeline, judge's reflections,
  parallel's revisions, and when the tool loop overwrites the aggregator's
  provider. `TrackedMockIsLabelled` is about the rest.
* `compose` leaves its references out of `total_cost`. Layered, ranker and
  single_proposer count failed references as successes; compose, single_proposer,
  ranker and layered go on when all references have failed. The evaluator's "PASS" can
  become a pipeline's answer, and a pipeline without an endpoint echoes the
  question. `CostIsComplete` and `AnswersAreModelOutput` name these exceptions.

Assistant runs:

* "one active run per thread" (`routes/assistant.py:214`): the guard looks at
  queued and in_progress only, so a run may be created while another waits for
  tool outputs, whose submission makes two active ones.
* A cancellation during the model's call is overwritten by the execution's
  next save: `CancelHolds` says when it holds.
* A torn file of a run makes `create_run` fail for its thread from then on. A torn
  message (`assistant/storage.py:82`, read at 91) makes every later execution
  on its thread fail, and every submission raise.
* The claim of a submission is written before its task runs
  (`routes/assistant.py:296`). What raises in front of the executor's `try`
  (`assistant/executor.py:347-380`: a read of the assistant or the thread, the save)
  is only logged by the task (`routes/assistant.py:354-359`): the run stays `in_progress`, and
  its thread closed to new runs, until the next start's sweep. The same goes for a
  failing save of `failed`, and for a file that cannot be read at the timeout.
  `RunsEnd` names these runs (`logged`).
* A second process's start fails the runs of the first (`assistant/storage.py:149`), and
  the first completes them later: `FinalStays` and `AnsweredOnce` are proved for
  one process.

Step graphs:

* A pipeline in which a subtask lists a dependency twice is rejected as a
  cycle (`task_pipeline.py:156-168`); a workflow accepts it.
* In pipelines and plans the dependants of a failed step still run, with the
  reference to its output not replaced. A workflow drops the results of
  steps that come after the first failing one of a wave in list order.
* The orchestrator is to go on after a failed step "unless it is a critical
  aggregation step" (`orchestrator/executor.py:12-13`, in Chinese); the code goes on in
  that case too, and reports success if any step had it.
* A multi-modal subtask whose two attempts time out is not healed.
* "Possible deadlock" (`workflows/yaml_workflow.py:192`) cannot be reported of an
  accepted graph (`NoRunIsStuck`); the model has an empty wave there.
* `_topo_waves` would run the steps of a cycle together and drop what is beyond
  100 waves; the planner only emits fans, and `Planned` says so.

Dialogue rooms:

* The room is read before its lock is awaited (`routes/dialogue.py:187`,
  `dialogue/engine.py:117`), so turns that wait together get the same round number.
* When a message cannot be stored, the turn fails while its other calls run on;
  their messages are stored among those of the next turn. `TurnsDoNotMix` names
  this exception.
* A turn that runs while its room is deleted leaves messages behind, although
  deletion is described as removing the room with all its messages.

## 7. What is not modelled

`PROJECT.json` gives a reason for each component. Inside the modelled ones:

* pool: adding and removing endpoints, start and stop, the closing of replaced
  providers, streaming (which calls the provider directly and asks no breaker),
  the second sweep `start()` makes next to the loop's first, and
  all figures that no decision depends on;
* A2A: the contents of tasks, the owner check (a request of another owner is
  answered "not found" and changes nothing), batches (requests in sequence);
* memory: the deletion of items by users, skill reminders, recall and redaction,
  the overlap of adjacent chunks, and switching writeback off;
* quota share: dry runs, floating-point rounding, the headers the usage comes from;
* MoA: streaming, `evaluate`, similarity and flask scores, prompts, the choice
  of endpoints;
* assistant: assistants, threads and files as records, steps, access checks;
* step graphs: what executors do (so a command's thread that outlives its
  timeout is outside), conditions, templates, outputs;
* dialogue: the events for subscribers, the round number, mock labels, and the
  reading of the history failing after the user's message was stored, which ends the
  turn like a failure of the first call.

Of the components without a module most are I/O, text processing or pure
functions (the capability library, compression, recall, the front ends). Those
with a protocol of their own that is left out are API health management (a
second record of endpoint health, saved at clean shutdowns only), the session
lock and the deduplication of the capability library, graceful shutdown, and the Go
proxy's pool. The single flight of `cache/manager.py` is called by tests only.

## 8. The plan, and what is left of it

Done: the breaker, the pool, A2A tasks, memory writeback, quota share, the MoA
engine, assistant runs, step graphs and dialogue rooms, with theorems for the
safety properties of the runs but `LossesAreFaults`. Left, in this order:

1. `HealthRecords`: probes, purge and restore of endpoints, with crashes between
   the saves, composed with the pool's endpoints.
2. The pool's operations that are missing: adding, removing, closing.
3. What can be proved of several processes: `A2ATasks` and `MemoryWriteback`
   keep more than `EventsAlwaysPath` and `ReservationsSuffice` say when no two
   requests overlap on one task or session. Their violations by two processes
   deserve runs of their own.
