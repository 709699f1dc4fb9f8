--------------------------------- MODULE MoA ---------------------------------
(***************************************************************************)
(* moa_gateway/moa.py: one orchestration, from execute() to its result.    *)
(* Reference models are asked in parallel, an aggregator makes one answer  *)
(* of theirs, critics and reflections revise it, and an aggregator with    *)
(* tools may go on from there.  Everything is awaited under one overall    *)
(* timeout.  What the model pool answers is free at every call: output of  *)
(* a real provider, output of the mock provider, or an error.              *)
(*                                                                         *)
(* Left out: prompts, the choice of endpoints (any of the pool's may be    *)
(* missing), latencies, and streaming, which keeps no result.  A reply is  *)
(* not blank.  Costs are counted in replies.                               *)
(***************************************************************************)
EXTENDS Naturals, FiniteSets

CONSTANTS Refs,          (* places for reference models                     *)
          Strategies,    (* the strategies that requests ask for            *)
          MaxChain,      (* endpoints _call_with_fallback may try           *)
          MaxRounds,     (* critic_rounds of the presets                    *)
          MaxSteps,      (* stages of a chain or a pipeline, layers         *)
          MaxToolRounds  (* max_tool_rounds                                 *)

Extra == 2               (* MAX_EXTRA_ROUNDS *)

ASSUME MoAAssumption ==
    /\ IsFiniteSet(Refs)
    /\ Strategies \subseteq {"single", "parallel", "registered", "compose", "judge",
                             "chain", "pipeline", "layered", "single_proposer", "ranker"}
    /\ MaxChain \in Nat \ {0} /\ MaxRounds \in Nat
    /\ MaxSteps \in Nat \ {0, 1} /\ MaxToolRounds \in Nat \ {0}

VARIABLES request,       (* what the request, or its preset, asks for       *)
          phase,         (* what is awaited, or how the request ended       *)
          asked,         (* asked[r]: the reference calls of this phase     *)
          chain,         (* endpoints the running call may still try        *)
          left,          (* rounds, stages, layers or tool rounds to come   *)
          result,        (* the MoAResult                                   *)
          seen,          (* history: the kinds of output received,          *)
          billed,        (*   the number of replies received                *)
          ran            (*   and of tool rounds executed                   *)

vars == <<request, phase, asked, chain, left, result, seen, billed, ran>>

Kinds == {"real", "mock"}

Ended == {"answered", "failed", "timeout"}

(* Phases in which one call is awaited.                                    *)
Calling == {"aggregate", "criticise", "refine", "reflect", "stage", "tools"}

Requests == [strategy : Strategies, rounds : 0 .. MaxRounds, steps : 1 .. MaxSteps,
             tools : BOOLEAN]

(* A reference is recorded with its success flag and its provider.  An     *)
(* answer is output of a model, a bare verdict, the user's own message     *)
(* ("echo") or empty ("none").                                             *)
Result == [references : SUBSET [success : BOOLEAN, provider : Kinds \cup {""}],
           critics    : SUBSET (Kinds \cup {""}),
           aggregator : Kinds \cup {""},
           answer     : Kinds \cup {"verdict", "echo", "none"},
           cost       : Nat,
           trace      : Nat,
           mock       : BOOLEAN]

TypeOK ==
    /\ request \in Requests
    /\ phase \in Calling \cup Ended \cup {"start", "references", "running"}
    /\ asked \in [Refs -> {"idle", "asked", "failed"} \cup Kinds]
    /\ chain \in 0 .. MaxChain
    /\ left \in Nat
    /\ result \in Result
    /\ seen \subseteq Kinds
    /\ billed \in Nat /\ ran \in Nat

Is(strategies) == request.strategy \in strategies

Asked == {r \in Refs : asked[r] # "idle"}
Good  == {r \in Refs : asked[r] \in Kinds}

-----------------------------------------------------------------------------
(* The ways a step can end.                                                *)

(* mock_used is derived from the references, the critics and the           *)
(* aggregator as far as they were recorded with their provider.            *)
MockUsed(res) ==
    \/ [success |-> TRUE, provider |-> "mock"] \in res.references
    \/ "mock" \in res.critics
    \/ res.aggregator = "mock"

Answer(res) ==
    /\ phase' = "answered"
    /\ result' = [res EXCEPT !.mock = MockUsed(res)]
    /\ chain' = 0 /\ left' = 0

(* ProviderError or RuntimeError: nothing of the result is returned.       *)
Fail == phase' = "failed" /\ UNCHANGED <<asked, chain, left, result>>

(* A critic is asked once, every other call has a fallback chain.          *)
Call(kind, n, res) ==
    /\ phase' = kind /\ result' = res /\ left' = n
    /\ chain' \in (IF kind = "criticise" THEN {1} ELSE 1 .. MaxChain)

(* The strategy is done.  With tool names in the request the aggregator    *)
(* goes on, unless no tool is known and allowed or no endpoint is left.    *)
Done(res) ==
    \/ Answer(res)
    \/ request.tools /\ Call("tools", MaxToolRounds, res)

Round(kind, n, res) == IF n = 0 THEN Done(res) ELSE Call(kind, n, res)

(* Stages for which the pool has no endpoint are passed over.              *)
NextStage(n, res) ==
    \/ Done(res)
    \/ \E m \in 1 .. n : Call("stage", m, res)

Ask(S, n, res) ==
    /\ asked' = [r \in Refs |-> IF r \in S THEN "asked" ELSE "idle"]
    /\ phase' = "references" /\ left' = n /\ result' = res /\ chain' = 0

(* References are selected anew; when there are none the strategy raises.  *)
Select(n, res) ==
    \/ \E S \in SUBSET Refs \ {{}} : Ask(S, n, res)
    \/ Fail

Received(k) == seen' = seen \cup {k} /\ billed' = billed + 1 /\ UNCHANGED <<request, ran>>
NoReply     == UNCHANGED <<request, seen, billed, ran>>

-----------------------------------------------------------------------------
Fresh == [references |-> {}, critics |-> {}, aggregator |-> "", answer |-> "none",
          cost |-> 0, trace |-> 0, mock |-> FALSE]

Layers == IF request.steps < 2 THEN 2 ELSE request.steps

Dispatch ==
    /\ phase = "start"
    /\ \/ /\ Is({"single", "judge"})
          /\ Call("aggregate", 0, Fresh) \/ Fail
          /\ UNCHANGED asked
       \/ /\ Is({"pipeline"})
          /\ NextStage(request.steps, [Fresh EXCEPT !.answer = "echo"])
          /\ UNCHANGED asked
       \/ Is({"layered"}) /\ Select(Layers, Fresh)
       \/ Is({"chain"}) /\ Select(request.steps, Fresh)
       \/ /\ Is({"parallel", "registered", "compose", "single_proposer", "ranker"})
          /\ Select(0, Fresh)
    /\ NoReply

(* The answers of the references, each under a timeout of its own.         *)
RefReplies(r, k) ==
    /\ phase = "references" /\ asked[r] = "asked"
    /\ asked' = [asked EXCEPT ![r] = k]
    /\ Received(k)
    /\ UNCHANGED <<phase, chain, left, result>>

RefFails(r) ==
    /\ phase = "references" /\ asked[r] = "asked"
    /\ asked' = [asked EXCEPT ![r] = "failed"]
    /\ NoReply
    /\ UNCHANGED <<phase, chain, left, result>>

AllBack_WaitsForGood == phase = "references" /\ \A r \in Asked : asked[r] \in Kinds

AllBack == phase = "references" /\ \A r \in Refs : asked[r] # "asked"

Recorded_NoProvider == {[success |-> r \in Good, provider |-> ""] : r \in Asked}

Recorded ==
    {[success |-> r \in Good, provider |-> IF r \in Good THEN asked[r] ELSE ""] : r \in Asked}

(* Three strategies copy what _call_one_ref_with_messages returns, which   *)
(* is never an exception: as a success and without its provider.           *)
Copied == {[success |-> TRUE, provider |-> ""] : r \in Asked}

With(references, cost) ==
    [result EXCEPT !.references = @ \cup references, !.cost = @ + cost]

(* All failed: an error.  A registered strategy may pick an output itself. *)
Gather ==
    /\ AllBack /\ Is({"parallel", "registered", "chain"})
    /\ LET res == With(IF Is({"chain"}) THEN {} ELSE Recorded, Cardinality(Good))
       IN  IF Good = {} THEN Fail
           ELSE /\ UNCHANGED asked
                /\ \/ Call("aggregate", left, res)
                   \/ /\ Is({"registered"})
                      /\ \E r \in Good : Done([res EXCEPT !.answer = asked[r]])
    /\ NoReply

GatherAnyway ==
    /\ AllBack /\ Is({"compose", "single_proposer", "ranker"})
    /\ Call("aggregate", left, IF Is({"compose"}) THEN With(Recorded, 0)
                                                  ELSE With(Copied, Cardinality(Good)))
    /\ NoReply
    /\ UNCHANGED asked

Output(r) == IF r \in Good THEN asked[r] ELSE "none"

(* The last layer is one model, the others are the first layer's models.   *)
Layer ==
    /\ AllBack /\ Is({"layered"})
    /\ LET res == With(Copied, Cardinality(Good))
       IN  \/ /\ left = 1
              /\ \E r \in Asked : Done([res EXCEPT !.answer = Output(r)])
              /\ UNCHANGED asked
           \/ left = 2 /\ \E r \in Refs : Ask({r}, 1, res)
           \/ left > 2 /\ Ask(Asked, left - 1, res)
    /\ NoReply

-----------------------------------------------------------------------------
(* The answers of _call_with_fallback and of a critic's call.              *)
Paid == [result EXCEPT !.cost = @ + 1]
Says(k) == [Paid EXCEPT !.answer = k]
SaysAs(k) == [Says(k) EXCEPT !.aggregator = k]

Aggregate(k) ==
    /\ phase = "aggregate" /\ chain > 0
    /\ \/ /\ Is({"single"})
          /\ Done([SaysAs(k) EXCEPT !.references = {[success |-> TRUE, provider |-> k]}])
       \/ Is({"registered", "compose", "single_proposer"}) /\ Done(SaysAs(k))
       \/ Is({"judge"}) /\ Round("reflect", request.rounds, SaysAs(k))
       \/ /\ Is({"parallel"})
          /\ \E extra \in {0, IF request.rounds > 0 THEN Extra ELSE 0} :
                Round("criticise", request.rounds + extra, SaysAs(k))
       \/ Is({"ranker"}) /\ \E r \in Asked : Done([Paid EXCEPT !.answer = Output(r)])
    /\ Received(k)
    /\ UNCHANGED asked

(* One step of a chain is a whole request of strategy parallel, of which   *)
(* only the content and the cost are kept.                                 *)
ChainStep(k) ==
    /\ phase = "aggregate" /\ chain > 0 /\ Is({"chain"})
    /\ IF left = 1 THEN Done(Says(k)) /\ UNCHANGED asked
                   ELSE Select(left - 1, Says(k))
    /\ Received(k)

Criticise_Unpaid(k) ==
    /\ phase = "criticise" /\ chain > 0
    /\ LET res == [result EXCEPT !.critics = @ \cup {k}]
       IN  Done(res) \/ Call("refine", left, res)
    /\ Received(k)
    /\ UNCHANGED asked

(* A critic without issues ends the rounds.                                *)
Criticise(k) ==
    /\ phase = "criticise" /\ chain > 0
    /\ LET res == [Paid EXCEPT !.critics = @ \cup {k}]
       IN  Done(res) \/ Call("refine", left, res)
    /\ Received(k)
    /\ UNCHANGED asked

Refine(k) ==
    /\ phase = "refine" /\ chain > 0
    /\ Round("criticise", left - 1, Says(k))
    /\ Received(k)
    /\ UNCHANGED asked

Reflect_TakesVerdict(k) ==
    /\ phase = "reflect" /\ chain > 0
    /\ \/ Done([Paid EXCEPT !.answer = "verdict"])
       \/ Round("reflect", left - 1, [Says(k) EXCEPT !.critics = @ \cup {""}])
    /\ Received(k)
    /\ UNCHANGED asked

(* "VERDICT: PASS", or a revised answer.                                   *)
Reflect(k) ==
    /\ phase = "reflect" /\ chain > 0
    /\ \/ Done(Paid)
       \/ Round("reflect", left - 1, [Says(k) EXCEPT !.critics = @ \cup {""}])
    /\ Received(k)
    /\ UNCHANGED asked

(* The evaluator's "PASS" becomes the last message, like any other output. *)
Stage(k) ==
    /\ phase = "stage" /\ chain > 0
    /\ NextStage(left - 1, Says(k)) \/ Done([Paid EXCEPT !.answer = "verdict"])
    /\ Received(k)
    /\ UNCHANGED asked

(* The aggregator with tools gives its final answer, or calls tools.       *)
UseTools(k) ==
    /\ phase = "tools" /\ chain > 0
    /\ seen' = seen \cup {k} /\ billed' = billed + 1
    /\ \/ Answer(SaysAs(k)) /\ UNCHANGED ran
       \/ /\ phase' = "running" /\ ran' = ran + 1
          /\ result' = [Paid EXCEPT !.aggregator = k]
          /\ UNCHANGED <<chain, left>>
    /\ UNCHANGED <<request, asked>>

ToolsReturn ==
    /\ phase = "running"
    /\ LET res == [result EXCEPT !.trace = @ + 1]
       IN  IF left = 1 THEN Answer(res) ELSE Call("tools", left - 1, res)
    /\ NoReply
    /\ UNCHANGED asked

(* The endpoint is not available, or its call fails or times out.          *)
EndpointFails ==
    /\ phase \in Calling /\ chain > 0
    /\ chain' = chain - 1
    /\ NoReply
    /\ UNCHANGED <<phase, asked, left, result>>

Exhausted_FailsRevision ==
    /\ phase \in Calling /\ chain = 0
    /\ \/ phase \in {"aggregate", "stage", "refine"} /\ Fail
       \/ phase \in {"criticise", "reflect"} /\ Done(result) /\ UNCHANGED asked
       \/ phase = "tools" /\ Answer(result) /\ UNCHANGED asked
    /\ NoReply

(* Without an aggregator or a stage there is no answer; a critic, a        *)
(* revision or the tool loop that fails leaves the answer there is.        *)
Exhausted ==
    /\ phase \in Calling /\ chain = 0
    /\ \/ phase \in {"aggregate", "stage"} /\ Fail
       \/ phase \in {"criticise", "refine", "reflect"} /\ Done(result) /\ UNCHANGED asked
       \/ phase = "tools" /\ Answer(result) /\ UNCHANGED asked
    /\ NoReply

(* wait_for in execute(): the whole orchestration is cancelled.            *)
Timeout ==
    /\ phase \notin Ended \cup {"start"}
    /\ phase' = "timeout"
    /\ NoReply
    /\ UNCHANGED <<asked, chain, left, result>>

-----------------------------------------------------------------------------
Begin ==
    /\ request' \in Requests
    /\ phase' = "start"
    /\ asked' = [r \in Refs |-> "idle"]
    /\ chain' = 0 /\ left' = 0 /\ result' = Fresh
    /\ seen' = {} /\ billed' = 0 /\ ran' = 0

Receive == phase \in Ended /\ Begin

Init ==
    /\ request \in Requests
    /\ phase = "start"
    /\ asked = [r \in Refs |-> "idle"]
    /\ chain = 0 /\ left = 0 /\ result = Fresh
    /\ seen = {} /\ billed = 0 /\ ran = 0

Progress ==
    \/ Dispatch
    \/ \E r \in Refs : RefFails(r) \/ \E k \in Kinds : RefReplies(r, k)
    \/ Gather \/ GatherAnyway \/ Layer
    \/ \E k \in Kinds : \/ Aggregate(k) \/ ChainStep(k) \/ Criticise(k) \/ Refine(k)
                        \/ Reflect(k) \/ Stage(k) \/ UseTools(k)
    \/ ToolsReturn \/ EndpointFails \/ Exhausted

Next == Progress \/ Timeout \/ Receive

Spec == Init /\ [][Next]_vars

(* Every call ends, by its own timeout at the latest.  The overall timeout *)
(* need not fire, and nobody has to send a request.                        *)
FairSpec == Spec /\ WF_vars(Progress)

-----------------------------------------------------------------------------
(* total_cost, which is logged and accounted (routes/chat.py:378-390),     *)
(* counts every reply the orchestration received, whatever rounds and      *)
(* strategies it came from.  Not so for compose, which forgets its         *)
(* references.                                                             *)
CostIsComplete ==
    phase = "answered" /\ ~ Is({"compose"}) => result.cost = billed

(* mock_used is "True when ANY reference/aggregator/critic output in this  *)
(* orchestration came from the synthetic MockProvider" (moa.py:94): it is  *)
(* for the strategies that record every provider, unless tools or a        *)
(* revision follow.                                                        *)
Tracked ==
    /\ ~ request.tools
    /\ \/ Is({"single", "registered", "compose"})
       \/ Is({"parallel"}) /\ request.rounds = 0

TrackedMockIsLabelled ==
    phase = "answered" /\ Tracked /\ "mock" \in seen => result.mock

(* What is returned as the answer is some model's output: no error text, no*)
(* verdict about an answer, nothing empty.  Not so for three strategies,   *)
(* unless the tool loop replaces what they leave.                          *)
AnswersAreModelOutput ==
    phase = "answered" /\ ~ Is({"pipeline", "layered", "ranker"}) => result.answer \in Kinds

(* Every tool round that was executed for an answered request is in its    *)
(* tool_trace, also when the rounds are used up.                           *)
RunsAreTraced == phase = "answered" => result.trace = ran

(* Once there is a draft, nothing but the overall timeout makes the        *)
(* request fail: the critics, the revisions and the tool loop are extras.  *)
HasDraft == phase \in {"criticise", "refine", "reflect", "tools", "running"}

DraftSurvives == [][HasDraft => phase' # "failed"]_vars

(* Every request is answered, fails or times out, however often critics    *)
(* find issues and the aggregator asks for tools.                          *)
RequestsEnd == phase = "start" ~> phase \in Ended
=============================================================================
