------------------------------ MODULE MoAProofs ------------------------------
(***************************************************************************)
(* One orchestration of the MoA engine, for any number of references,      *)
(* rounds, stages, tool rounds and fallbacks: what its result says of its  *)
(* cost, of mock output and of tool rounds, and what its answer is.        *)
(***************************************************************************)
EXTENDS MoA, FiniteSetTheorems, TLAPS

-----------------------------------------------------------------------------
(* The inductive invariant.                                                *)

Drafting == {"criticise", "refine", "reflect", "tools", "running"}

(* Strategies whose answer is some model's output.                         *)
Textual == ~ Is({"pipeline", "layered", "ranker"})

(* Some round is left where one is counted down.                           *)
Remaining ==
    /\ phase \in Drafting \cup {"stage"} => left >= 1
    /\ Is({"chain"}) /\ phase \in {"references", "aggregate"} => left >= 1
    /\ Is({"layered"}) /\ phase = "references" => left >= 1

Beginning == phase = "start" => result = Fresh /\ billed = 0 /\ ran = 0 /\ seen = {}

(* What is billed: the result's cost and the replies of the references     *)
(* that have not been gathered.                                            *)
Open == IF phase = "references" THEN Cardinality(Good) ELSE 0

Costs ==
    ~ Is({"compose"}) /\ phase \notin {"failed", "timeout"} => billed = result.cost + Open

Traces ==
    phase \notin {"failed", "timeout"} =>
        ran = result.trace + (IF phase = "running" THEN 1 ELSE 0)

MockReference == [success |-> TRUE, provider |-> "mock"]

(* Where the trace of mock output is kept until the result says so.        *)
Mocks ==
    Tracked =>
        /\ phase \notin Drafting
        /\ "mock" \in seen =>
              /\ phase = "references" => \E r \in Refs : asked[r] = "mock"
              /\ phase = "aggregate" => MockReference \in result.references
              /\ phase = "answered" => result.mock

(* A single model is asked first.                                          *)
Alone == Is({"single"}) /\ phase = "aggregate" => seen = {}

Drafts == Textual /\ phase \in Drafting \cup {"answered"} => result.answer \in Kinds

Stages == phase = "stage" => Is({"pipeline"})

Inv ==
    /\ TypeOK /\ Remaining /\ Beginning /\ Costs /\ Traces /\ Mocks /\ Alone /\ Drafts /\ Stages

-----------------------------------------------------------------------------
(* The result of a step, given what the step has received.                 *)

AskedType == [Refs -> {"idle", "asked", "failed"} \cup Kinds]

Receipts ==
    /\ request' = request /\ seen' \subseteq Kinds
    /\ billed' \in Nat /\ ran' \in Nat /\ asked' \in AskedType

Accounts(res) ==
    /\ res \in Result
    /\ ~ Is({"compose"}) => res.cost = billed'
    /\ res.trace = ran'

Sound(res) ==
    /\ Accounts(res)
    /\ Textual => res.answer \in Kinds
    /\ Tracked /\ "mock" \in seen' => MockUsed(res)

LEMMA Numbers ==
    ASSUME NEW res \in Result PROVE res.cost \in Nat /\ res.trace \in Nat
BY DEF Result

LEMMA TrackedPrime ==
    ASSUME request' = request PROVE (Tracked' <=> Tracked) /\ (Textual' <=> Textual)
BY DEF Is, Tracked, Textual

LEMMA AnswerInv ==
    ASSUME Inv, Receipts, NEW res, Sound(res), Answer(res) PROVE Inv'
<1>1. /\ phase' = "answered" /\ chain' = 0 /\ left' = 0 /\ request' = request
      /\ result' = [res EXCEPT !.mock = MockUsed(res)]
    BY DEF Answer, Receipts
<1>2. MockUsed(res) \in BOOLEAN
    BY DEF MockUsed
<1>3. /\ result' \in Result
      /\ result'.cost = res.cost /\ result'.trace = res.trace /\ result'.answer = res.answer
      /\ result'.mock = MockUsed(res)
    BY <1>1, <1>2 DEF Sound, Accounts, Result
<1>4. TypeOK'
    BY <1>1, <1>3, MoAAssumption DEF Inv, TypeOK, Receipts, AskedType, Ended
<1>5. Remaining' /\ Beginning' /\ Stages' /\ Traces' /\ Alone'
    BY <1>1, <1>3, Numbers DEF Is, Alone, Remaining, Beginning, Stages, Traces, Sound, Accounts,
                               Drafting
<1>6. Costs'
    BY <1>1, <1>3, Numbers DEF Is, Costs, Open, Sound, Accounts
<1>7. Drafts' /\ Mocks'
    BY <1>1, <1>3, TrackedPrime DEF Drafts, Mocks, Drafting, Sound
<1> QED BY <1>4, <1>5, <1>6, <1>7 DEF Inv

(* A call that works on a draft, or a stage of a pipeline.                 *)
LEMMA DraftCallInv ==
    ASSUME Inv, Receipts, NEW res, Sound(res), ~ Tracked,
           NEW kind \in {"criticise", "refine", "reflect", "tools", "stage"},
           kind = "stage" => Is({"pipeline"}),
           NEW n \in Nat, n >= 1, Call(kind, n, res)
    PROVE  Inv'
<1>1. /\ phase' = kind /\ left' = n /\ request' = request /\ result' = res
      /\ chain' \in 0 .. MaxChain
    BY MoAAssumption DEF Call, Receipts
<1>2. TypeOK'
    BY <1>1 DEF Inv, TypeOK, Receipts, AskedType, Calling, Sound, Accounts
<1>3. Remaining' /\ Beginning' /\ Stages' /\ Traces' /\ Alone'
    BY <1>1, Numbers DEF Is, Alone, Remaining, Beginning, Stages, Traces, Sound, Accounts, Drafting
<1>4. Costs'
    BY <1>1, Numbers DEF Is, Costs, Open, Sound, Accounts
<1>5. Drafts' /\ Mocks'
    BY <1>1, TrackedPrime DEF Drafts, Mocks, Drafting, Sound
<1> QED BY <1>2, <1>3, <1>4, <1>5 DEF Inv

LEMMA DoneInv ==
    ASSUME Inv, Receipts, NEW res, Sound(res), Done(res) PROVE Inv'
<1>1. CASE Answer(res)
    BY <1>1, AnswerInv
<1>2. CASE request.tools /\ Call("tools", MaxToolRounds, res)
  <2>1. ~ Tracked
    BY <1>2 DEF Tracked
  <2> QED BY <1>2, <2>1, DraftCallInv, MoAAssumption
<1> QED BY <1>1, <1>2 DEF Done

LEMMA RoundInv ==
    ASSUME Inv, Receipts, NEW res, Sound(res),
           NEW kind \in {"criticise", "reflect"}, NEW n \in Nat, n # 0 => ~ Tracked,
           Round(kind, n, res)
    PROVE  Inv'
<1>1. CASE n = 0
    BY <1>1, DoneInv DEF Round
<1>2. CASE n # 0
    BY <1>2, DraftCallInv DEF Round
<1> QED BY <1>1, <1>2

LEMMA NextStageInv ==
    ASSUME Inv, Receipts, NEW res, Sound(res), Is({"pipeline"}), NEW n \in Nat,
           NextStage(n, res)
    PROVE  Inv'
<1>1. ~ Tracked
    BY DEF Is, Tracked
<1>2. ASSUME NEW m \in 1 .. n, Call("stage", m, res) PROVE Inv'
    BY <1>1, <1>2, DraftCallInv
<1> QED BY <1>2, DoneInv DEF NextStage

(* The call of the aggregator, or of the next step of a chain.             *)
LEMMA AggregatorInv ==
    ASSUME Inv, Receipts, NEW res, Accounts(res), NEW n \in Nat,
           Is({"chain"}) => n >= 1, Is({"single"}) => seen' = {},
           Tracked /\ "mock" \in seen' => MockReference \in res.references,
           Call("aggregate", n, res)
    PROVE  Inv'
<1>1. /\ phase' = "aggregate" /\ left' = n /\ request' = request /\ result' = res
      /\ chain' \in 0 .. MaxChain
    BY MoAAssumption DEF Call, Receipts
<1>2. TypeOK'
    BY <1>1 DEF Inv, TypeOK, Receipts, AskedType, Calling, Accounts
<1>3. Remaining' /\ Beginning' /\ Stages' /\ Traces' /\ Alone'
    BY <1>1, Numbers DEF Is, Alone, Remaining, Beginning, Stages, Traces, Accounts, Drafting
<1>4. Costs'
    BY <1>1, Numbers DEF Is, Costs, Open, Accounts
<1>5. Drafts' /\ Mocks'
    BY <1>1, TrackedPrime DEF Drafts, Mocks, Drafting
<1> QED BY <1>2, <1>3, <1>4, <1>5 DEF Inv

LEMMA FailInv == ASSUME Inv, Receipts, Fail PROVE Inv'
<1>1. phase' = "failed" /\ UNCHANGED <<asked, chain, left, result, request>>
    BY DEF Fail, Receipts
<1>2. TypeOK'
    BY <1>1 DEF Inv, TypeOK, Ended, Receipts, AskedType
<1>3. Remaining' /\ Beginning' /\ Costs' /\ Traces' /\ Drafts' /\ Stages' /\ Alone'
    BY <1>1 DEF Alone, Remaining, Beginning, Costs, Traces, Drafts, Stages, Drafting
<1>4. Mocks'
    BY <1>1 DEF Mocks, Drafting
<1> QED BY <1>2, <1>3, <1>4 DEF Inv

(* References are asked when nothing of a tracked request is received yet. *)
LEMMA AskInv ==
    ASSUME Inv, Receipts, NEW S, S \subseteq Refs, NEW res, Accounts(res), NEW n \in Nat,
           Is({"chain", "layered"}) => n >= 1, Tracked => seen' = {},
           Ask(S, n, res)
    PROVE  Inv'
<1>1. /\ phase' = "references" /\ left' = n /\ request' = request /\ result' = res
      /\ chain' \in 0 .. MaxChain
      /\ asked' = [r \in Refs |-> IF r \in S THEN "asked" ELSE "idle"]
    BY MoAAssumption DEF Ask, Receipts
<1>2. TypeOK'
    BY <1>1 DEF Inv, TypeOK, Receipts, AskedType, Accounts
<1>3. Good' = {}
    BY <1>1 DEF Good, Kinds
<1>4. Open' = 0
    BY <1>1, <1>3, FS_EmptySet DEF Open
<1>5. Remaining' /\ Beginning' /\ Stages' /\ Traces' /\ Alone'
    BY <1>1, Numbers DEF Is, Alone, Remaining, Beginning, Stages, Traces, Accounts, Drafting
<1>6. Costs'
    BY <1>1, <1>4, Numbers DEF Is, Costs, Accounts
<1>7. Drafts' /\ Mocks'
    BY <1>1, TrackedPrime DEF Drafts, Mocks, Drafting
<1> QED BY <1>2, <1>5, <1>6, <1>7 DEF Inv

LEMMA SelectInv ==
    ASSUME Inv, Receipts, NEW res, Accounts(res), NEW n \in Nat,
           Is({"chain", "layered"}) => n >= 1, Tracked => seen' = {},
           Select(n, res)
    PROVE  Inv'
BY AskInv, FailInv DEF Select

LEMMA Quietly == ASSUME Inv, NoReply, asked' \in AskedType PROVE Receipts
BY DEF Inv, TypeOK, NoReply, Receipts

LEMMA Hears ==
    ASSUME Inv, NEW k \in Kinds, Received(k), asked' \in AskedType
    PROVE  /\ Receipts
           /\ billed' = billed + 1 /\ ran' = ran /\ seen' = seen \cup {k}
BY DEF Inv, TypeOK, Received, Receipts

-----------------------------------------------------------------------------
(* The steps.                                                              *)

LEMMA FreshAccounts ==
    ASSUME Inv, phase = "start", NoReply
    PROVE  /\ Accounts(Fresh) /\ seen' = {}
           /\ Accounts([Fresh EXCEPT !.answer = "echo"])
<1>1. /\ Fresh \in Result /\ [Fresh EXCEPT !.answer = "echo"] \in Result
    BY DEF Fresh, Result, Kinds
<1>2. billed' = 0 /\ ran' = 0 /\ seen' = {}
    BY DEF Inv, Beginning, NoReply
<1> QED BY <1>1, <1>2 DEF Accounts, Fresh

LEMMA DispatchInv == ASSUME Inv, Dispatch PROVE Inv'
<1>1. phase = "start" /\ NoReply /\ asked \in AskedType
    BY DEF Dispatch, Inv, TypeOK, AskedType
<1>2. Accounts(Fresh) /\ seen' = {}
    BY <1>1, FreshAccounts
<1>3. request \in Requests /\ request.steps \in Nat \ {0}
    BY MoAAssumption DEF Inv, TypeOK, Requests
<1>4. CASE /\ Is({"single", "judge"})
           /\ Call("aggregate", 0, Fresh) \/ Fail
           /\ UNCHANGED asked
  <2>1. Receipts
    BY <1>1, <1>4, Quietly
  <2>2. ~ Is({"chain"})
    BY <1>4 DEF Is
  <2> QED BY <1>2, <1>4, <2>1, <2>2, AggregatorInv, FailInv
<1>5. CASE /\ Is({"pipeline"})
           /\ NextStage(request.steps, [Fresh EXCEPT !.answer = "echo"])
           /\ UNCHANGED asked
  <2> DEFINE res == [Fresh EXCEPT !.answer = "echo"]
  <2>1. Receipts
    BY <1>1, <1>5, Quietly
  <2>2. Accounts(res)
    BY <1>1, FreshAccounts
  <2>3. ~ Textual /\ ~ Tracked
    BY <1>5 DEF Is, Textual, Tracked
  <2>4. Sound(res)
    BY <2>2, <2>3 DEF Sound
  <2> HIDE DEF res
  <2> QED BY <1>3, <1>5, <2>1, <2>4, NextStageInv DEF res
<1>6. CASE Is({"layered"}) /\ Select(Layers, Fresh)
  <2>1. Layers \in Nat /\ Layers >= 1
    BY <1>3 DEF Layers
  <2>2. Receipts
    BY <1>1, <1>6, Quietly DEF Select, Ask, Fail, AskedType
  <2> QED BY <1>2, <1>6, <2>1, <2>2, SelectInv
<1>7. CASE Is({"chain"}) /\ Select(request.steps, Fresh)
  <2>1. Receipts
    BY <1>1, <1>7, Quietly DEF Select, Ask, Fail, AskedType
  <2> QED BY <1>2, <1>3, <1>7, <2>1, SelectInv
<1>8. CASE /\ Is({"parallel", "registered", "compose", "single_proposer", "ranker"})
           /\ Select(0, Fresh)
  <2>1. Receipts
    BY <1>1, <1>8, Quietly DEF Select, Ask, Fail, AskedType
  <2>2. ~ Is({"chain", "layered"})
    BY <1>8 DEF Is
  <2> QED BY <1>2, <1>8, <2>1, <2>2, SelectInv
<1> QED BY <1>4, <1>5, <1>6, <1>7, <1>8 DEF Dispatch

LEMMA GoodFinite == IsFiniteSet(Good) /\ Cardinality(Good) \in Nat
<1>1. Good \subseteq Refs
    BY DEF Good
<1> QED BY <1>1, MoAAssumption, FS_Subset, FS_CardinalityType

LEMMA RefRepliesInv ==
    ASSUME Inv, NEW r \in Refs, NEW k \in Kinds, RefReplies(r, k) PROVE Inv'
<1>1. /\ phase = "references" /\ asked[r] = "asked"
      /\ asked' = [asked EXCEPT ![r] = k] /\ asked' \in AskedType
      /\ UNCHANGED <<phase, chain, left, result, request>>
      /\ Received(k)
    BY DEF RefReplies, Received, Inv, TypeOK, AskedType
<1>2. Receipts /\ billed' = billed + 1 /\ ran' = ran /\ seen' = seen \cup {k}
    BY <1>1, Hears
<1>3. TypeOK'
    BY <1>1, <1>2 DEF Inv, TypeOK, Receipts, AskedType
<1>4. r \notin Good /\ Good' = Good \cup {r}
    BY <1>1 DEF Good, Kinds, Inv, TypeOK
<1>5. Cardinality(Good \cup {r}) = Cardinality(Good) + 1
    BY <1>4, GoodFinite, FS_AddElement
<1>6. Costs'
  <2>1. billed \in Nat /\ result.cost \in Nat
    BY Numbers DEF Inv, TypeOK
  <2> QED BY <1>1, <1>2, <1>4, <1>5, <2>1, GoodFinite DEF Inv, Costs, Open, Is
<1>7. Remaining' /\ Beginning' /\ Stages' /\ Traces' /\ Alone' /\ Drafts'
    BY <1>1, <1>2, TrackedPrime DEF Inv, Is, Alone, Remaining, Beginning, Stages, Traces, Drafts,
                                    Drafting
<1>8. Mocks'
  <2>1. (\E q \in Refs : asked[q] = "mock") \/ k = "mock"
           => \E q \in Refs : asked'[q] = "mock"
    BY <1>1 DEF Inv, TypeOK
  <2> QED BY <1>1, <1>2, <2>1, TrackedPrime DEF Inv, Mocks, Drafting
<1> QED BY <1>3, <1>6, <1>7, <1>8 DEF Inv

LEMMA RefFailsInv == ASSUME Inv, NEW r \in Refs, RefFails(r) PROVE Inv'
<1>1. /\ phase = "references" /\ asked[r] = "asked"
      /\ asked' = [asked EXCEPT ![r] = "failed"]
      /\ UNCHANGED <<phase, chain, left, result, request, seen, billed, ran>>
    BY DEF RefFails, NoReply
<1>2. TypeOK'
    BY <1>1 DEF Inv, TypeOK
<1>3. Good' = Good
    BY <1>1 DEF Good, Kinds, Inv, TypeOK
<1>4. Remaining' /\ Beginning' /\ Stages' /\ Traces' /\ Alone' /\ Drafts' /\ Costs'
    BY <1>1, <1>3, TrackedPrime DEF Inv, Is, Alone, Remaining, Beginning, Stages, Traces, Drafts,
                                    Drafting, Costs, Open
<1>5. Mocks'
  <2>1. \A q \in Refs : asked[q] = "mock" => asked'[q] = "mock"
    BY <1>1 DEF Inv, TypeOK
  <2> QED BY <1>1, <2>1, TrackedPrime DEF Inv, Mocks, Drafting
<1> QED BY <1>2, <1>4, <1>5 DEF Inv

(* What is recorded of the references is of the type of a result, and has  *)
(* a reference of the mock provider when one was received.                 *)
LEMMA RecordedType ==
    ASSUME Inv
    PROVE  /\ Recorded \subseteq [success : BOOLEAN, provider : Kinds \cup {""}]
           /\ Copied \subseteq [success : BOOLEAN, provider : Kinds \cup {""}]
           /\ \A r \in Refs : asked[r] = "mock" => MockReference \in Recorded
<1>1. ASSUME NEW r \in Asked
      PROVE  [success |-> r \in Good, provider |-> IF r \in Good THEN asked[r] ELSE ""]
                \in [success : BOOLEAN, provider : Kinds \cup {""}]
  <2>1. (IF r \in Good THEN asked[r] ELSE "") \in Kinds \cup {""}
    BY DEF Good
  <2>2. (r \in Good) \in BOOLEAN
    OBVIOUS
  <2> QED BY <2>1, <2>2
<1>2. [success |-> TRUE, provider |-> ""] \in [success : BOOLEAN, provider : Kinds \cup {""}]
    OBVIOUS
<1>3. ASSUME NEW r \in Refs, asked[r] = "mock" PROVE MockReference \in Recorded
  <2>1. r \in Asked /\ r \in Good
    BY <1>3 DEF Asked, Good, Kinds
  <2>2. (r \in Good) = TRUE /\ (IF r \in Good THEN asked[r] ELSE "") = "mock"
    BY <1>3, <2>1
  <2>3. [success |-> r \in Good, provider |-> IF r \in Good THEN asked[r] ELSE ""]
           = MockReference
    BY <2>2 DEF MockReference
  <2> QED BY <2>1, <2>3 DEF Recorded
<1> QED BY <1>1, <1>2, <1>3 DEF Recorded, Copied

LEMMA Sums ==
    ASSUME Inv
    PROVE  /\ \A n \in Nat : result.cost + n \in Nat
           /\ phase = "references" /\ NoReply => ran' = result.trace
<1>1. result.cost \in Nat /\ result.trace \in Nat
    BY Numbers DEF Inv, TypeOK
<1>2. phase = "references" => ran = result.trace
    BY <1>1 DEF Inv, Traces
<1> QED BY <1>1, <1>2 DEF NoReply

LEMMA WithResult ==
    ASSUME Inv, NEW R, R \subseteq [success : BOOLEAN, provider : Kinds \cup {""}],
           NEW n \in Nat
    PROVE  /\ With(R, n) \in Result
           /\ With(R, n).cost = result.cost + n
           /\ With(R, n).trace = result.trace
           /\ With(R, n).answer = result.answer
           /\ With(R, n).references = result.references \cup R
<1> DEFINE one == [result EXCEPT !.references = @ \cup R]
<1>1. /\ one \in Result
      /\ one.cost = result.cost /\ one.trace = result.trace /\ one.answer = result.answer
      /\ one.references = result.references \cup R
    BY DEF Inv, TypeOK, Result
<1>2. With(R, n) = [one EXCEPT !.cost = result.cost + n]
    BY DEF With, Inv, TypeOK, Result
<1>3. result.cost + n \in Nat
    BY Sums
<1> HIDE DEF one
<1> QED BY <1>1, <1>2, <1>3 DEF Result

LEMMA AnswerType ==
    ASSUME NEW res \in Result, NEW a \in Kinds \cup {"verdict", "echo", "none"}
    PROVE  /\ [res EXCEPT !.answer = a] \in Result
           /\ [res EXCEPT !.answer = a].cost = res.cost
           /\ [res EXCEPT !.answer = a].trace = res.trace
           /\ [res EXCEPT !.answer = a].answer = a
           /\ [res EXCEPT !.answer = a].references = res.references
           /\ [res EXCEPT !.answer = a].critics = res.critics
           /\ [res EXCEPT !.answer = a].aggregator = res.aggregator
BY DEF Result

(* References that are gathered pay for their replies.                     *)
LEMMA GatheredAccounts ==
    ASSUME Inv, phase = "references", NoReply,
           NEW R, R \subseteq [success : BOOLEAN, provider : Kinds \cup {""}],
           NEW n \in Nat, n = Cardinality(Good) \/ Is({"compose"})
    PROVE  Accounts(With(R, n))
<1>1. ~ Is({"compose"}) => billed' = result.cost + n
    BY DEF Inv, Costs, Open, NoReply
<1>2. ran' = result.trace
    BY Sums
<1> QED BY <1>1, <1>2, WithResult DEF Accounts

LEMMA GatherInv == ASSUME Inv, Gather PROVE Inv'
<1> DEFINE R == IF Is({"chain"}) THEN {} ELSE Recorded
           res == With(R, Cardinality(Good))
<1>1. /\ phase = "references" /\ NoReply /\ Is({"parallel", "registered", "chain"})
      /\ \/ Good = {} /\ Fail
         \/ /\ UNCHANGED asked
            /\ \/ Call("aggregate", left, res)
               \/ Is({"registered"}) /\ \E r \in Good : Done([res EXCEPT !.answer = asked[r]])
    BY DEF Gather, AllBack
<1>2. R \subseteq [success : BOOLEAN, provider : Kinds \cup {""}]
    BY RecordedType
<1>3. Accounts(res) /\ res.references = result.references \cup R
    BY <1>1, <1>2, GatheredAccounts, GoodFinite, WithResult
<1>4. Receipts
    BY <1>1, Quietly DEF Fail, Inv, TypeOK, AskedType
<1>5. Tracked /\ "mock" \in seen' => MockReference \in res.references
  <2> SUFFICES ASSUME Tracked, "mock" \in seen' PROVE MockReference \in R
    BY <1>3
  <2>1. PICK r \in Refs : asked[r] = "mock"
    BY <1>1 DEF Inv, Mocks, NoReply
  <2>2. ~ Is({"chain"})
    BY DEF Tracked, Is
  <2> QED BY <2>1, <2>2, RecordedType
<1>6. left \in Nat /\ (Is({"chain"}) => left >= 1) /\ ~ Is({"single"})
    BY <1>1 DEF Inv, TypeOK, Remaining, Is
<1> HIDE DEF res
<1>7. CASE Good = {} /\ Fail
    BY <1>4, <1>7, FailInv
<1>8. CASE Call("aggregate", left, res)
    BY <1>3, <1>4, <1>5, <1>6, <1>8, AggregatorInv
<1>9. ASSUME NEW r \in Good, Done([res EXCEPT !.answer = asked[r]]) PROVE Inv'
  <2> DEFINE out == [res EXCEPT !.answer = asked[r]]
  <2>1. asked[r] \in Kinds
    BY DEF Good
  <2>2. /\ out \in Result /\ out.cost = res.cost /\ out.trace = res.trace
        /\ out.answer = asked[r] /\ out.references = res.references
    BY <1>3, <2>1, AnswerType DEF Accounts
  <2> HIDE DEF out
  <2>3. Sound(out)
    BY <1>3, <1>5, <2>1, <2>2 DEF Sound, Accounts, MockUsed, MockReference
  <2> QED BY <1>4, <1>9, <2>3, DoneInv DEF out
<1> QED BY <1>1, <1>7, <1>8, <1>9

LEMMA GatherAnywayInv == ASSUME Inv, GatherAnyway PROVE Inv'
<1> DEFINE res == IF Is({"compose"}) THEN With(Recorded, 0) ELSE With(Copied, Cardinality(Good))
<1>1. /\ phase = "references" /\ NoReply /\ UNCHANGED asked
      /\ Is({"compose", "single_proposer", "ranker"})
      /\ Call("aggregate", left, res)
    BY DEF GatherAnyway, AllBack
<1>2. Receipts
    BY <1>1, Quietly DEF Inv, TypeOK, AskedType
<1>3. Accounts(res)
    BY <1>1, RecordedType, GatheredAccounts, GoodFinite
<1>4. Tracked /\ "mock" \in seen' => MockReference \in res.references
  <2> SUFFICES ASSUME Tracked, "mock" \in seen' PROVE MockReference \in With(Recorded, 0).references
    BY <1>1 DEF Tracked, Is
  <2>1. PICK r \in Refs : asked[r] = "mock"
    BY <1>1 DEF Inv, Mocks, NoReply
  <2>2. MockReference \in Recorded
    BY <2>1, RecordedType
  <2>3. With(Recorded, 0).references = result.references \cup Recorded
    BY RecordedType, WithResult
  <2> QED BY <2>2, <2>3
<1>5. left \in Nat /\ ~ Is({"chain"}) /\ ~ Is({"single"})
    BY <1>1 DEF Inv, TypeOK, Is
<1> HIDE DEF res
<1> QED BY <1>1, <1>2, <1>3, <1>4, <1>5, AggregatorInv

LEMMA OutputType == \A r : Output(r) \in Kinds \cup {"verdict", "echo", "none"}
BY DEF Output, Good

LEMMA LayerInv == ASSUME Inv, Layer PROVE Inv'
<1> DEFINE res == With(Copied, Cardinality(Good))
<1>1. /\ phase = "references" /\ NoReply /\ Is({"layered"})
      /\ \/ /\ left = 1
            /\ \E r \in Asked : Done([res EXCEPT !.answer = Output(r)])
            /\ UNCHANGED asked
         \/ left = 2 /\ \E r \in Refs : Ask({r}, 1, res)
         \/ left > 2 /\ Ask(Asked, left - 1, res)
    BY DEF Layer, AllBack
<1>2. Accounts(res)
    BY <1>1, RecordedType, GatheredAccounts, GoodFinite
<1>3. ~ Tracked /\ ~ Textual /\ left \in Nat
    BY <1>1 DEF Is, Tracked, Textual, Inv, TypeOK
<1> HIDE DEF res
<1>4. ASSUME UNCHANGED asked, NEW r \in Asked, Done([res EXCEPT !.answer = Output(r)])
      PROVE  Inv'
  <2>1. Receipts
    BY <1>1, <1>4, Quietly DEF Inv, TypeOK, AskedType
  <2>2. Sound([res EXCEPT !.answer = Output(r)])
    BY <1>2, <1>3, OutputType, AnswerType DEF Sound, Accounts
  <2> QED BY <1>4, <2>1, <2>2, DoneInv
<1>5. ASSUME NEW S, S \subseteq Refs, NEW n \in Nat, n >= 1, Ask(S, n, res) PROVE Inv'
  <2>1. Receipts
    BY <1>1, <1>5, Quietly DEF Ask, AskedType
  <2> QED BY <1>2, <1>3, <1>5, <2>1, AskInv
<1>6. CASE left = 2 /\ \E r \in Refs : Ask({r}, 1, res)
    BY <1>5, <1>6
<1>7. CASE left > 2 /\ Ask(Asked, left - 1, res)
  <2>1. Asked \subseteq Refs /\ left - 1 \in Nat /\ left - 1 >= 1
    BY <1>3, <1>7 DEF Asked
  <2> QED BY <1>5, <1>7, <2>1
<1> QED BY <1>1, <1>4, <1>6, <1>7

(* Phases in which the account of the result is complete.                  *)
Settled == phase \in {"aggregate", "criticise", "refine", "reflect", "stage", "tools"}

LEMMA PaidType ==
    ASSUME Inv, Settled, NEW k \in Kinds, billed' = billed + 1
    PROVE  /\ Paid \in Result /\ (~ Is({"compose"}) => Paid.cost = billed')
           /\ Paid.trace = result.trace /\ result.trace = ran
           /\ Paid.answer = result.answer
           /\ Paid.references = result.references /\ Paid.critics = result.critics
<1>1. result \in Result /\ result.cost \in Nat /\ result.trace \in Nat /\ result.cost + 1 \in Nat
    BY Sums, Numbers DEF Inv, TypeOK
<1>2. ~ Is({"compose"}) => billed = result.cost
    BY <1>1 DEF Inv, Costs, Open, Settled
<1>3. ran = result.trace
    BY <1>1 DEF Inv, Traces, Settled
<1>4. /\ Paid \in Result /\ Paid.cost = result.cost + 1 /\ Paid.trace = result.trace
      /\ Paid.answer = result.answer
      /\ Paid.references = result.references /\ Paid.critics = result.critics
    BY <1>1 DEF Paid, Result
<1> QED BY <1>2, <1>3, <1>4

LEMMA PaidAccounts ==
    ASSUME Inv, Settled, NEW k \in Kinds, Received(k)
    PROVE  /\ Accounts(Paid) /\ Paid.answer = result.answer
           /\ Accounts(Says(k)) /\ Says(k).answer = k
           /\ Says(k).references = result.references
           /\ Accounts(SaysAs(k)) /\ SaysAs(k).answer = k /\ SaysAs(k).aggregator = k
           /\ SaysAs(k).references = result.references
           /\ \A a \in Kinds \cup {"verdict", "echo", "none"} :
                 Accounts([Paid EXCEPT !.answer = a])
<1>1. billed' = billed + 1 /\ ran' = ran
    BY DEF Received
<1>2. /\ Paid \in Result /\ (~ Is({"compose"}) => Paid.cost = billed')
      /\ Paid.trace = ran' /\ Paid.answer = result.answer
      /\ Paid.references = result.references
    BY <1>1, PaidType
<1>3. /\ Says(k) \in Result /\ Says(k).cost = Paid.cost /\ Says(k).trace = Paid.trace
      /\ Says(k).answer = k /\ Says(k).references = result.references
    BY <1>2, AnswerType DEF Says
<1>4. /\ SaysAs(k) \in Result /\ SaysAs(k).cost = Says(k).cost
      /\ SaysAs(k).trace = Says(k).trace /\ SaysAs(k).answer = Says(k).answer
      /\ SaysAs(k).aggregator = k /\ SaysAs(k).references = Says(k).references
    BY <1>3 DEF SaysAs, Result
<1>5. \A a \in Kinds \cup {"verdict", "echo", "none"} :
          Accounts([Paid EXCEPT !.answer = a])
    BY <1>2, AnswerType DEF Accounts
<1> QED BY <1>2, <1>3, <1>4, <1>5 DEF Accounts

(* An aggregator's own output is labelled, and what it was given was.      *)
LEMMA SaysAsSound ==
    ASSUME Inv, phase = "aggregate", NEW k \in Kinds, Received(k)
    PROVE  Sound(SaysAs(k))
<1>1. /\ Accounts(SaysAs(k)) /\ SaysAs(k).answer = k /\ SaysAs(k).aggregator = k
      /\ SaysAs(k).references = result.references
    BY PaidAccounts DEF Settled
<1>2. ASSUME Tracked, "mock" \in seen' PROVE MockUsed(SaysAs(k))
  <2>1. CASE k = "mock"
    BY <1>1, <2>1 DEF MockUsed
  <2>2. CASE "mock" \in seen
    BY <1>1, <1>2, <2>2 DEF Inv, Mocks, MockUsed, MockReference
  <2> QED BY <1>2, <2>1, <2>2 DEF Received
<1> QED BY <1>1, <1>2 DEF Sound

LEMMA AggregateInv == ASSUME Inv, NEW k \in Kinds, Aggregate(k) PROVE Inv'
<1>1. /\ phase = "aggregate" /\ Received(k) /\ UNCHANGED asked
    BY DEF Aggregate
<1>2. Receipts
    BY <1>1, Hears DEF Inv, TypeOK, AskedType
<1>3. Sound(SaysAs(k)) /\ Accounts(SaysAs(k)) /\ SaysAs(k).answer = k /\ SaysAs(k).aggregator = k
    BY <1>1, SaysAsSound, PaidAccounts DEF Settled
<1>4. request.rounds \in Nat
    BY MoAAssumption DEF Inv, TypeOK, Requests
<1>5. ASSUME Is({"single"}),
             Done([SaysAs(k) EXCEPT !.references = {[success |-> TRUE, provider |-> k]}])
      PROVE  Inv'
  <2> DEFINE R == {[success |-> TRUE, provider |-> k]}
             res == [SaysAs(k) EXCEPT !.references = R]
  <2>1. R \subseteq [success : BOOLEAN, provider : Kinds \cup {""}]
    <3>1. [success |-> TRUE, provider |-> k] \in [success : BOOLEAN, provider : Kinds \cup {""}]
      OBVIOUS
    <3> QED BY <3>1, Zenon
  <2> HIDE DEF R
  <2>2. /\ res \in Result /\ res.cost = SaysAs(k).cost /\ res.trace = SaysAs(k).trace
        /\ res.answer = k /\ res.aggregator = k /\ res.references = R
    BY <1>3, <2>1 DEF Accounts, Result
  <2> HIDE DEF res
  <2>3. Accounts(res)
    BY <1>3, <2>2 DEF Accounts
  <2>4. ASSUME Tracked, "mock" \in seen' PROVE MockUsed(res)
    <3>1. k = "mock"
      BY <1>1, <1>5, <2>4 DEF Inv, Alone, Received
    <3> QED BY <2>2, <3>1 DEF MockUsed
  <2>5. Sound(res)
    BY <2>2, <2>3, <2>4 DEF Sound
  <2> QED BY <1>2, <1>5, <2>5, DoneInv DEF res, R
<1>6. ASSUME Is({"registered", "compose", "single_proposer"}), Done(SaysAs(k)) PROVE Inv'
    BY <1>2, <1>3, <1>6, DoneInv
<1>7. ASSUME Is({"judge"}), Round("reflect", request.rounds, SaysAs(k)) PROVE Inv'
  <2>1. ~ Tracked
    BY <1>7 DEF Is, Tracked
  <2> QED BY <1>2, <1>3, <1>4, <1>7, <2>1, RoundInv
<1>8. ASSUME Is({"parallel"}), NEW extra \in {0, IF request.rounds > 0 THEN Extra ELSE 0},
             Round("criticise", request.rounds + extra, SaysAs(k))
      PROVE  Inv'
  <2>1. extra \in Nat /\ (request.rounds = 0 => extra = 0)
    BY <1>4, <1>8 DEF Extra
  <2>2. request.rounds + extra \in Nat
    BY <1>4, <2>1
  <2>3. request.rounds + extra # 0 => ~ Tracked
    BY <1>4, <1>8, <2>1 DEF Is, Tracked
  <2> QED BY <1>2, <1>3, <1>8, <2>2, <2>3, RoundInv
<1>9. ASSUME Is({"ranker"}), NEW r \in Asked, Done([Paid EXCEPT !.answer = Output(r)])
      PROVE  Inv'
  <2>1. Accounts([Paid EXCEPT !.answer = Output(r)])
    BY <1>1, PaidAccounts, OutputType DEF Settled
  <2>2. ~ Textual /\ ~ Tracked
    BY <1>9 DEF Is, Textual, Tracked
  <2> QED BY <1>2, <1>9, <2>1, <2>2, DoneInv DEF Sound
<1> QED BY <1>5, <1>6, <1>7, <1>8, <1>9 DEF Aggregate

LEMMA ChainStepInv == ASSUME Inv, NEW k \in Kinds, ChainStep(k) PROVE Inv'
<1>1. /\ phase = "aggregate" /\ Is({"chain"}) /\ Received(k)
      /\ \/ left = 1 /\ Done(Says(k)) /\ UNCHANGED asked
         \/ left # 1 /\ Select(left - 1, Says(k))
    BY DEF ChainStep
<1>2. /\ Accounts(Says(k)) /\ Says(k).answer = k
      /\ ~ Tracked /\ left \in Nat /\ left >= 1
    BY <1>1, PaidAccounts DEF Settled, Is, Tracked, Inv, TypeOK, Remaining
<1>3. CASE left = 1 /\ Done(Says(k)) /\ UNCHANGED asked
  <2>1. Receipts
    BY <1>1, <1>3, Hears DEF Inv, TypeOK, AskedType
  <2>2. Sound(Says(k))
    BY <1>2 DEF Sound
  <2> QED BY <1>3, <2>1, <2>2, DoneInv
<1>4. CASE left # 1 /\ Select(left - 1, Says(k))
  <2>1. asked' \in AskedType
    BY <1>4 DEF Inv, TypeOK, AskedType, Select, Ask, Fail
  <2>2. Receipts
    BY <1>1, <2>1, Hears
  <2>3. left - 1 \in Nat /\ left - 1 >= 1
    BY <1>2, <1>4
  <2> QED BY <1>2, <1>4, <2>2, <2>3, SelectInv
<1> QED BY <1>1, <1>3, <1>4

(* Phases with a draft are none of a tracked request.                      *)
LEMMA DraftPhase ==
    ASSUME Inv, phase \in Drafting
    PROVE  /\ ~ Tracked /\ left \in Nat /\ left >= 1
           /\ Textual => result.answer \in Kinds
           /\ asked \in AskedType
BY DEF Inv, TypeOK, AskedType, Mocks, Remaining, Drafts

LEMMA CriticiseInv == ASSUME Inv, NEW k \in Kinds, Criticise(k) PROVE Inv'
<1> DEFINE res == [Paid EXCEPT !.critics = @ \cup {k}]
<1>1. /\ phase = "criticise" /\ Received(k) /\ UNCHANGED asked
      /\ Done(res) \/ Call("refine", left, res)
    BY DEF Criticise
<1>2. ~ Tracked /\ left \in Nat /\ left >= 1 /\ (Textual => result.answer \in Kinds)
      /\ Receipts
    BY <1>1, DraftPhase, Hears DEF Drafting
<1>3. Accounts(Paid) /\ Paid.answer = result.answer
    BY <1>1, PaidAccounts DEF Settled
<1>4. res \in Result /\ res.cost = Paid.cost /\ res.trace = Paid.trace /\ res.answer = Paid.answer
    BY <1>3 DEF Accounts, Result
<1> HIDE DEF res
<1>5. Sound(res)
    BY <1>2, <1>3, <1>4 DEF Sound, Accounts
<1> QED BY <1>1, <1>2, <1>5, DoneInv, DraftCallInv

LEMMA RefineInv == ASSUME Inv, NEW k \in Kinds, Refine(k) PROVE Inv'
<1>1. /\ phase = "refine" /\ Received(k) /\ UNCHANGED asked
      /\ Round("criticise", left - 1, Says(k))
    BY DEF Refine
<1>2. ~ Tracked /\ left - 1 \in Nat /\ Receipts
    BY <1>1, DraftPhase, Hears DEF Drafting
<1>3. Sound(Says(k))
    BY <1>1, <1>2, PaidAccounts DEF Settled, Sound
<1> QED BY <1>1, <1>2, <1>3, RoundInv

LEMMA ReflectInv == ASSUME Inv, NEW k \in Kinds, Reflect(k) PROVE Inv'
<1> DEFINE res == [Says(k) EXCEPT !.critics = @ \cup {""}]
<1>1. /\ phase = "reflect" /\ Received(k) /\ UNCHANGED asked
      /\ Done(Paid) \/ Round("reflect", left - 1, res)
    BY DEF Reflect
<1>2. ~ Tracked /\ left - 1 \in Nat /\ Receipts /\ (Textual => result.answer \in Kinds)
  <2>1. /\ ~ Tracked /\ left \in Nat /\ left >= 1 /\ (Textual => result.answer \in Kinds)
        /\ asked' \in AskedType
    BY <1>1, DraftPhase DEF Drafting
  <2>2. left - 1 \in Nat
    BY <2>1
  <2>3. Receipts
    BY <1>1, <2>1, Hears
  <2> QED BY <2>1, <2>2, <2>3
<1>3. /\ Accounts(Paid) /\ Paid.answer = result.answer
      /\ Accounts(Says(k)) /\ Says(k).answer = k
    BY <1>1, PaidAccounts DEF Settled
<1>4. /\ res \in Result /\ res.cost = Says(k).cost /\ res.trace = Says(k).trace
      /\ res.answer = Says(k).answer
    BY <1>3 DEF Accounts, Result
<1> HIDE DEF res
<1>5. Sound(res) /\ Sound(Paid)
    BY <1>2, <1>3, <1>4 DEF Sound, Accounts
<1> QED BY <1>1, <1>2, <1>5, DoneInv, RoundInv

LEMMA StageInv == ASSUME Inv, NEW k \in Kinds, Stage(k) PROVE Inv'
<1>1. /\ phase = "stage" /\ Received(k) /\ UNCHANGED asked /\ Is({"pipeline"})
      /\ NextStage(left - 1, Says(k)) \/ Done([Paid EXCEPT !.answer = "verdict"])
    BY DEF Stage, Inv, Stages
<1>2. ~ Tracked /\ ~ Textual
    BY <1>1 DEF Is, Tracked, Textual
<1>3. left - 1 \in Nat /\ Receipts
    BY <1>1, Hears DEF Inv, TypeOK, AskedType, Remaining
<1>4. Accounts(Says(k)) /\ Accounts([Paid EXCEPT !.answer = "verdict"])
    BY <1>1, PaidAccounts DEF Settled
<1> QED BY <1>1, <1>2, <1>3, <1>4, NextStageInv, DoneInv DEF Sound

LEMMA UseToolsInv == ASSUME Inv, NEW k \in Kinds, UseTools(k) PROVE Inv'
<1>1. /\ phase = "tools" /\ seen' = seen \cup {k} /\ billed' = billed + 1
      /\ request' = request /\ asked' = asked
      /\ \/ Answer(SaysAs(k)) /\ UNCHANGED ran
         \/ /\ phase' = "running" /\ ran' = ran + 1
            /\ result' = [Paid EXCEPT !.aggregator = k]
            /\ UNCHANGED <<chain, left>>
    BY DEF UseTools
<1>2. /\ ~ Tracked /\ left \in Nat /\ left >= 1 /\ (Textual => result.answer \in Kinds)
      /\ asked \in AskedType
    BY <1>1, DraftPhase DEF Drafting
<1>3. CASE Answer(SaysAs(k)) /\ UNCHANGED ran
  <2>1. Received(k)
    BY <1>1, <1>3 DEF Received
  <2>2. Receipts
    BY <1>1, <1>2, <2>1, Hears
  <2>3. Sound(SaysAs(k))
    BY <1>1, <1>2, <2>1, PaidAccounts DEF Settled, Sound
  <2> QED BY <1>3, <2>2, <2>3, AnswerInv
<1>4. CASE /\ phase' = "running" /\ ran' = ran + 1
           /\ result' = [Paid EXCEPT !.aggregator = k]
           /\ UNCHANGED <<chain, left>>
  <2>1. /\ Paid \in Result /\ (~ Is({"compose"}) => Paid.cost = billed')
        /\ Paid.trace = ran /\ Paid.answer = result.answer
    BY <1>1, PaidType DEF Settled
  <2>2. /\ result' \in Result /\ result'.cost = Paid.cost /\ result'.trace = Paid.trace
        /\ result'.answer = result.answer
    BY <1>4, <2>1 DEF Result
  <2>3. TypeOK'
    BY <1>1, <1>2, <1>4, <2>2 DEF Inv, TypeOK, AskedType
  <2>4. Remaining' /\ Beginning' /\ Stages' /\ Alone' /\ Traces'
    BY <1>1, <1>2, <1>4, <2>1, <2>2 DEF Is, Remaining, Beginning, Stages, Alone, Traces, Drafting
  <2>5. result'.cost \in Nat
    BY <2>2, Numbers
  <2>6. Costs'
    BY <1>1, <1>4, <2>1, <2>2, <2>5 DEF Is, Costs, Open
  <2>7. Drafts' /\ Mocks'
    BY <1>1, <1>2, <1>4, <2>2, TrackedPrime DEF Drafts, Mocks, Drafting
  <2> QED BY <2>3, <2>4, <2>6, <2>7 DEF Inv
<1> QED BY <1>1, <1>3, <1>4

LEMMA ToolsReturnInv == ASSUME Inv, ToolsReturn PROVE Inv'
<1> DEFINE res == [result EXCEPT !.trace = @ + 1]
<1>1. /\ phase = "running" /\ NoReply /\ UNCHANGED asked
      /\ \/ left = 1 /\ Answer(res)
         \/ left # 1 /\ Call("tools", left - 1, res)
    BY DEF ToolsReturn
<1>2. /\ ~ Tracked /\ left \in Nat /\ left >= 1 /\ (Textual => result.answer \in Kinds)
      /\ Receipts
    BY <1>1, DraftPhase, Quietly DEF Drafting
<1>3. /\ result \in Result /\ result.cost \in Nat /\ result.trace \in Nat
    BY Numbers DEF Inv, TypeOK
<1>4. /\ res \in Result /\ res.cost = result.cost /\ res.trace = result.trace + 1
      /\ res.answer = result.answer
  <2>1. result.trace + 1 \in Nat
    BY <1>3
  <2> QED BY <1>3, <2>1 DEF Result
<1>5. ran' = result.trace + 1
    BY <1>1, <1>3 DEF Inv, Traces, NoReply
<1>6. ~ Is({"compose"}) => billed' = result.cost
    BY <1>1, <1>3 DEF Inv, Costs, Open, NoReply
<1> HIDE DEF res
<1>7. Sound(res)
    BY <1>2, <1>4, <1>5, <1>6 DEF Sound, Accounts
<1>8. left # 1 => left - 1 \in Nat /\ left - 1 >= 1
    BY <1>2
<1> QED BY <1>1, <1>2, <1>7, <1>8, AnswerInv, DraftCallInv

LEMMA EndpointFailsInv == ASSUME Inv, EndpointFails PROVE Inv'
<1>1. /\ chain > 0 /\ chain' = chain - 1
      /\ UNCHANGED <<phase, asked, left, result, request, seen, billed, ran>>
    BY DEF EndpointFails, NoReply
<1>2. TypeOK'
    BY <1>1, MoAAssumption DEF Inv, TypeOK
<1>3. Good' = Good
    BY <1>1 DEF Good
<1>4. Remaining' /\ Beginning' /\ Stages' /\ Traces' /\ Alone' /\ Costs' /\ Drafts' /\ Mocks'
    BY <1>1, <1>3, TrackedPrime DEF Inv, Is, Alone, Remaining, Beginning, Stages, Traces, Drafts,
                                    Drafting, Costs, Open, Mocks
<1> QED BY <1>2, <1>4 DEF Inv

LEMMA ExhaustedInv == ASSUME Inv, Exhausted PROVE Inv'
<1>1. /\ phase \in Calling /\ NoReply
      /\ \/ phase \in {"aggregate", "stage"} /\ Fail
         \/ phase \in {"criticise", "refine", "reflect"} /\ Done(result) /\ UNCHANGED asked
         \/ phase = "tools" /\ Answer(result) /\ UNCHANGED asked
    BY DEF Exhausted
<1>2. Receipts
    BY <1>1, Quietly DEF Fail, Inv, TypeOK, AskedType
<1>3. CASE phase \in {"aggregate", "stage"} /\ Fail
    BY <1>2, <1>3, FailInv
<1>4. ASSUME phase \in Drafting \ {"running"} PROVE Sound(result)
  <2>1. result \in Result /\ result.cost \in Nat /\ result.trace \in Nat
    BY Numbers DEF Inv, TypeOK
  <2>2. (~ Is({"compose"}) => billed' = result.cost) /\ ran' = result.trace
    BY <1>1, <1>4, <2>1 DEF Inv, Costs, Traces, Open, NoReply, Drafting
  <2>3. ~ Tracked /\ (Textual => result.answer \in Kinds)
    BY <1>4, DraftPhase
  <2> QED BY <2>1, <2>2, <2>3 DEF Sound, Accounts
<1>5. CASE phase \in {"criticise", "refine", "reflect"} /\ Done(result)
    BY <1>2, <1>4, <1>5, DoneInv DEF Drafting
<1>6. CASE phase = "tools" /\ Answer(result)
    BY <1>2, <1>4, <1>6, AnswerInv DEF Drafting
<1> QED BY <1>1, <1>3, <1>5, <1>6

LEMMA TimeoutInv == ASSUME Inv, Timeout PROVE Inv'
<1>1. /\ phase' = "timeout"
      /\ UNCHANGED <<asked, chain, left, result, request, seen, billed, ran>>
    BY DEF Timeout, NoReply
<1>2. TypeOK'
    BY <1>1 DEF Inv, TypeOK, Ended
<1>3. Remaining' /\ Beginning' /\ Stages' /\ Traces' /\ Alone' /\ Costs' /\ Drafts' /\ Mocks'
    BY <1>1 DEF Remaining, Beginning, Stages, Traces, Alone, Costs, Drafts, Mocks, Drafting
<1> QED BY <1>2, <1>3 DEF Inv

LEMMA FreshType == Fresh \in Result /\ Fresh.cost = 0 /\ Fresh.trace = 0
BY DEF Fresh, Result, Kinds

LEMMA InitInv == Init => Inv
<1> SUFFICES ASSUME Init PROVE Inv
    OBVIOUS
<1>1. TypeOK
    BY FreshType, MoAAssumption DEF Init, TypeOK
<1>2. Remaining /\ Beginning /\ Stages /\ Traces /\ Alone /\ Costs /\ Drafts /\ Mocks
    BY FreshType DEF Init, Remaining, Beginning, Stages, Traces, Alone, Costs, Open, Drafts,
                     Mocks, Drafting
<1> QED BY <1>1, <1>2 DEF Inv

LEMMA BeginInv == ASSUME Begin PROVE Inv'
<1>1. TypeOK'
    BY FreshType, MoAAssumption DEF Begin, TypeOK
<1>2. Remaining' /\ Beginning' /\ Stages' /\ Traces' /\ Alone' /\ Costs' /\ Drafts' /\ Mocks'
    BY FreshType DEF Begin, Remaining, Beginning, Stages, Traces, Alone, Costs, Open, Drafts,
                     Mocks, Drafting
<1> QED BY <1>1, <1>2 DEF Inv

LEMMA NextInv == Inv /\ [Next]_vars => Inv'
<1> SUFFICES ASSUME Inv, [Next]_vars PROVE Inv'
    OBVIOUS
<1>1. ASSUME Progress PROVE Inv'
  <2>1. ASSUME NEW r \in Refs, RefFails(r) PROVE Inv'
    BY <2>1, RefFailsInv
  <2>2. ASSUME NEW r \in Refs, NEW k \in Kinds, RefReplies(r, k) PROVE Inv'
    BY <2>2, RefRepliesInv
  <2>3. ASSUME NEW k \in Kinds,
               \/ Aggregate(k) \/ ChainStep(k) \/ Criticise(k) \/ Refine(k)
               \/ Reflect(k) \/ Stage(k) \/ UseTools(k)
        PROVE  Inv'
    BY <2>3, AggregateInv, ChainStepInv, CriticiseInv, RefineInv, ReflectInv, StageInv,
       UseToolsInv
  <2>4. ASSUME \/ Dispatch \/ Gather \/ GatherAnyway \/ Layer
               \/ ToolsReturn \/ EndpointFails \/ Exhausted
        PROVE  Inv'
    BY <2>4, DispatchInv, GatherInv, GatherAnywayInv, LayerInv, ToolsReturnInv,
       EndpointFailsInv, ExhaustedInv
  <2> QED BY <1>1, <2>1, <2>2, <2>3, <2>4 DEF Progress
<1>2. CASE Timeout
    BY <1>2, TimeoutInv
<1>3. CASE Receive
    BY <1>3, BeginInv DEF Receive
<1>4. CASE UNCHANGED vars
  <2>1. Good' = Good
    BY <1>4 DEF vars, Good
  <2>2. TypeOK'
    BY <1>4 DEF vars, Inv, TypeOK
  <2>3. Remaining' /\ Beginning' /\ Stages' /\ Traces' /\ Alone' /\ Costs' /\ Drafts' /\ Mocks'
    BY <1>4, <2>1, TrackedPrime DEF vars, Inv, Is, Alone, Remaining, Beginning, Stages, Traces,
                                    Drafts, Drafting, Costs, Open, Mocks
  <2> QED BY <2>2, <2>3 DEF Inv
<1> QED BY <1>1, <1>2, <1>3, <1>4 DEF Next

THEOREM Invariance == Spec => []Inv
BY InitInv, NextInv, PTL DEF Spec

-----------------------------------------------------------------------------
(* Every variable keeps its type: counted rounds, stages and layers are    *)
(* never below zero, and a recorded answer is one of the known kinds.      *)
THEOREM TypeCorrect == Spec => []TypeOK
<1>1. Inv => TypeOK
    BY DEF Inv
<1> QED BY <1>1, Invariance, PTL

(* total_cost counts every reply, but for compose's references.            *)
THEOREM CostsAreComplete == Spec => []CostIsComplete
<1>1. Inv => CostIsComplete
  <2> SUFFICES ASSUME Inv, phase = "answered", ~ Is({"compose"}) PROVE result.cost = billed
    BY DEF CostIsComplete
  <2>1. result.cost \in Nat
    BY Numbers DEF Inv, TypeOK
  <2> QED BY <2>1 DEF Inv, Costs, Open
<1> QED BY <1>1, Invariance, PTL

(* Where every provider is recorded, mock output is labelled (moa.py:440). *)
THEOREM MockIsTracked == Spec => []TrackedMockIsLabelled
<1>1. Inv => TrackedMockIsLabelled
    BY DEF Inv, Mocks, TrackedMockIsLabelled
<1> QED BY <1>1, Invariance, PTL

(* The answer is what some model said, but for three strategies.           *)
THEOREM AnswersAreSaid == Spec => []AnswersAreModelOutput
<1>1. Inv => AnswersAreModelOutput
    BY DEF Inv, Drafts, Textual, AnswersAreModelOutput
<1> QED BY <1>1, Invariance, PTL

(* tool_trace has every tool round of an answered request.                 *)
THEOREM ToolRunsTraced == Spec => []RunsAreTraced
<1>1. Inv => RunsAreTraced
  <2> SUFFICES ASSUME Inv, phase = "answered" PROVE result.trace = ran
    BY DEF RunsAreTraced
  <2>1. result.trace \in Nat
    BY Numbers DEF Inv, TypeOK
  <2> QED BY <2>1 DEF Inv, Traces
<1> QED BY <1>1, Invariance, PTL

LEMMA DraftStays == ASSUME [Next]_vars, HasDraft PROVE phase' # "failed"
<1>1. phase \in Drafting
    BY DEF HasDraft, Drafting
<1>2. ASSUME NEW res, Done(res) PROVE phase' # "failed"
    BY <1>2 DEF Done, Answer, Call
<1>3. ASSUME NEW k \in Kinds, Criticise(k) \/ Refine(k) \/ Reflect(k) PROVE phase' # "failed"
    BY <1>2, <1>3 DEF Criticise, Refine, Reflect, Round, Call
<1>4. ASSUME NEW k \in Kinds, UseTools(k) PROVE phase' # "failed"
    BY <1>4 DEF UseTools, Answer
<1>5. CASE ToolsReturn \/ EndpointFails \/ Timeout
    BY <1>1, <1>5 DEF ToolsReturn, Answer, Call, EndpointFails, Timeout, Drafting
<1>6. CASE Exhausted
    BY <1>1, <1>2, <1>6 DEF Exhausted, Answer, Drafting
<1>7. CASE UNCHANGED vars
    BY <1>1, <1>7 DEF vars, Drafting
<1>8. /\ ~ Dispatch /\ ~ Gather /\ ~ GatherAnyway /\ ~ Layer /\ ~ Receive
      /\ \A r \in Refs, k \in Kinds : ~ RefFails(r) /\ ~ RefReplies(r, k)
      /\ \A k \in Kinds : ~ Aggregate(k) /\ ~ ChainStep(k) /\ ~ Stage(k)
    BY <1>1 DEF Drafting, Dispatch, Gather, GatherAnyway, Layer, AllBack, Receive, Ended,
                RefFails, RefReplies, Aggregate, ChainStep, Stage
<1>9. \A r \in Refs : ~ RefFails(r)
    BY <1>1 DEF Drafting, RefFails
<1> QED BY <1>3, <1>4, <1>5, <1>6, <1>7, <1>8, <1>9 DEF Next, Progress

(* A draft is not lost to a failing critic, revision or tool loop.         *)
THEOREM DraftsSurvive == Spec => DraftSurvives
<1>1. [Next]_vars => [HasDraft => phase' # "failed"]_vars
    BY DraftStays
<1> QED BY <1>1, PTL DEF Spec, DraftSurvives
=============================================================================
