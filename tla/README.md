# HYDRA multi-provider: verification project

TLA+ models of HYDRA's supervisor, its semantic cache and its wire contract, the
TLC runs that check them on small instances, and TLAPS proofs of their main
properties for every value of the constants. Paths below are relative to the
repository.

## 1. The system

HYDRA answers employees' questions with one of five specialist agents. A
**client** calls `SubmitQuery` on the **gateway** (TypeScript, Connect), which
relays the call to the **supervisor** (Python, `grpc.aio`, one asyncio event loop).
The supervisor looks the query up in a **semantic cache** in Redis, else routes it
(by embedding, or by asking a model), streams the agent's answer from the first
model of the **default pool** that works, asks a model how sure it is, streams a
second answer from the **escalation pool** when it must, caches the answer and ends
the stream with metadata.

| component | source | state it keeps | operations |
|---|---|---|---|
| semantic cache | `supervisor/cache/semantic_cache.py` | one Redis hash per entry; of a lookup: SCAN cursor, best entry so far | `get_similar` (SCAN, then an HGETALL per key), `set` (one HSET), `ping` |
| query pipeline | `supervisor/main.py` | per request: position, agent, tier, candidate, parts, results of the tiers, chunks sent | `_submit_query_impl` with `_stream_tier`, `_finalize`; `SubmitQuery`, `Health` |
| wire contract | `proto/hydra/v1/query.proto` | the stream of a call | token, escalating, final, error |
| model pools | `supervisor/models/model_pool.py` | none (two constant lists) | `run_with_fallback`, `make_chat_model` |
| routers | `supervisor/routing/` | none | embedding router; `llm_decide_route` |
| confidence check | `supervisor/agents/confidence.py` | none | `assess_confidence` |
| agents, streaming | `supervisor/agents/` | LangGraph's, per call | `stream_agent_answer`, five agents with stub tools |
| clients | `scripts/test_client*.py`, `eval/run_eval.py` | the answer so far | accumulate tokens, reset on a notice |
| gateway | `gateway/src/` | a call in progress | relay `submitQuery` with an abort signal, `health` with a fallback |
| tracing | `supervisor/observability.py` | Langfuse's buffer | `trace_config`, `flush` |
| health and start-up | `supervisor/healthcheck.py`, `docker-compose.yml`, `infra/k8s/` | pod state | probes, restarts, dependency order |
| configuration | `supervisor/config.py` | constants read at import | none |

**Interactions.** Requests are coroutines of one event loop: they interleave at
awaits and yields only, and share exactly one thing, the Redis store. A stream is a
chain of async generators (`_stream_tier` inside `_submit_query_impl` inside
`SubmitQuery`), so that a cancellation arrives as an exception at whatever await or
yield the innermost one is at. Results of a tier come back through a dict
(`result_holder`), whose keys are the control flow: `fatal`, `answer`, `exhausted`.

**What is hard here, and what makes each component correct.**

- *Cache.* A lookup is not atomic: the store changes under it. It is correct when a
  miss overlooks nothing that was there throughout, a hit is the best of what was
  there throughout and is an entry that really was there, and the lookup ends when its
  commands are answered or fail. Keys
  are `abs(hash(query))`: queries may collide, and every process has its own seed.
- *Pipeline.* Five models in two tiers may each fail before the first token (then
  the next is tried) or after it (then the call must end, since tokens cannot be
  unsent), or stream nothing at all. The two tiers' results must not be mixed, neither
  in the stream nor in the metadata nor in the cache, on any path, including "the
  escalation failed, keep the first answer". Nothing that is partial may be cached,
  although callers cancel and the process dies at any step.
- *Wire contract.* At most one notice, one terminal chunk, nothing after it.
- *Health and start-up.* Deadlines: a probe of 3 s (1 s under Kubernetes) against an
  event loop that encoder, router and `flush()` block; a start-up download against a
  liveness probe.

- *Agents.* A candidate's agent alternates turns of the model and rounds of tools, may
  fail in any of them, and is stopped by a limit per run: the tier must not go on after
  something was sent, and must end.
- *Delivery.* A call crosses two connections and three processes, each of which may go
  at any moment: nobody may be left waiting, a request that nobody waits for must stop,
  and the harness must not pass a call that was cut.

The hazards found while reading are listed, each at its line, in `PROJECT.json`
(`hazards`), with the properties that cover them or a note why none does yet.

## 2. The modules

| module | what it is |
|---|---|
| `SemanticCache` | `get_similar` and `set` over a Redis that stops, restarts and is flushed |
| `SemanticCacheHistory` | the same with two history variables, and the properties of a lookup |
| `QueryStream` | the abstract specification of one call's stream: the wire contract |
| `Supervisor` | `SubmitQuery`, end to end; instantiates `SemanticCache` |
| `SupervisorProperties` | what callers and later requests rely on; the refinement mapping to `QueryStream` |
| `TierStream` | the abstract specification of `_stream_tier`: what a request may expect of a tier |
| `AgentTier` | a tier with the agents' tool loops inside; implements `TierStream` |
| `Delivery` | client, gateway and supervisor; extends `SupervisorProperties` |
| `Deployment` | the supervisor's container under the kubelet's probes, with a clock |
| `MCSemanticCache`, `MCSupervisor`, `MCDelivery` | small instances for TLC |
| `*_proofs` | theorems and proofs |

### SemanticCache

State: `store` (the hash at each key), `up` (Redis answers), `salt` (the str-hash
seed of the running process), and for each task its `query`, whether it is
`scanning`, the keys its SCAN has still `todo`, and its `best` entry.

| code | definition |
|---|---|
| first SCAN, `best_score, best_entry = -1.0, None` | `Begin` |
| HGETALL of a key and the comparison | `Visit`, `Better` |
| `return {...}` / `return None` | `Hit` / `Miss` |
| an exception of the redis client; a cancellation | `Raise`; `Abandon` |
| `set` | `Put` |
| a new supervisor process | `Restart` |
| the Redis server | `RedisStops`, `RedisStarts`, `Flush` |

SCAN is modelled by what Redis guarantees: keys present from the beginning to the
end of an iteration are returned; keys that come meanwhile may be; any key may be
returned more than once; after the server was replaced a cursor guarantees
nothing. An embedding is a function of its query (the encoder is deterministic),
so an entry holds the query for both, and the cosine similarity is a constant
`Score` of two queries, *any* integer function: not even symmetry or that a query
is most similar to itself is assumed. Scores at or below -1.0, which Python's
initial `best_score` excludes, are below every threshold and so do not matter.

### QueryStream

`stream` (the kinds of the chunks sent) and `state` (open, closed by a final or an
error, or broken by a gRPC status) of every call. It is the comment of
`query.proto:16-18,37-42` as a specification: tokens, at most one notice, one
terminal chunk, and nothing after a call is closed or broken. `Break` is a way out that
the comment does not name: any gRPC call may end with a status, as it does when it is
cancelled. So the contract cannot say that a call which was *not* cut has its terminal
chunk; that the supervisor's own exceptions end calls without one is shown by
`redis_outage` and `confidence_check`.

### Supervisor

One process per request; a step is what the coroutine does between two awaits or
yields. `pc` is where the request is:

    idle -> lookup -> replay -> closed                      (hit)
               |
               +-> route -+
               |          v
               +------> stream -> assess -> caching -> stored -> closed
                          ^          |
                          +- notice -+                      (escalation)

plus the ends `cancelled`, `redis_error`, `route_error`, `assess_error` and `crashed`, in which the
caller gets a gRPC error or nothing. The other state is the code's: `agent`
(`agent_name`), `tier` (the pool passed to `_stream_tier`), `idx` (the candidate of
the `for`; on a hit, the words replayed), `chk` (the candidate of
`run_with_fallback`), `parts`, `result` (`answer_text`, `model_used`, `escalated`),
`out` (the chunks sent).

| code | actions |
|---|---|
| `await cache.get_similar` and the replay of a hit | `Receive`, `Scan`, `LookupHit`, `LookupRaises`, `ReplayWord`, `ReplayFinal` |
| routing | `RouteByEmbedding` (same step as the miss: no await between), `RouteUnsure`, `LLMRoute`, `LLMRouteFails` |
| `_stream_tier`: a token, a failure before and after the first one, the end | `SendToken`, `NextCandidate`, `Interrupted`, `StreamEnds` |
| the confidence check | `Assess`, `AssessesNothing`, `NextChecker`, `NoChecker` |
| a pool without an answer | `DefaultExhausted`, `AllTiersExhausted`, `KeepDefaultAnswer` |
| `_finalize` | `Store`, `StoreRaises`, `Final` |
| `SubmitQuery`'s caller, the process, Redis | `Cancel`, `Crash`, `RedisChanges` |

Failures. Every provider call may fail; a candidate without an API key is one
that fails at once. A failure of HSET happens before it took effect (`StoreRaises` at
`caching`) or after (`stored`: only the reply is lost). `CancelledError` is no
`Exception`, so none of the handlers catches it. A router or a checker whose model
calls no tool gives None instead of raising: reading `decision.agent_name` of it is one
of the failures of `LLMRouteFails`, reading `assessment.confidence` of it is
`AssessesNothing`. A crash ends all requests at once,
keeps the store, and gives the next process another hash seed.

Abstractions. A token is a record that names the query, the model, its position and
the length of the answer it belongs to: a mixture or a fragment of answers is
visible as such. It stands for one word, so that the replay, which splits the
cached text at blanks and sends each word with a blank after it (`padded`), has as
many chunks; the empty answer is replayed as one blank word, as `"".split(" ")`
has it. The comparison of the confidence with its threshold is the boolean `sure`.
Texts of errors, latency, request ids and logging are left out. The embedding router
is a constant function of the query, `SemanticRoute`.

### TierStream and AgentTier

`AgentTier` opens what `Supervisor` takes for granted: that a candidate is a source of
tokens that ends or fails. `idx` is the candidate of the `for` loop of `_stream_tier`,
`step` the LangGraph superstep its agent is in (a turn of the model or a round of
tools), `said` and `tooling` what the model's turn has sent so far, `yielded` the chunks
the caller got, each with its candidate and superstep.

| code | actions |
|---|---|
| `build_agent`, `make_chat_model` and its exceptions | `Build`, `BuildRaises` |
| the filter `chunk.content and not chunk.tool_call_chunks` | `ContentChunk`, `ToolCallChunk` |
| LangGraph (external), with `recursion_limit` | `ToolTurnEnds`, `ToolsReturn`, `FinalTurnEnds`, `LimitReached` |
| the provider fails | `ModelRaises` |
| `except` with `sent_any`, in `_stream_tier` | `Raises` (part of every failing action) |

LangGraph is modelled from how the code uses it: it counts supersteps of a run and
raises when the next one would exceed the limit. The tools are stubs that return; what
an unknown tool returns is a message to the model. `TierStream` is what is left when the
agents are hidden: a token is sent, the next candidate is tried while none was, and the
tier succeeds, is interrupted or is exhausted. It has the guards of `Supervisor`'s
`SendToken`, `NextCandidate`, `Interrupted`, `StreamEnds` and the two `Exhausted` actions.

### Delivery

The client is `run_eval.py`, which runs one case after another, may be interrupted, and
started again. `gateway` is the state of the gateway's call to the supervisor, `got` how
many chunks of `out` have reached the client: chunks in between are in the gateway or on
a connection, and are lost when one of them goes.

| code | actions |
|---|---|
| `run_eval.main`; an interrupted client | `Call`; `Leave` |
| `for await ... yield chunk` in `connect.ts` | `Relay`, `RelayEnds`, `RelayFails` |
| `signal: context.signal` | `Abort`, then `CancelUpstream` (grpc.aio cancels the coroutine) |
| the gateway's process | `GatewayCrash` |
| `SubmitQuery` | `Accept`, `Serve` |

`Passed` is the verdict of `run_one`, clause by clause. Its search for leaked patterns is
left out: a token has no text. What other callers have cached before is `CachedBefore`:
any whole answer, which is all there may be by the theorem `CacheHoldsWholeAnswers`.

### Deployment

Time is counted in ticks; `Tick` is disabled while a probe is due. `left` are the ticks
of start-up left (imports, the download of the encoder's model), `busy` those for which
`flush()` still blocks the event loop, `liveIn`, `liveFails`, `readyIn`, `readyFails` the
kubelet's timers and counters, `ready` whether the Service sends calls to the pod, and
`mute` (history) the ticks since the container could last answer.

| code | definitions |
|---|---|
| `serve`, `Health`, `ping`, `healthcheck.main` | `Listening`, `HealthResponds`, `PingReturns`, `Answers` |
| exceptions at import (no key, no download) | `StartUpFails` |
| tracing set up, or not (`observability.py`) | `Handlers` |
| `flush()` in the `finally` of `SubmitQuery` | `Flush` |
| `readinessProbe`, `livenessProbe` (kubelet, external) | `FirstProbe`, `LivenessSucceeds`, `LivenessFails`, `Kill`, `ReadinessSucceeds`, `ReadinessFails` |

A failing `ping()` is an answer ("degraded"), a silent Redis is none. A probe succeeds iff
the container can answer at that moment: waits shorter than a tick, such as
the script's 3 s or the kubelet's own 1 s for an exec, are below the
model's resolution, and so is the encoder, which blocks the loop for milliseconds. `Kill`
restarts at once: neither the kubelet's back-off before a restart nor the termination
grace period (30 s unless the manifest says otherwise, which it does not), for which a
container that ignores SIGTERM goes on, is counted in the bounds below.

## 3. What the runs check

| run | instance | properties |
|---|---|---|
| `cache` | 2 lookups, 3 queries (two of them paraphrases), 2 keys, 2 hash seeds | `HTypeOK`, `NoStaleHit`, `ScanInv`, `NoFalseMiss`, `HitIsMostSimilar`, `LookupEnds` |
| `pools` | 1 request, pools of 2 and 3 models, answers of 0, 1 or 3 tokens | `TypeOK`, `RequestInv`, `CachedAnswersAreWhole`, `StreamInv`, `SegmentsAreNotMixed`, `FinalDescribesStream`, `ErrorsTellTheTruth`, `WireContract` |
| `requests` | 2 requests, 2 queries whose keys collide, pools of 1 and 1, answers of 0 or 2 tokens | `CachedAnswersAreWhole`, `StreamInv`, `FinalDescribesStream`, `LostAnswersAreExplained`, `WireContract` |
| `liveness` | 2 requests, 2 queries whose keys collide, pools of 1 and 1, one agent, answers of 0 or 1 token | `EveryRequestEnds`, `HangsOnlyAtRedis` |
| `agents` | 3 candidates, one without a key, a limit of 10 supersteps, 2 chunks a turn | `TypeOK`, `RunInv`, `CallsAreBounded`, `KeepsTierContract`, `TierEnds` |
| `delivery` | 1 call, 2 queries, warm or cold cache, pools of 1 and 1, answers of 0 or 1 token | `DeliveryTypeOK`, `VerdictIsSound`, `AbandonedCallStops`, `EveryCallEnds` |
| `deployment` | the numbers of `03-supervisor.yaml`, a tick of 5 s | `DeploymentInv`, `MuteIsBounded`, `RotationIsSound`, `StartUpIsNotKilled`, `ComesBack` |

- `NoStaleHit`: a lookup's best entry was in the store while it ran. `NoFalseMiss`:
  it returns nothing only if no entry that stayed was similar enough.
  `HitIsMostSimilar`: what it returns is at least as similar as every entry that
  stayed. `ScanInv` is the loop invariant behind the two. `LookupEnds`: a lookup ends if
  its own commands are answered or fail.
- `CachedAnswersAreWhole`: an entry is a complete answer of the model it names to
  the query it is filed under, by the agent of that query.
- `SegmentsAreNotMixed`: between notices, the caller sees one model's tokens in order.
- `FinalDescribesStream`: the metadata is true of the stream it ends: the model, the tier
  and the agent, also the agent of a cached answer.
- `LostAnswersAreExplained`: a client that holds no answer at the final was told to drop
  it by the notice of a failed escalation, or its model answered nothing. It says that the
  violations of `failed_escalation` and `empty_answer` below come about in no other way.
- `ErrorsTellTheTruth`: what the two error codes say is what happened.
- `StreamInv`: what a request has sent follows from the rest of its state; it is the
  inductive invariant behind the three before.
- `WireContract`: the supervisor implements `QueryStream`.
- `EveryRequestEnds`: a received request ends if its own Redis commands are answered or
  fail. `HangsOnlyAtRedis`: whatever Redis does, a request that is past its lookup ends or
  gets to its write.
- `KeepsTierContract`: a tier with agents inside implements `TierStream`.
  `CallsAreBounded`: it makes at most 5 calls of a model per candidate; `RunInv` is the
  accounting behind that. `TierEnds`: it ends though every model calls tools for ever.
- `VerdictIsSound`: a case that `run_one` passes has its whole stream, closed by a final
  that is true of it (`FinalIsTrue`) and names the expected agent, although `run_one` does
  not ask for a final; and the answer which that final is about, to the case's own query or
  a cached one to a similar query, is not blank. The one exception is an escalated answer:
  see section 5.
- `AbandonedCallStops`: a request whose client or gateway has gone ends, also when its
  provider never answers, and also when Redis does not. `EveryCallEnds`: no client waits for
  ever, if the supervisor goes on (its Redis commands included) or dies.
- `StartUpIsNotKilled`: the liveness probe kills no container that is still starting.
  `MuteIsBounded`: a container that cannot answer exits or is restarted within 27 ticks (135 s).
  `RotationIsSound`: the Service sends calls only to a container that listens, and for
  at most 20 ticks (100 s) to one that has stopped to answer. `ComesBack`: when the
  disturbance is over the pod becomes ready and stays so, also without Redis.

Five runs expect a violation, each of a statement that the repository makes about
itself and the code does not keep (`findings` in `PROJECT.json`):

| run | statement | what happens |
|---|---|---|
| `redis_outage` | `scripts/test-k8s.ps1:115-117`: without Redis "nothing crashes, it's just slower" | the exception of the lookup or of the write ends the call |
| `confidence_check` | `main.py:151-154`: "the confidence check is best-effort: if IT fails, we still have a perfectly good answer" | a checker that calls no tool gives None, which nothing catches: the call dies at `main.py:242` with its answer streamed |
| `failed_escalation` | `main.py:265-267`: a failed escalation keeps the default answer "rather than leaving the user with nothing" | the notice has made the client drop that answer (`scripts/test_client.py:75`), and nothing is streamed again |
| `empty_answer` | `eval/run_eval.py:73-74`: an answer without an error must not be empty | a stream without a token is a success, and is cached |
| `prose_before_tool` | `agents/streaming.py:26-27`: it yields tokens of "the agent's final turn" | text that a model writes before it calls a tool is streamed and joins the answer |

**Bounds, and why they are enough.** No counter needs a bound: every run is over a
finite state space. `cache`: a collision needs two queries and one key, a lookup that
should hit a paraphrase and one that should not need a third query, a reordering two
keys; both seeds place the queries differently, so that a restart leaves duplicates
and orphans behind. `pools`: the pools have the sizes of `model_pool.py:75-86`, so
that "first", "next" and "last" candidates differ in both tiers. Its one request
starts from an empty cache and so always misses; hits come with `requests`: one
request served by the other's entry, of the same query or of its paraphrase, two
concurrent misses, and the second write over the first. It runs with the seed
under which a query and its paraphrase have one key, so that a write may also replace the
entry of another query that a request has just read. A lookup of that run finds at
most one entry; lookups among several entries are the subject of `cache`, and the
theorem `SupervisorUsesCache` carries its results over to the supervisor.
Lengths 0, 1, 2 and 3 give the empty answer, an interruption after the first token, in the middle, and a segment long enough to be mixed. `requests` is
reduced by the symmetry of the two requests (it checks no liveness); `liveness` is not, and
has one agent instead, since nothing in the way a request ends depends on the agent. Its
answers of 0 tokens include the replay of an empty answer.

`agents`: the real limit and the larger pool; the candidate without a key is the middle
one, so that falling back over it, and exhausting the pool after it, both happen. Two
chunks a turn tell the first token, which closes the way back, from a later one.
`delivery` has one call because calls meet only in the cache, which `requests` covers;
an abandoned call and a new one do not touch each other in the gateway. One token is enough for a
chunk to be lost in front of a final. `deployment`: start-ups of 20 s and 40 s, as
documented, and of 120 s, the longest that survives the liveness probe; a flush blocks for
one tick (no probe need see it) or ten (longer than three liveness periods), again and
again; the two thresholds meet, since a container that falls silent before its first
liveness probe leaves the Service before it is killed.

A request ends once and is not sent again. `AgentTier.cfg` and `MCDelivery.cfg` turn deadlock
checking off, because a tier and a call really stop. It is on in the other passing runs, but
as Redis can always be flushed it says little there: that no request gets stuck is what
`EveryRequestEnds` and `LookupEnds` show.

**Fairness.** The supervisor's `Fairness` is weak fairness of each request's own next step
while it does *not* await Redis. A provider's call returns, yields or fails in the end,
because the client library has a timeout and a retry limit by default (`make_chat_model`
sets none), `max_tokens=1024` bounds an answer and `RECURSION_LIMIT = 10` an agent's
tool loop; asyncio resumes every coroutine that is ready. Nothing of the kind is true of
Redis: `semantic_cache.py:32` sets no socket timeout, so a server that accepts and stays
silent (a fault of `Deployment`, too) holds a command for ever, and no specification here is
fair to it. The two properties that need an answer say so themselves, task by task:
`LookupEnds` and `EveryRequestEnds` have "if this request's own Redis steps are taken" as
their premise, and `HangsOnlyAtRedis`, which has no premise, says that a request hangs
nowhere else. A Redis that refuses is covered by all three. Nothing is assumed of the
environment: Redis need not come back, callers need not cancel, processes need not crash.
`Progress` leaves out the optional visit of keys that SCAN may or may not return, so that
termination does not rest on it.

`AgentTier` assumes the same of a candidate: its next step comes. `DeliverySpec` is fair
to the connections and the gateway only (what is sent arrives or the connection breaks;
an aborted call is cancelled upstream), not to the supervisor: `AbandonedCallStops` must
not rest on a provider that answers. `EveryCallEnds` names its own assumption, that the
supervisor goes on, which includes that Redis answers it or fails. `Deployment` is fair to `Clockwork`: time passes and the kubelet
probes. `ComesBack` names the rest: eventually no flush blocks the loop any more and no fault stops Health or start-up.

## 4. What is proved

For any sets of requests, queries, keys, seeds, models and agents, any non-empty
pools, any hash function, any similarity and any answer lengths. The assumptions
are those named in the modules: `CacheAssumption` and `CacheParameters` (types of
`KeyOf`, `Score`, `Threshold`), `SupervisorAssumption` (pools are non-empty sequences
of models, routes are agents), that `None` is none of the values it stands in for,
`TierAssumption` (a pool is not empty, the limit is positive), `DeploymentAssumption`
(periods and thresholds are positive) and `StartUpAssumption` (a start-up fits
before the liveness probe's last failure, 120 s with the numbers of the manifest).

| module | theorem | statement |
|---|---|---|
| `SemanticCacheHistory_proofs` | `TypeCorrect` | `Spec => []TypeOK`, of `SemanticCache` |
| | `HTypeCorrect`, `NeverStale`, `ScanInvariant` | `[]HTypeOK`, `[]NoStaleHit`, `[]ScanInv` |
| | `MissIsTrue`, `HitIsBest` | `NoFalseMiss`, `HitIsMostSimilar` |
| `QueryStream_proofs` | `ContractHasOneTerminal` | `Spec => []OneTerminalChunk`: a call is closed iff its last chunk is terminal, and no other chunk is |
| `Supervisor_proofs` | `SupervisorTypes`, `SupervisorInvariant` | `[]TypeOK`, `[](TypeOK /\ RequestInv)` |
| | `CacheHoldsWholeAnswers` | `[]CachedAnswersAreWhole` |
| | `SupervisorUsesCache` | `Spec => UsesCache`: the steps on the cache are steps of `SemanticCache` |
| `SupervisorContract_proofs` | `SupervisorKeepsContract` | `Spec => WireContract` |
| `SupervisorStream_proofs` | `StreamInvariant` | `[]StreamInv` |
| | `SegmentsUnmixed`, `FinalsAreTrue`, `ErrorsAreTrue` | `[]SegmentsAreNotMixed`, `[]FinalDescribesStream`, `[]ErrorsTellTheTruth` |
| | `LossesExplained` | `[]LostAnswersAreExplained` |
| `Delivery_proofs` | `DeliveryTypes` | `DeliverySpec => []DeliveryTypeOK` |
| | `DeliveryKeepsContract` | `DeliverySpec => WireContract` |
| | `VerdictsAreSound` | `DeliverySpec => []VerdictIsSound` |
| `AgentTier_proofs` | `TierTypes`, `RunInvariance`, `CallBound` | `[]TypeOK`, `[](TypeOK /\ RunInv)`, `[]CallsAreBounded` |
| | `Refinement` | `Spec => KeepsTierContract` |
| `Deployment_proofs` | `Invariance` | `[]DeploymentInv` |
| | `MuteBound`, `Rotation`, `StartUp` | `[]MuteIsBounded`, `[]RotationIsSound`, `StartUpIsNotKilled` |

The arguments:

- *Cache.* `ScanInv` with `HTypeOK` is inductive: a key whose entry has not changed
  since the lookup began ("steady") and that SCAN has returned has been compared, so
  `best` is at least as similar; a key that is still in `todo` has not. When `todo` is
  empty every steady key has been compared, which is `NoFalseMiss` and
  `HitIsMostSimilar`. A write makes its key unsteady; a replaced server makes all of
  them so.
- *Supervisor.* `TypeOK` is not inductive alone: that `Model(r)` exists needs
  `idx[r] \in DOMAIN Pool(r)` (`ControlInv`), and that a stored value is an answer
  needs `AnswerInv`: while a tier is streamed, `parts` is the beginning of an answer
  of the candidate being tried; when it ends, it is that answer; a `result` is a
  complete answer of the model it names. The third conjunct survives the failure
  of the escalation tier, when `idx` and `tier` have moved on: that is why `model_used` has
  to be kept with the answer. `CachedAnswersAreWhole` is inductive relative to it.
- *Contract.* The refinement mapping takes the kinds of the chunks in `out` for the
  stream, and `pc` for the state. The step that needs an invariant is the notice: a
  request in the default tier has sent none (`NoticeInv`), and no path leads back.
  `ContractHasOneTerminal` then says what the contract means for a caller: a closed call has
  a terminal chunk, and where there is one the call is closed and it is the last.
- *Streams.* None of the three properties of what a caller is told is inductive: `parts`
  is reset by the notice, and the metadata is sent two steps after the last token. So
  `StreamInv` says what `out` is while the request goes on: the default tier's tokens so
  far, which are `parts`; or that tier's answer, the notice and `parts`; or the words
  replayed so far, of a cached answer that is whole and similar enough (`LookupInv`, from
  `CachedAnswersAreWhole` when the entry is read: the entry may be overwritten
  before the replay). A result is shown whole, before the notice or after it
  (`ResultInv`), and its model is of the pool it claims (`PoolInv`). The lemmas on
  sequences (`ShownSegment`, `DefaultFinal`, `EscalatedFinal`, `CachedFinal`) turn
  that into what `FinalTokens` cuts out of the stream. `LostAnswersAreExplained` is
  inductive relative to `StreamInv`: nothing follows the last chunk, and of the four
  actions that close a stream only `ReplayFinal` and `Final` end it with metadata.
- *Delivery.* A step is one of the supervisor, which keeps all of its invariants,
  or stores an earlier answer, which touches nothing but the cache. By the
  contract a stream only grows, and not when it is closed: so `got` never passes its end, and a
  relay that ended well has all of it (`DeliveryInv`, a lemma of `Delivery_proofs`). By
  `TerminalInv` its one terminal chunk is then the metadata that `run_one` looks at, of which
  `FinalDescribesStream` holds. Without an escalation the words that `run_one` has found
  not blank are those of the answer the metadata are about (`WordsOfAnswer`).
- *Agents.* The candidates before `idx` have used at most their share of calls, and the
  current one a call per odd superstep (`RunInv`). The refinement needs that what was yielded is
  the current candidate's: then "nothing yielded by the tier", which `Raises` tests, is `not sent_any`.
- *Deployment.* The time a container has been silent, the time to the next
  liveness probe and a period for each failure that is still forgiven never exceed a
  bound together: time moves ticks from the second to the first, a failed probe from the third to
  the second (`LivenessInv`). `ReadinessInv` is the same for a pod in the Service, and
  `StartUpInv` says that what is left of the start-up fits in the second and third. The
  bounds follow with a silent time or a slack of 0.

Model-checked only: the liveness properties (`LookupEnds`, `EveryRequestEnds`, `HangsOnlyAtRedis`,
`TierEnds`, `AbandonedCallStops`, `EveryCallEnds`, `ComesBack`), which rest on fairness
and so are out of TLAPS's reach. Every invariant and every refinement that a run checks is proved.

## 5. What is not modelled, and why

- What LangGraph does inside a superstep, prompts, and the results of the stub tools: data.
- Embeddings and the router's scores: constants, arbitrary.
- The spans that tracing collects: they live in the external SDK and influence no answer.
  Of tracing, what reaches the rest is modelled: whether `flush()` blocks the loop.
- `docker-compose.yml` and the probes of Redis and the gateway: start-up order without
  state of this program. `Health` in the gateway, which answers "degraded" when the supervisor does not: it keeps no state.
- Growth of the cache, whose entries never expire: not expressible on a bounded key set.
- Generated stubs; configuration (constants of the modules); `test-k8s.ps1`, an
  operator's script; wording, latency and logging; the report of `run_eval.py`.
- `run_one` does not reset its answer at a notice (`run_eval.py:60-61`), so that the text
  it judges is both tiers' answers together: an escalation that streams nothing passes on the
  words of the default tier. The code is modelled as it is (`AnswerNotBlank` looks at every
  token received), and `VerdictIsSound` has the exception.
- The router's single candidate (`llm_router.py:44`): its failure ends the call without the
  other models having been tried. `LLMRouteFails` models it; it is no finding, because the
  comment at `llm_router.py:29-33` owns up to it.
- Start-ups of more than 120 s: `StartUpAssumption` excludes them. The liveness probe would
  kill such a container, which then starts its download again.
- The kubelet's back-off and the termination grace period (see `Deployment`).

## 6. Plan

1. (done) `SemanticCache`, its history properties and proofs.
2. (done) `QueryStream`, `Supervisor`, the refinement between them, its runs and the
   proofs of the invariant, of the cache's contents and of the contract.
3. (done) `TierStream` and `AgentTier`, with the refinement and its proof.
4. (done) `Delivery`: client, gateway and supervisor. Instead of a refinement of a cut FIFO
   stream, which holds by the shape of a position in `out`, the harness's verdict is checked.
5. (done) `Deployment`, with its bounds proved for all numbers.
6. (done) Proofs of `SegmentsAreNotMixed`, `FinalDescribesStream` and `ErrorsTellTheTruth`
   from `StreamInv`, and of `VerdictIsSound` from them.

## 7. Running it

    tlc -config MCSupervisorPools.cfg MCSupervisor
    tlapm Supervisor_proofs.tla

The runs take between a few seconds and two and a half minutes; the proofs a few minutes.
