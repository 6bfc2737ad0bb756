------------------------------ MODULE Supervisor ------------------------------
(***************************************************************************)
(* The supervisor's QueryService.SubmitQuery (supervisor/main.py): every   *)
(* request is a coroutine of one event loop that looks the query up in the *)
(* semantic cache, routes it to an agent, streams the agent's answer from  *)
(* the first model of the default pool that works, lets a model assess it, *)
(* streams a second answer from the escalation pool when it must, writes   *)
(* the answer to the cache, and sends the metadata.                        *)
(*                                                                         *)
(* A step is what a coroutine does between two awaits or yields.  Model    *)
(* providers answer, answer empty, fail before the first token or fail     *)
(* after it; callers cancel; Redis and the process stop at any step.       *)
(*                                                                         *)
(* An answer is a sequence of tokens that say what they are a part of, so  *)
(* that a mixture or a fragment of answers is visible; a token stands for  *)
(* one word, so that the replay of a cached answer has as many chunks.     *)
(***************************************************************************)
EXTENDS Integers, Sequences

CONSTANTS
  Requests,         \* calls of SubmitQuery
  Queries, Keys, Salts, KeyOf, Score, Threshold, None,  \* see SemanticCache
  Agents,           \* the keys of AGENT_BUILDERS
  Models,           \* model ids
  DefaultPool,      \* DEFAULT_POOL, a sequence of models
  EscalationPool,   \* ESCALATION_POOL
  SemanticRoute,    \* the agent the semantic router is sure of, or None
  Lengths           \* how many tokens a complete answer may have

ASSUME SupervisorAssumption ==
  /\ DefaultPool \in Seq(Models) /\ DefaultPool # <<>>
  /\ EscalationPool \in Seq(Models) /\ EscalationPool # <<>>
  /\ SemanticRoute \in [Queries -> Agents \union {None}]
  /\ Lengths \subseteq Nat
  /\ None \notin Agents

(* What SemanticCache assumes of its parameters. *)
ASSUME CacheParameters ==
  /\ KeyOf \in [Salts \X Queries -> Keys]
  /\ Score \in [Queries \X Queries -> Int]
  /\ Threshold \in Int

(* The answer of n tokens that model m gives to query q. *)
Complete(q, m, n) ==
  [i \in 1..n |-> [query |-> q, model |-> m, pos |-> i, total |-> n]]

Token == UNION {[query : Queries, model : Models, pos : 1..n, total : {n}] : n \in Lengths}
Answer == {Complete(q, m, n) : q \in Queries, m \in Models, n \in Lengths}

(* The dict that is given to cache.set, and the one that holds a result. *)
CacheValue == [answer : Answer, agent_name : Agents, model_used : Models]
Result == [answer : Answer, model_used : Models, escalated : BOOLEAN]

ASSUME NoneIsNoRecord ==
  None \notin Result \union [query : Queries, value : CacheValue]

(* ConfidenceAssessment; sure stands for confidence >= the threshold. *)
Assessment == [sure : BOOLEAN, needs_escalation : BOOLEAN]

VARIABLES
  store, up, salt, query, scanning, todo, best,   \* see SemanticCache
  pc,         \* where a request is
  agent,      \* agent_name
  tier,       \* the tier being streamed
  idx,        \* the candidate of its pool, or the words replayed
  chk,        \* the candidate that assesses the answer
  parts,      \* the tokens of the candidate's answer so far
  result,     \* answer_text, model_used and escalated, or None
  out         \* the chunks sent to the caller

cacheVars   == <<store, up, salt, query, scanning, todo, best>>
requestVars == <<pc, agent, tier, idx, chk, parts, result, out>>
vars        == <<cacheVars, requestVars>>

Cache == INSTANCE SemanticCache WITH Tasks <- Requests, Values <- CacheValue

Awaiting == {"lookup", "replay", "route", "stream", "assess", "caching", "stored"}
AwaitingRedis == {"lookup", "caching", "stored"}
Broken == {"cancelled", "redis_error", "route_error", "assess_error", "crashed"}
Ended == {"closed"} \union Broken

------------------------------------------------------------------------------
(* Chunks: the payload of a SubmitQueryResponse *)

Reasons == {"default tier unavailable", "needs stronger reasoning", "low confidence"}
Codes == {"STREAM_INTERRUPTED", "ALL_TIERS_EXHAUSTED"}

(* padded: the word of a replay, sent as word + " "; None is the word "". *)
TokenChunk(tok, padded) == [kind |-> "token", tok |-> tok, padded |-> padded]
EscalationNotice(reason) == [kind |-> "escalating", reason |-> reason]
QueryError(code) == [kind |-> "error", code |-> code]
QueryMetadata(a, m, cached, escalated, method) ==
  [kind |-> "final", agent_name |-> a, model_used |-> m,
   cached |-> cached, escalated |-> escalated, route_method |-> method]

Chunk ==
  [kind : {"token"}, tok : Token \union {None}, padded : BOOLEAN]
    \union [kind : {"escalating"}, reason : Reasons]
    \union [kind : {"error"}, code : Codes]
    \union [kind : {"final"}, agent_name : Agents, model_used : Models, cached : BOOLEAN,
            escalated : BOOLEAN, route_method : {"cache", "semantic_router", "llm_fallback"}]

RequestTypeOK ==
  /\ pc \in [Requests -> {"idle"} \union Awaiting \union Ended]
  /\ agent \in [Requests -> Agents \union {None}]
  /\ tier \in [Requests -> {"default", "escalation"}]
  /\ idx \in [Requests -> Nat]
  /\ chk \in [Requests -> DOMAIN DefaultPool]
  /\ parts \in [Requests -> Seq(Token)]
  /\ result \in [Requests -> Result \union {None}]
  /\ out \in [Requests -> Seq(Chunk)]

TypeOK == Cache!TypeOK /\ RequestTypeOK

Init ==
  /\ Cache!Init
  /\ pc = [r \in Requests |-> "idle"]
  /\ agent = [r \in Requests |-> None]
  /\ tier = [r \in Requests |-> "default"]
  /\ idx = [r \in Requests |-> 1]
  /\ chk = [r \in Requests |-> 1]
  /\ parts = [r \in Requests |-> <<>>]
  /\ result = [r \in Requests |-> None]
  /\ out = [r \in Requests |-> <<>>]

Goto(r, label) == pc' = [pc EXCEPT ![r] = label]
Yield(r, chunk) == out' = [out EXCEPT ![r] = Append(@, chunk)]

(* The last chunk of a request. *)
Close(r, chunk) == Goto(r, "closed") /\ Yield(r, chunk)

------------------------------------------------------------------------------
(* 1. The semantic cache *)

Receive(r) ==
  /\ pc[r] = "idle"
  /\ Cache!Begin(r)
  /\ Goto(r, "lookup")
  /\ UNCHANGED <<agent, tier, idx, chk, parts, result, out>>

Scan(r, k) ==
  /\ pc[r] = "lookup"
  /\ Cache!Visit(r, k)
  /\ UNCHANGED requestVars

LookupHit(r) ==
  /\ pc[r] = "lookup"
  /\ Cache!Hit(r)
  /\ Goto(r, "replay")
  /\ idx' = [idx EXCEPT ![r] = 0]
  /\ UNCHANGED <<agent, tier, chk, parts, result, out>>

(* cached["answer"].split(" "): the empty answer has one word, "". *)
Words(answer) == IF answer = <<>> THEN <<None>> ELSE answer

Cached(r) == best[r].value

(* A loop over the words that stops one short. *)
ReplayStopsShort(r) ==
  LET words == Words(Cached(r).answer) IN
  /\ pc[r] = "replay"
  /\ idx[r] < Len(words) - 1
  /\ Yield(r, TokenChunk(words[idx[r] + 1], TRUE))
  /\ idx' = [idx EXCEPT ![r] = @ + 1]
  /\ UNCHANGED <<cacheVars, pc, agent, tier, chk, parts, result>>

ReplayWord(r) ==
  LET words == Words(Cached(r).answer) IN
  /\ pc[r] = "replay"
  /\ idx[r] < Len(words)
  /\ Yield(r, TokenChunk(words[idx[r] + 1], TRUE))
  /\ idx' = [idx EXCEPT ![r] = @ + 1]
  /\ UNCHANGED <<cacheVars, pc, agent, tier, chk, parts, result>>

(* Metadata sent one word too soon. *)
ReplayFinalEarly(r) ==
  /\ pc[r] = "replay"
  /\ idx[r] >= Len(Words(Cached(r).answer)) - 1
  /\ Close(r, QueryMetadata(Cached(r).agent_name, Cached(r).model_used, TRUE, FALSE, "cache"))
  /\ UNCHANGED <<cacheVars, agent, tier, idx, chk, parts, result>>

ReplayFinal(r) ==
  /\ pc[r] = "replay"
  /\ idx[r] = Len(Words(Cached(r).answer))
  /\ Close(r, QueryMetadata(Cached(r).agent_name, Cached(r).model_used, TRUE, FALSE, "cache"))
  /\ UNCHANGED <<cacheVars, agent, tier, idx, chk, parts, result>>

(* An exception of get_similar is not caught: the call fails. *)
LookupRaises(r) ==
  /\ pc[r] = "lookup"
  /\ Cache!Raise(r)
  /\ Goto(r, "redis_error")
  /\ UNCHANGED <<agent, tier, idx, chk, parts, result, out>>

------------------------------------------------------------------------------
(* 2, 3. Routing *)

(* The semantic router runs without an await after the lookup. *)
RouteByEmbedding(r) ==
  /\ pc[r] = "lookup"
  /\ Cache!Miss(r)
  /\ SemanticRoute[query[r]] # None
  /\ agent' = [agent EXCEPT ![r] = SemanticRoute[query[r]]]
  /\ Goto(r, "stream")
  /\ UNCHANGED <<tier, idx, chk, parts, result, out>>

RouteUnsure(r) ==
  /\ pc[r] = "lookup"
  /\ Cache!Miss(r)
  /\ SemanticRoute[query[r]] = None
  /\ Goto(r, "route")
  /\ UNCHANGED <<agent, tier, idx, chk, parts, result, out>>

(* llm_decide_route asks DefaultPool[1], and only it. *)
LLMRoute(r, a) ==
  /\ pc[r] = "route"
  /\ agent' = [agent EXCEPT ![r] = a]
  /\ Goto(r, "stream")
  /\ UNCHANGED <<cacheVars, tier, idx, chk, parts, result, out>>

(* Its exception is not caught: the call fails. *)
LLMRouteFails(r) ==
  /\ pc[r] = "route"
  /\ Goto(r, "route_error")
  /\ UNCHANGED <<cacheVars, agent, tier, idx, chk, parts, result, out>>

RouteMethod(r) == IF SemanticRoute[query[r]] = None THEN "llm_fallback" ELSE "semantic_router"

------------------------------------------------------------------------------
(* 4. _stream_tier: the candidates of a pool *)

Pool(r) == IF tier[r] = "default" THEN DefaultPool ELSE EscalationPool
Model(r) == Pool(r)[idx[r]]

(* Candidate i of a tier is tried with the parts of the one before. *)
TryWithOldParts(r, t, i) ==
  /\ tier' = [tier EXCEPT ![r] = t]
  /\ idx' = [idx EXCEPT ![r] = i]
  /\ UNCHANGED parts

(* Candidate i of a tier is tried: sent_any = False, parts = []. *)
Try(r, t, i) ==
  /\ tier' = [tier EXCEPT ![r] = t]
  /\ idx' = [idx EXCEPT ![r] = i]
  /\ parts' = [parts EXCEPT ![r] = <<>>]

(* The agent streams one more token of an answer of n. *)
SendToken(r, n) ==
  LET tok == [query |-> query[r], model |-> Model(r), pos |-> Len(parts[r]) + 1, total |-> n] IN
  /\ pc[r] = "stream"
  /\ Len(parts[r]) < n
  /\ parts[r] # <<>> => n = parts[r][1].total
  /\ parts' = [parts EXCEPT ![r] = Append(@, tok)]
  /\ Yield(r, TokenChunk(tok, FALSE))
  /\ UNCHANGED <<cacheVars, pc, agent, tier, idx, chk, result>>

(* The candidate raised: sent_any tells whether the caller has seen it. *)
FailsBeforeFirstToken(r) == pc[r] = "stream" /\ parts[r] = <<>>

(* A fallback that does not look at sent_any. *)
NextCandidateAnyway(r) ==
  /\ pc[r] = "stream"
  /\ idx[r] < Len(Pool(r))
  /\ Try(r, tier[r], idx[r] + 1)
  /\ UNCHANGED <<cacheVars, pc, agent, chk, result, out>>

NextCandidate(r) ==
  /\ FailsBeforeFirstToken(r)
  /\ idx[r] < Len(Pool(r))
  /\ Try(r, tier[r], idx[r] + 1)
  /\ UNCHANGED <<cacheVars, pc, agent, chk, result, out>>

Interrupted(r) ==
  /\ pc[r] = "stream"
  /\ parts[r] # <<>>
  /\ Close(r, QueryError("STREAM_INTERRUPTED"))
  /\ UNCHANGED <<cacheVars, agent, tier, idx, chk, parts, result>>

(* The agent's stream ends: the tokens that came are the answer. *)
StreamEnds(r) ==
  /\ pc[r] = "stream"
  /\ IF parts[r] = <<>> THEN 0 \in Lengths ELSE Len(parts[r]) = parts[r][1].total
  /\ Goto(r, "assess")
  /\ chk' = [chk EXCEPT ![r] = 1]
  /\ UNCHANGED <<cacheVars, agent, tier, idx, parts, result, out>>

------------------------------------------------------------------------------
(* run_with_fallback(DEFAULT_POOL, assess_confidence), in either tier *)

TierResult(r) == [answer |-> parts[r], model_used |-> Model(r), escalated |-> tier[r] = "escalation"]

(* Streamed by the default tier and found wanting: the notice. *)
Escalate(r, reason) ==
  /\ Goto(r, "stream")
  /\ Yield(r, EscalationNotice(reason))
  /\ Try(r, "escalation", 1)

(* An assessment that is also acted on in the escalation tier. *)
AssessedInAnyTier(r, a) ==
  /\ result' = [result EXCEPT ![r] = TierResult(r)]
  /\ IF ~a.sure \/ a.needs_escalation
     THEN Escalate(r, IF a.needs_escalation THEN "needs stronger reasoning" ELSE "low confidence")
     ELSE Goto(r, "caching") /\ UNCHANGED <<tier, idx, parts, out>>
  /\ UNCHANGED <<cacheVars, agent, chk>>

(* The assessment is acted on in the default tier only. *)
Assessed(r, a) ==
  /\ result' = [result EXCEPT ![r] = TierResult(r)]
  /\ IF tier[r] = "default" /\ (~a.sure \/ a.needs_escalation)
     THEN Escalate(r, IF a.needs_escalation THEN "needs stronger reasoning" ELSE "low confidence")
     ELSE Goto(r, "caching") /\ UNCHANGED <<tier, idx, parts, out>>
  /\ UNCHANGED <<cacheVars, agent, chk>>

Assess(r, a) == pc[r] = "assess" /\ Assessed(r, a)

(* A model that calls no tool gives None, and no exception.  The caller of  *)
(* the default tier then reads None.confidence, which nothing catches; the  *)
(* escalation tier's assessment is not read.                               *)
AssessesNothing(r) ==
  /\ pc[r] = "assess"
  /\ tier[r] = "default"
  /\ result' = [result EXCEPT ![r] = TierResult(r)]
  /\ Goto(r, "assess_error")
  /\ UNCHANGED <<cacheVars, agent, tier, idx, chk, parts, out>>

(* The loop of run_with_fallback, with an off-by-one. *)
NextCheckerPastEnd(r) ==
  /\ pc[r] = "assess"
  /\ chk[r] <= Len(DefaultPool)
  /\ chk' = [chk EXCEPT ![r] = @ + 1]
  /\ UNCHANGED <<cacheVars, pc, agent, tier, idx, parts, result, out>>

NextChecker(r) ==
  /\ pc[r] = "assess"
  /\ chk[r] < Len(DefaultPool)
  /\ chk' = [chk EXCEPT ![r] = @ + 1]
  /\ UNCHANGED <<cacheVars, pc, agent, tier, idx, parts, result, out>>

(* All failed: the exception is taken for full confidence. *)
NoChecker(r) ==
  /\ pc[r] = "assess"
  /\ chk[r] = Len(DefaultPool)
  /\ Assessed(r, [sure |-> TRUE, needs_escalation |-> FALSE])

------------------------------------------------------------------------------
(* 5. A pool that is exhausted without a token *)

DefaultExhausted(r) ==
  /\ FailsBeforeFirstToken(r)
  /\ tier[r] = "default"
  /\ idx[r] = Len(DefaultPool)
  /\ Escalate(r, "default tier unavailable")
  /\ UNCHANGED <<cacheVars, agent, chk, result>>

EscalationExhausted(r) ==
  /\ FailsBeforeFirstToken(r)
  /\ tier[r] = "escalation"
  /\ idx[r] = Len(EscalationPool)
  /\ UNCHANGED <<cacheVars, agent, tier, idx, chk, parts, result>>

(* An error although the default tier has answered. *)
GivesUp(r) ==
  /\ EscalationExhausted(r)
  /\ Close(r, QueryError("ALL_TIERS_EXHAUSTED"))

AllTiersExhausted(r) ==
  /\ EscalationExhausted(r)
  /\ result[r] = None
  /\ Close(r, QueryError("ALL_TIERS_EXHAUSTED"))

KeepDefaultAnswer(r) ==
  /\ EscalationExhausted(r)
  /\ result[r] # None
  /\ Goto(r, "caching")
  /\ UNCHANGED out

------------------------------------------------------------------------------
(* _finalize: the write to the cache, then the metadata *)

(* The answer of one model, filed under the model tried last. *)
ValueOfLastModel(r) ==
  [answer |-> result[r].answer, agent_name |-> agent[r], model_used |-> Model(r)]

Value(r) ==
  [answer |-> result[r].answer, agent_name |-> agent[r], model_used |-> result[r].model_used]

Store(r) ==
  /\ pc[r] = "caching"
  /\ Cache!Put(query[r], Value(r))
  /\ Goto(r, "stored")
  /\ UNCHANGED <<agent, tier, idx, chk, parts, result, out>>

(* HSET raises, or its reply is lost: nothing catches it. *)
StoreRaises(r) ==
  /\ pc[r] \in {"caching", "stored"}
  /\ ~up
  /\ Goto(r, "redis_error")
  /\ UNCHANGED <<cacheVars, agent, tier, idx, chk, parts, result, out>>

(* Metadata that names the model tried last. *)
FinalOfLastModel(r) ==
  /\ pc[r] = "stored"
  /\ Close(r, QueryMetadata(agent[r], Model(r), FALSE, result[r].escalated, RouteMethod(r)))
  /\ UNCHANGED <<cacheVars, agent, tier, idx, chk, parts, result>>

Final(r) ==
  /\ pc[r] = "stored"
  /\ Close(r, QueryMetadata(agent[r], result[r].model_used, FALSE, result[r].escalated, RouteMethod(r)))
  /\ UNCHANGED <<cacheVars, agent, tier, idx, chk, parts, result>>

------------------------------------------------------------------------------
(* Environment *)

(* CancelledError is raised at the await or yield the request is at; the   *)
(* handlers catch Exception, which it is not.                              *)
Cancel(r) ==
  /\ pc[r] \in Awaiting
  /\ IF pc[r] = "lookup" THEN Cache!Abandon(r) ELSE UNCHANGED cacheVars
  /\ Goto(r, "cancelled")
  /\ UNCHANGED <<agent, tier, idx, chk, parts, result, out>>

(* The process is killed and replaced; its requests are gone. *)
Crash ==
  /\ Cache!Restart
  /\ pc' = [r \in Requests |-> IF pc[r] \in Awaiting THEN "crashed" ELSE pc[r]]
  /\ UNCHANGED <<agent, tier, idx, chk, parts, result, out>>

RedisChanges ==
  /\ Cache!RedisStops \/ Cache!RedisStarts \/ Cache!Flush
  /\ UNCHANGED requestVars

------------------------------------------------------------------------------
Lookup(r) ==
  \/ \E k \in todo[r] : Scan(r, k)
  \/ LookupHit(r)
  \/ LookupRaises(r)
  \/ ReplayWord(r)
  \/ ReplayFinal(r)

Route(r) ==
  \/ RouteByEmbedding(r)
  \/ RouteUnsure(r)
  \/ \E a \in Agents : LLMRoute(r, a)
  \/ LLMRouteFails(r)

StreamTier(r) ==
  \/ \E n \in Lengths : SendToken(r, n)
  \/ NextCandidate(r)
  \/ Interrupted(r)
  \/ StreamEnds(r)
  \/ \E a \in Assessment : Assess(r, a)
  \/ AssessesNothing(r)
  \/ NextChecker(r)
  \/ NoChecker(r)
  \/ DefaultExhausted(r)
  \/ AllTiersExhausted(r)
  \/ KeepDefaultAnswer(r)

Finalize(r) == Store(r) \/ StoreRaises(r) \/ Final(r)

Progress(r) == Lookup(r) \/ Route(r) \/ StreamTier(r) \/ Finalize(r)

Next ==
  \/ \E r \in Requests : Receive(r) \/ Progress(r) \/ Cancel(r)
  \/ \E r \in Requests : \E k \in Keys : Scan(r, k)
  \/ Crash
  \/ RedisChanges

(* A provider's call returns, yields or fails in the end (the client       *)
(* library's timeouts; max_tokens and RECURSION_LIMIT bound an answer),    *)
(* and the event loop then runs the coroutine.  No timeout bounds a call   *)
(* of Redis.  Nothing makes a caller cancel, or Redis come back.           *)
Fairness == \A r \in Requests : WF_vars(pc[r] \notin AwaitingRedis /\ Progress(r))

Spec == Init /\ [][Next]_vars /\ Fairness
==============================================================================
