--------------------------- MODULE Supervisor_proofs ---------------------------
(***************************************************************************)
(* Proofs about the supervisor, for any number of concurrent requests, any *)
(* pools, queries, hash function and similarity, any lengths of answers.   *)
(*                                                                         *)
(* TypeOK /\ RequestInv is inductive.  TypeOK alone is not: that a cached  *)
(* value or a result is a complete answer follows from what RequestInv     *)
(* says of parts, Model and result, and that the pools are not overrun     *)
(* from what it says of idx.                                               *)
(***************************************************************************)
EXTENDS SupervisorProperties, TLAPS

------------------------------------------------------------------------------
(* Answers and chunks *)

(* A complete answer of n tokens is a sequence of n tokens. *)
LEMMA CompleteType ==
  ASSUME NEW q \in Queries, NEW m \in Models, NEW n \in Lengths
  PROVE  /\ Complete(q, m, n) \in Answer
         /\ Complete(q, m, n) \in Seq(Token)
         /\ Len(Complete(q, m, n)) = n
<1>1. n \in Nat
  BY SupervisorAssumption
<1>2. \A i \in 1..n : [query |-> q, model |-> m, pos |-> i, total |-> n] \in Token
  BY DEF Token
<1>3. QED
  BY <1>1, <1>2 DEF Complete, Answer

(* So the words of a replay are tokens. *)
LEMMA AnswerType ==
  ASSUME NEW a \in Answer
  PROVE  a \in Seq(Token)
BY CompleteType DEF Answer

(* A complete answer to a query of the model's is an Answer. *)
LEMMA IsAnswerType ==
  ASSUME NEW a, NEW q \in Queries, NEW m \in Models, IsAnswerTo(a, q, m)
  PROVE  a \in Answer
BY CompleteType DEF IsAnswerTo

(* Appending the next token to the beginning of an answer gives another. *)
LEMMA NextToken ==
  ASSUME NEW p \in Seq(Token), NEW q \in Queries, NEW m \in Models, NEW n \in Lengths,
         IsPartOfAnswer(p, q, m),
         Len(p) < n, p # <<>> => n = p[1].total,
         NEW tok, tok = [query |-> q, model |-> m, pos |-> Len(p) + 1, total |-> n]
  PROVE  /\ tok \in Token
         /\ Append(p, tok) \in Seq(Token)
         /\ IsPartOfAnswer(Append(p, tok), q, m)
<1>1. n \in Nat /\ Len(p) \in Nat
  BY SupervisorAssumption
<1>2. tok \in Token
  BY <1>1 DEF Token
<1>3. \A i \in DOMAIN p : p[i] = [query |-> q, model |-> m, pos |-> i, total |-> n]
  <2>1. CASE p = <<>>
    BY <2>1
  <2>2. CASE p # <<>>
    <3>1. PICK l \in Lengths :
            \A i \in DOMAIN p : p[i] = [query |-> q, model |-> m, pos |-> i, total |-> l]
      BY <2>2 DEF IsPartOfAnswer
    <3>2. 1 \in DOMAIN p
      BY <2>2
    <3>3. l = n
      BY <2>2, <3>1, <3>2
    <3>4. QED
      BY <3>1, <3>3
  <2>3. QED
    BY <2>1, <2>2
<1>4. \A i \in DOMAIN Append(p, tok) :
        Append(p, tok)[i] = [query |-> q, model |-> m, pos |-> i, total |-> n]
  BY <1>1, <1>3
<1>5. Len(Append(p, tok)) <= n
  BY <1>1
<1>6. QED
  BY <1>2, <1>4, <1>5 DEF IsPartOfAnswer

(* A part of an answer that has all its tokens is the answer. *)
LEMMA AllTokens ==
  ASSUME NEW p \in Seq(Token), NEW q \in Queries, NEW m \in Models,
         IsPartOfAnswer(p, q, m),
         IF p = <<>> THEN 0 \in Lengths ELSE Len(p) = p[1].total
  PROVE  IsAnswerTo(p, q, m)
<1>1. CASE p = <<>>
  <2>1. p = Complete(q, m, 0)
    BY <1>1 DEF Complete
  <2>2. QED
    BY <1>1, <2>1 DEF IsAnswerTo
<1>2. CASE p # <<>>
  <2>1. PICK n \in Lengths :
          \A i \in DOMAIN p : p[i] = [query |-> q, model |-> m, pos |-> i, total |-> n]
    BY <1>2 DEF IsPartOfAnswer
  <2>2. 1 \in DOMAIN p
    BY <1>2
  <2>3. Len(p) = n
    BY <1>2, <2>1, <2>2
  <2>4. p = Complete(q, m, n)
    BY <2>1, <2>3 DEF Complete
  <2>5. QED
    BY <2>4 DEF IsAnswerTo
<1>3. QED
  BY <1>1, <1>2

(* Every payload the servicer builds is a chunk. *)
LEMMA ChunkTypes ==
  /\ \A tok \in Token \union {None}, b \in BOOLEAN : TokenChunk(tok, b) \in Chunk
  /\ \A reason \in Reasons : EscalationNotice(reason) \in Chunk
  /\ \A code \in Codes : QueryError(code) \in Chunk
  /\ \A a \in Agents, m \in Models, c \in BOOLEAN, e \in BOOLEAN,
        method \in {"cache", "semantic_router", "llm_fallback"} :
       QueryMetadata(a, m, c, e, method) \in Chunk
BY DEF Chunk, TokenChunk, EscalationNotice, QueryError, QueryMetadata

(* Sending a chunk keeps the type of out. *)
LEMMA YieldType ==
  ASSUME TypeOK, NEW r \in Requests, NEW c \in Chunk, Yield(r, c)
  PROVE  out' \in [Requests -> Seq(Chunk)]
BY DEF TypeOK, RequestTypeOK, Yield

------------------------------------------------------------------------------
(* Steps of one request *)

RequestStep(r) == Receive(r) \/ Progress(r) \/ Cancel(r) \/ \E k \in Keys : Scan(r, k)

(* Next, by whose step it is. *)
LEMMA NextSteps ==
  Next => (\E r \in Requests : RequestStep(r)) \/ Crash \/ RedisChanges
BY DEF Next, RequestStep

(* What the model of a request and its result are, while they are used. *)
LEMMA ModelType ==
  ASSUME TypeOK, RequestInv, NEW r \in Requests
  PROVE  /\ pc[r] \in {"stream", "assess"} => Model(r) \in Models
         /\ pc[r] = "assess" => TierResult(r) \in Result
         /\ pc[r] \in {"caching", "stored"} => Value(r) \in CacheValue
<1>1. pc[r] \in {"stream", "assess"} => Model(r) \in Models
  BY SupervisorAssumption DEF RequestInv, ControlInv, Model, Pool
<1>2. query[r] \in Queries
  BY DEF TypeOK, Cache!TypeOK
<1>3. pc[r] = "assess" => parts[r] \in Answer
  BY <1>1, <1>2, IsAnswerType DEF RequestInv, AnswerInv
<1>4. ASSUME pc[r] \in {"caching", "stored"} PROVE Value(r) \in CacheValue
  <2>1. result[r] \in Result /\ agent[r] \in Agents
    BY <1>4 DEF RequestInv, ControlInv, Routed, TypeOK, RequestTypeOK
  <2>2. QED
    BY <2>1 DEF Value, CacheValue, Result
<1>5. QED
  BY <1>1, <1>3, <1>4 DEF TierResult, Result

(* The value that a replay sends. *)
LEMMA CachedType ==
  ASSUME TypeOK, RequestInv, NEW r \in Requests, pc[r] = "replay"
  PROVE  /\ Cached(r) \in CacheValue
         /\ Words(Cached(r).answer) \in Seq(Token \union {None})
<1>1. Cached(r) \in CacheValue
  BY DEF TypeOK, Cache!TypeOK, Cache!Entry, Cached, RequestInv, ControlInv
<1>2. Cached(r).answer \in Seq(Token)
  BY <1>1, AnswerType DEF CacheValue
<1>3. Cached(r).answer \in Seq(Token \union {None})
  BY <1>2
<1>4. <<None>> \in Seq(Token \union {None})
  OBVIOUS
<1>5. QED
  BY <1>1, <1>3, <1>4 DEF Words

------------------------------------------------------------------------------
(* The supervisor's steps are steps of SemanticCache or leave it alone. *)
LEMMA CacheStep == TypeOK /\ RequestInv /\ [Next]_vars => [Cache!Next]_cacheVars
<1> SUFFICES ASSUME TypeOK, RequestInv, [Next]_vars PROVE [Cache!Next]_cacheVars
  OBVIOUS
<1>1. ASSUME NEW r \in Requests, RequestStep(r) PROVE [Cache!Next]_cacheVars
  <2>1. CASE Receive(r)
    BY <2>1 DEF Receive, Cache!Next
  <2>2. CASE Lookup(r)
    BY <2>2 DEF Lookup, Scan, LookupHit, LookupRaises, ReplayWord, ReplayFinal, Cache!Next,
                TypeOK, Cache!TypeOK
  <2>3. CASE Route(r)
    BY <2>3 DEF Route, RouteByEmbedding, RouteUnsure, LLMRoute, LLMRouteFails, Cache!Next
  <2>4. CASE StreamTier(r)
    BY <2>4 DEF StreamTier, SendToken, NextCandidate, Interrupted, StreamEnds, Assess, Assessed,
                AssessesNothing, NextChecker, NoChecker, DefaultExhausted, AllTiersExhausted, KeepDefaultAnswer,
                EscalationExhausted
  <2>5. CASE Finalize(r)
    <3>1. CASE Store(r)
      BY <3>1, ModelType DEF Store, Cache!Next
    <3>2. CASE StoreRaises(r) \/ Final(r)
      BY <3>2 DEF StoreRaises, Final
    <3>3. QED
      BY <2>5, <3>1, <3>2 DEF Finalize
  <2>6. CASE Cancel(r)
    BY <2>6 DEF Cancel, Cache!Next
  <2>7. CASE \E k \in Keys : Scan(r, k)
    BY <2>7 DEF Scan, Cache!Next
  <2>8. QED
    BY <1>1, <2>1, <2>2, <2>3, <2>4, <2>5, <2>6, <2>7 DEF RequestStep, Progress
<1>2. CASE Crash
  BY <1>2 DEF Crash, Cache!Next, Cache!Environment
<1>3. CASE RedisChanges
  BY <1>3 DEF RedisChanges, Cache!Next, Cache!Environment
<1>4. CASE UNCHANGED vars
  BY <1>4 DEF vars
<1>5. QED
  BY <1>1, <1>2, <1>3, <1>4, NextSteps

(* The cache's own type invariant, for the supervisor's instance of it. *)
LEMMA CacheTypeStep == Cache!TypeOK /\ [Cache!Next]_cacheVars => Cache!TypeOK'
<1> SUFFICES ASSUME Cache!TypeOK, [Cache!Next]_cacheVars PROVE Cache!TypeOK'
  OBVIOUS
<1> USE DEF Cache!TypeOK
<1>1. ASSUME NEW t \in Requests, Cache!Begin(t) PROVE Cache!TypeOK'
  BY <1>1 DEF Cache!Begin, Cache!Present
<1>2. ASSUME NEW t \in Requests, NEW k \in Keys, Cache!Visit(t, k) PROVE Cache!TypeOK'
  BY <1>2 DEF Cache!Visit, Cache!Better
<1>3. ASSUME NEW t \in Requests, Cache!Hit(t) \/ Cache!Miss(t) PROVE Cache!TypeOK'
  BY <1>3 DEF Cache!Hit, Cache!Miss
<1>4. ASSUME NEW t \in Requests, Cache!Abandon(t) PROVE Cache!TypeOK'
  BY <1>4 DEF Cache!Abandon
<1>5. ASSUME NEW t \in Requests, NEW v \in CacheValue, Cache!Put(query[t], v) PROVE Cache!TypeOK'
  <2>1. KeyOf[<<salt, query[t]>>] \in Keys
    BY CacheParameters
  <2>2. [query |-> query[t], value |-> v] \in Cache!Entry
    BY DEF Cache!Entry
  <2>3. QED
    BY <1>5, <2>1, <2>2 DEF Cache!Put
<1>6. ASSUME Cache!Environment PROVE Cache!TypeOK'
  BY <1>6 DEF Cache!Environment, Cache!RedisStops, Cache!RedisStarts, Cache!Flush, Cache!Restart
<1>7. CASE UNCHANGED cacheVars
  BY <1>7 DEF cacheVars
<1>8. QED
  BY <1>1, <1>2, <1>3, <1>4, <1>5, <1>6, <1>7 DEF Cache!Next, Cache!Raise

------------------------------------------------------------------------------
(* What a step of one request does to the others: nothing. *)

(* The variables that the invariants of request s read. *)
SameRequest(s) ==
  /\ pc'[s] = pc[s] /\ agent'[s] = agent[s] /\ tier'[s] = tier[s] /\ idx'[s] = idx[s]
  /\ parts'[s] = parts[s] /\ result'[s] = result[s] /\ query'[s] = query[s]
  /\ out'[s] = out[s]

(* A request that keeps these, and its best entry, keeps its invariant. *)
LEMMA Frame ==
  ASSUME NEW s \in Requests, ControlInv(s), AnswerInv(s), SameRequest(s),
         pc[s] = "replay" => best'[s] = best[s]
  PROVE  ControlInv(s)' /\ AnswerInv(s)'
BY DEF ControlInv, AnswerInv, SameRequest, Routed, Pool, Model

(* No step of the cache changes what a request asks. *)
LEMMA QueryConstant == [Cache!Next]_cacheVars => query' = query
BY DEF Cache!Next, Cache!Begin, Cache!Visit, Cache!Hit, Cache!Miss, Cache!Raise, Cache!Abandon,
       Cache!Put, Cache!Environment, Cache!RedisStops, Cache!RedisStarts, Cache!Flush,
       Cache!Restart, cacheVars

LEMMA OtherRequests ==
  ASSUME TypeOK, RequestInv, NEW r \in Requests, RequestStep(r), NEW s \in Requests, s # r
  PROVE  SameRequest(s) /\ best'[s] = best[s]
<1> USE DEF TypeOK, RequestTypeOK, Cache!TypeOK, SameRequest, Goto, Yield
<1>1. CASE Receive(r)
  BY <1>1 DEF Receive, Cache!Begin
<1>2. CASE \E k \in Keys : Scan(r, k)
  BY <1>2 DEF Scan, Cache!Visit, requestVars
<1>3. CASE Lookup(r)
  <2>1. CASE LookupHit(r)
    BY <2>1 DEF LookupHit, Cache!Hit
  <2>2. CASE LookupRaises(r)
    BY <2>2 DEF LookupRaises, Cache!Raise, Cache!Abandon
  <2>3. CASE ReplayWord(r) \/ ReplayFinal(r)
    BY <2>3 DEF ReplayWord, ReplayFinal, Close, cacheVars
  <2>4. QED
    BY <1>2, <1>3, <2>1, <2>2, <2>3 DEF Lookup
<1>4. CASE Route(r)
  BY <1>4 DEF Route, RouteByEmbedding, RouteUnsure, LLMRoute, LLMRouteFails, Cache!Miss, cacheVars
<1>5. CASE StreamTier(r)
  <2> USE DEF Try, Escalate, Assessed, cacheVars, Close
  <2>1. CASE \E n \in Lengths : SendToken(r, n)
    BY <2>1 DEF SendToken
  <2>2. CASE NextCandidate(r) \/ Interrupted(r) \/ StreamEnds(r) \/ NextChecker(r)
    BY <2>2 DEF NextCandidate, Interrupted, StreamEnds, NextChecker
  <2>3. ASSUME NEW a, Assessed(r, a) PROVE SameRequest(s) /\ best'[s] = best[s]
    <3>1. CASE Goto(r, "caching") /\ UNCHANGED <<tier, idx, parts, out>>
      BY <2>3, <3>1
    <3>2. ASSUME NEW reason, Escalate(r, reason) PROVE SameRequest(s) /\ best'[s] = best[s]
      BY <2>3, <3>2
    <3>3. QED
      BY <2>3, <3>1, <3>2
  <2>4. CASE DefaultExhausted(r) \/ AllTiersExhausted(r) \/ KeepDefaultAnswer(r) \/ AssessesNothing(r)
    BY <2>4 DEF DefaultExhausted, AllTiersExhausted, KeepDefaultAnswer, EscalationExhausted,
                AssessesNothing
  <2>5. QED
    BY <1>5, <2>1, <2>2, <2>3, <2>4 DEF StreamTier, Assess, NoChecker
<1>6. CASE Finalize(r)
  BY <1>6 DEF Finalize, Store, Cache!Put, StoreRaises, Final, Close, cacheVars
<1>7. CASE Cancel(r)
  BY <1>7 DEF Cancel, Cache!Abandon, cacheVars
<1>8. QED
  BY <1>1, <1>2, <1>3, <1>4, <1>5, <1>6, <1>7 DEF RequestStep, Progress

------------------------------------------------------------------------------
(* What a step of one request does to it *)

(* Trying a candidate of a pool from its start. *)
LEMMA TryStep ==
  ASSUME TypeOK, NEW r \in Requests, NEW t \in {"default", "escalation"}, NEW i \in Nat,
         Try(r, t, i)
  PROVE  /\ tier' \in [Requests -> {"default", "escalation"}] /\ tier'[r] = t
         /\ idx' \in [Requests -> Nat] /\ idx'[r] = i
         /\ parts' \in [Requests -> Seq(Token)] /\ parts'[r] = <<>>
BY DEF Try, TypeOK, RequestTypeOK

(* The notice and the first candidate of the escalation tier. *)
LEMMA EscalateStep ==
  ASSUME TypeOK, NEW r \in Requests, NEW reason \in Reasons, Escalate(r, reason),
         query' = query, agent' = agent, chk' = chk, Routed(r),
         result' \in [Requests -> Result \union {None}],
         result'[r] # None => IsAnswerTo(result'[r].answer, query[r], result'[r].model_used)
  PROVE  RequestTypeOK' /\ ControlInv(r)' /\ AnswerInv(r)'
<1>1. tier'[r] = "escalation" /\ idx'[r] = 1 /\ parts'[r] = <<>>
  BY TryStep DEF Escalate
<1>2. pc' \in [Requests -> {"idle"} \union Awaiting \union Ended] /\ pc'[r] = "stream"
  BY DEF Escalate, Goto, TypeOK, RequestTypeOK, Awaiting
<1>3. out' \in [Requests -> Seq(Chunk)]
  BY ChunkTypes, YieldType DEF Escalate
<1>4. RequestTypeOK'
  BY <1>2, <1>3, TryStep DEF Escalate, TypeOK, RequestTypeOK
<1>5. 1 \in DOMAIN EscalationPool
  BY SupervisorAssumption
<1>6. ControlInv(r)'
  BY <1>1, <1>2, <1>5 DEF ControlInv, Pool, Routed
<1>7. AnswerInv(r)'
  BY <1>1, <1>2 DEF AnswerInv, IsPartOfAnswer
<1>8. QED
  BY <1>4, <1>6, <1>7

(* Steps that only move the request to a state with no claim on it. *)
LEMMA EndStep ==
  ASSUME TypeOK, NEW r \in Requests, AnswerInv(r), NEW label \in Ended,
         Goto(r, label), query' = query, UNCHANGED <<agent, tier, idx, chk, parts, result>>,
         out' \in [Requests -> Seq(Chunk)]
  PROVE  RequestTypeOK' /\ ControlInv(r)' /\ AnswerInv(r)'
<1>1. pc' \in [Requests -> {"idle"} \union Awaiting \union Ended] /\ pc'[r] = label
  BY DEF Goto, TypeOK, RequestTypeOK
<1>2. RequestTypeOK'
  BY <1>1 DEF TypeOK, RequestTypeOK
<1>3. label \notin {"idle", "lookup", "route", "replay", "stream", "assess", "caching", "stored"}
  BY DEF Ended, Broken
<1>4. ControlInv(r)' /\ AnswerInv(r)'
  BY <1>1, <1>3 DEF ControlInv, AnswerInv
<1>5. QED
  BY <1>2, <1>4

(* A replay sends tokens of the cached answer, or the blank word. *)
LEMMA ReplayedChunk ==
  ASSUME TypeOK, RequestInv, NEW r \in Requests, ReplayWord(r)
  PROVE  TokenChunk(Words(Cached(r).answer)[idx[r] + 1], TRUE) \in Chunk
<1>1. idx[r] \in Nat /\ Words(Cached(r).answer) \in Seq(Token \union {None})
      /\ idx[r] < Len(Words(Cached(r).answer))
  BY CachedType DEF ReplayWord, TypeOK, RequestTypeOK
<1>2. Words(Cached(r).answer)[idx[r] + 1] \in Token \union {None}
  BY <1>1
<1>3. QED
  BY <1>2, ChunkTypes

(* Its metadata is that of the cached value. *)
LEMMA CachedMetadata ==
  ASSUME TypeOK, RequestInv, NEW r \in Requests, ReplayFinal(r)
  PROVE  QueryMetadata(Cached(r).agent_name, Cached(r).model_used, TRUE, FALSE, "cache") \in Chunk
<1>1. Cached(r).agent_name \in Agents /\ Cached(r).model_used \in Models
  BY CachedType DEF ReplayFinal, CacheValue
<1>2. QED
  BY <1>1, ChunkTypes

(* get_similar and the replay of its result. *)
LEMMA LookupStep ==
  ASSUME TypeOK, RequestInv, NEW r \in Requests, query' = query,
         Receive(r) \/ Lookup(r) \/ \E k \in Keys : Scan(r, k)
  PROVE  RequestTypeOK' /\ ControlInv(r)' /\ AnswerInv(r)'
<1> ControlInv(r) /\ AnswerInv(r)
  BY DEF RequestInv
<1>1. CASE Receive(r)
  BY <1>1 DEF Receive, Goto, TypeOK, RequestTypeOK, ControlInv, AnswerInv, Awaiting
<1>2. CASE \E k \in Keys : Scan(r, k)
  BY <1>2 DEF Scan, requestVars, TypeOK, RequestTypeOK, ControlInv, AnswerInv, Pool, Model, Routed
<1>3. CASE LookupHit(r)
  <2>1. best'[r] # None
    BY <1>3 DEF LookupHit, Cache!Hit, Cache!Similar
  <2>2. RequestTypeOK' /\ pc'[r] = "replay"
    BY <1>3 DEF LookupHit, Goto, TypeOK, RequestTypeOK, Awaiting
  <2>3. QED
    BY <1>3, <2>1, <2>2 DEF LookupHit, ControlInv, AnswerInv
<1>4. CASE LookupRaises(r)
  BY <1>4, EndStep DEF LookupRaises, Ended, Broken, TypeOK, RequestTypeOK
<1>5. CASE ReplayWord(r)
  <2>2. out' \in [Requests -> Seq(Chunk)]
    BY <1>5, ReplayedChunk, YieldType DEF ReplayWord
  <2>3. RequestTypeOK'
    <3>1. idx' = [idx EXCEPT ![r] = idx[r] + 1] /\ UNCHANGED <<pc, agent, tier, chk, parts, result>>
      BY <1>5 DEF ReplayWord
    <3>2. idx' \in [Requests -> Nat]
      BY <3>1 DEF TypeOK, RequestTypeOK
    <3>3. QED
      BY <2>2, <3>1, <3>2 DEF TypeOK, RequestTypeOK
  <2>4. pc[r] = "replay" /\ pc' = pc /\ best' = best /\ result' = result
    BY <1>5 DEF ReplayWord, cacheVars
  <2>5. ControlInv(r)' /\ AnswerInv(r)'
    BY <2>4 DEF ControlInv, AnswerInv
  <2>6. QED
    BY <2>3, <2>5
<1>6. CASE ReplayFinal(r)
  <2>2. out' \in [Requests -> Seq(Chunk)]
    BY <1>6, CachedMetadata, YieldType DEF ReplayFinal, Close
  <2>3. QED
    BY <1>6, <2>2, EndStep DEF ReplayFinal, Close, Ended
<1>7. QED
  BY <1>1, <1>2, <1>3, <1>4, <1>5, <1>6 DEF Lookup, TypeOK, Cache!TypeOK

(* Routing: the agent is in AGENT_BUILDERS. *)
LEMMA RouteStep ==
  ASSUME TypeOK, RequestInv, NEW r \in Requests, query' = query, Route(r)
  PROVE  RequestTypeOK' /\ ControlInv(r)' /\ AnswerInv(r)'
<1> ControlInv(r) /\ AnswerInv(r)
  BY DEF RequestInv
<1>1. 1 \in DOMAIN DefaultPool
  BY SupervisorAssumption
<1>2. SemanticRoute[query[r]] \in Agents \union {None} /\ query[r] \in Queries
  BY SupervisorAssumption DEF TypeOK, Cache!TypeOK
<1>3. CASE RouteByEmbedding(r)
  <2>1. RequestTypeOK' /\ pc'[r] = "stream" /\ agent'[r] = SemanticRoute[query[r]]
    BY <1>2, <1>3 DEF RouteByEmbedding, Goto, TypeOK, RequestTypeOK, Awaiting
  <2>2. QED
    BY <1>1, <1>2, <1>3, <2>1
    DEF RouteByEmbedding, ControlInv, AnswerInv, Routed, Pool, Model, IsPartOfAnswer
<1>4. CASE RouteUnsure(r)
  BY <1>4 DEF RouteUnsure, Goto, TypeOK, RequestTypeOK, ControlInv, AnswerInv, Awaiting
<1>5. ASSUME NEW a \in Agents, LLMRoute(r, a)
      PROVE  RequestTypeOK' /\ ControlInv(r)' /\ AnswerInv(r)'
  BY <1>1, <1>5
  DEF LLMRoute, Goto, TypeOK, RequestTypeOK, ControlInv, AnswerInv, Routed, Pool, Model,
      IsPartOfAnswer, Awaiting
<1>6. CASE LLMRouteFails(r)
  BY <1>6, EndStep DEF LLMRouteFails, Ended, Broken, TypeOK, RequestTypeOK
<1>7. QED
  BY <1>3, <1>4, <1>5, <1>6 DEF Route

NextTok(r, n) ==
  [query |-> query[r], model |-> Model(r), pos |-> Len(parts[r]) + 1, total |-> n]

(* The token that is sent continues the parts. *)
LEMMA SentToken ==
  ASSUME TypeOK, RequestInv, NEW r \in Requests, NEW n \in Lengths, SendToken(r, n)
  PROVE  /\ NextTok(r, n) \in Token
         /\ Append(parts[r], NextTok(r, n)) \in Seq(Token)
         /\ IsPartOfAnswer(Append(parts[r], NextTok(r, n)), query[r], Model(r))
         /\ TokenChunk(NextTok(r, n), FALSE) \in Chunk
<1>1. /\ parts[r] \in Seq(Token) /\ query[r] \in Queries /\ Model(r) \in Models
      /\ IsPartOfAnswer(parts[r], query[r], Model(r))
  BY ModelType DEF SendToken, TypeOK, RequestTypeOK, Cache!TypeOK, RequestInv, AnswerInv
<1>2. /\ NextTok(r, n) \in Token
      /\ Append(parts[r], NextTok(r, n)) \in Seq(Token)
      /\ IsPartOfAnswer(Append(parts[r], NextTok(r, n)), query[r], Model(r))
  BY <1>1, NextToken DEF SendToken, NextTok
<1>3. QED
  BY <1>2, ChunkTypes

(* _stream_tier up to the assessment: parts grows by tokens of the         *)
(* candidate, or starts again with the next one.                           *)
LEMMA StreamStep ==
  ASSUME TypeOK, RequestInv, NEW r \in Requests, query' = query,
         \/ \E n \in Lengths : SendToken(r, n)
         \/ NextCandidate(r)
         \/ Interrupted(r)
         \/ StreamEnds(r)
  PROVE  RequestTypeOK' /\ ControlInv(r)' /\ AnswerInv(r)'
<1> ControlInv(r) /\ AnswerInv(r)
  BY DEF RequestInv
<1>1. /\ parts[r] \in Seq(Token) /\ query[r] \in Queries
      /\ pc[r] = "stream" => Model(r) \in Models /\ idx[r] \in DOMAIN Pool(r)
  BY ModelType DEF TypeOK, RequestTypeOK, Cache!TypeOK, ControlInv
<1>2. ASSUME NEW n \in Lengths, SendToken(r, n)
      PROVE  RequestTypeOK' /\ ControlInv(r)' /\ AnswerInv(r)'
  <2> DEFINE tok == NextTok(r, n)
  <2>1. /\ tok \in Token
        /\ Append(parts[r], tok) \in Seq(Token)
        /\ IsPartOfAnswer(Append(parts[r], tok), query[r], Model(r))
        /\ TokenChunk(tok, FALSE) \in Chunk
    BY <1>2, SentToken
  <2>3. parts' = [parts EXCEPT ![r] = Append(parts[r], tok)] /\ Yield(r, TokenChunk(tok, FALSE))
    BY <1>2 DEF SendToken, NextTok
  <2> HIDE DEF tok
  <2>4. out' \in [Requests -> Seq(Chunk)]
    BY <2>1, <2>3, YieldType
  <2>5. parts' \in [Requests -> Seq(Token)] /\ parts'[r] = Append(parts[r], tok)
    BY <2>1, <2>3 DEF TypeOK, RequestTypeOK
  <2>6. UNCHANGED <<pc, agent, tier, idx, chk, result>> /\ pc[r] = "stream"
    BY <1>2 DEF SendToken
  <2>7. RequestTypeOK'
    BY <2>4, <2>5, <2>6 DEF TypeOK, RequestTypeOK
  <2>8. ControlInv(r)'
    BY <2>6 DEF ControlInv, Pool, Routed
  <2>9. AnswerInv(r)'
    BY <2>1, <2>5, <2>6 DEF AnswerInv, Model, Pool
  <2>10. QED
    BY <2>7, <2>8, <2>9
<1>3. CASE NextCandidate(r)
  <2>1. idx[r] + 1 \in DOMAIN Pool(r) /\ idx[r] + 1 \in Nat /\ tier[r] \in {"default", "escalation"}
    BY <1>1, <1>3, SupervisorAssumption
    DEF NextCandidate, FailsBeforeFirstToken, Pool, TypeOK, RequestTypeOK
  <2>2. Try(r, tier[r], idx[r] + 1)
    BY <1>3 DEF NextCandidate
  <2>3. /\ tier' \in [Requests -> {"default", "escalation"}] /\ tier'[r] = tier[r]
        /\ idx' \in [Requests -> Nat] /\ idx'[r] = idx[r] + 1
        /\ parts' \in [Requests -> Seq(Token)] /\ parts'[r] = <<>>
    BY <2>1, <2>2, TryStep
  <2>4. UNCHANGED <<pc, agent, chk, result, out>> /\ pc[r] = "stream"
    BY <1>3 DEF NextCandidate, FailsBeforeFirstToken
  <2>5. RequestTypeOK'
    BY <2>3, <2>4 DEF TypeOK, RequestTypeOK
  <2>6. ControlInv(r)' /\ AnswerInv(r)'
    BY <2>1, <2>3, <2>4 DEF ControlInv, AnswerInv, Pool, Routed, IsPartOfAnswer
  <2>7. QED
    BY <2>5, <2>6
<1>4. CASE Interrupted(r)
  <2>1. out' \in [Requests -> Seq(Chunk)]
    BY <1>4, ChunkTypes, YieldType DEF Interrupted, Close, Codes
  <2>2. QED
    BY <1>4, <2>1, EndStep DEF Interrupted, Close, Ended
<1>5. CASE StreamEnds(r)
  <2>1. IsAnswerTo(parts[r], query[r], Model(r))
    BY <1>1, <1>5, AllTokens DEF StreamEnds, AnswerInv
  <2>2. pc' \in [Requests -> {"idle"} \union Awaiting \union Ended] /\ pc'[r] = "assess"
    BY <1>5 DEF StreamEnds, Goto, TypeOK, RequestTypeOK, Awaiting
  <2>3. 1 \in DOMAIN DefaultPool
    BY SupervisorAssumption
  <2>4. RequestTypeOK'
    BY <1>5, <2>2, <2>3 DEF StreamEnds, TypeOK, RequestTypeOK
  <2>5. ControlInv(r)' /\ AnswerInv(r)'
    BY <1>5, <2>1, <2>2 DEF StreamEnds, ControlInv, AnswerInv, Pool, Model, Routed
  <2>6. QED
    BY <2>4, <2>5
<1>6. QED
  BY <1>2, <1>3, <1>4, <1>5

(* The assessment, whoever makes it: the parts become the result. *)
LEMMA AssessedStep ==
  ASSUME TypeOK, RequestInv, NEW r \in Requests, query' = query,
         pc[r] = "assess", NEW a \in Assessment, Assessed(r, a)
  PROVE  RequestTypeOK' /\ ControlInv(r)' /\ AnswerInv(r)'
<1> ControlInv(r) /\ AnswerInv(r)
  BY DEF RequestInv
<1>1. /\ result' \in [Requests -> Result \union {None}]
      /\ result'[r] = TierResult(r)
      /\ TierResult(r) \in Result
  BY ModelType DEF Assessed, TypeOK, RequestTypeOK
<1>2. IsAnswerTo(result'[r].answer, query[r], result'[r].model_used)
  BY <1>1 DEF AnswerInv, TierResult
<1>3. agent' = agent /\ chk' = chk /\ Routed(r)
  BY DEF Assessed, ControlInv
<1>4. ASSUME NEW reason \in Reasons, Escalate(r, reason)
      PROVE  RequestTypeOK' /\ ControlInv(r)' /\ AnswerInv(r)'
  BY <1>1, <1>2, <1>3, <1>4, EscalateStep
<1>5. CASE Goto(r, "caching") /\ UNCHANGED <<tier, idx, parts, out>>
  <2>1. pc' \in [Requests -> {"idle"} \union Awaiting \union Ended] /\ pc'[r] = "caching"
    BY <1>5 DEF Goto, TypeOK, RequestTypeOK, Awaiting
  <2>2. RequestTypeOK'
    BY <1>1, <1>3, <1>5, <2>1 DEF TypeOK, RequestTypeOK
  <2>3. result'[r] # None => IsAnswerTo(result'[r].answer, query'[r], result'[r].model_used)
    BY <1>2
  <2>4. AnswerInv(r)'
    BY <2>1, <2>3 DEF AnswerInv
  <2>5. result'[r] # None
    BY <1>1, NoneIsNoRecord
  <2>6. ControlInv(r)'
    BY <1>3, <2>1, <2>5 DEF ControlInv, Routed
  <2>7. QED
    BY <2>2, <2>4, <2>6
<1>6. QED
  BY <1>4, <1>5 DEF Assessed, Reasons

(* No assessment comes, and the call fails with the result in its hands. *)
LEMMA NothingStep ==
  ASSUME TypeOK, RequestInv, NEW r \in Requests, query' = query, AssessesNothing(r)
  PROVE  RequestTypeOK' /\ ControlInv(r)' /\ AnswerInv(r)'
<1> ControlInv(r) /\ AnswerInv(r)
  BY DEF RequestInv
<1>1. /\ pc[r] = "assess"
      /\ result' \in [Requests -> Result \union {None}]
      /\ result'[r] = TierResult(r)
  BY ModelType DEF AssessesNothing, TypeOK, RequestTypeOK
<1>2. IsAnswerTo(result'[r].answer, query'[r], result'[r].model_used)
  BY <1>1 DEF AnswerInv, TierResult
<1>3. /\ pc' \in [Requests -> {"idle"} \union Awaiting \union Ended]
      /\ pc'[r] = "assess_error"
  BY DEF AssessesNothing, Goto, TypeOK, RequestTypeOK, Ended, Broken
<1>4. RequestTypeOK'
  BY <1>1, <1>3 DEF AssessesNothing, TypeOK, RequestTypeOK
<1>5. ControlInv(r)' /\ AnswerInv(r)'
  BY <1>2, <1>3 DEF ControlInv, AnswerInv
<1>6. QED
  BY <1>4, <1>5

(* The rest of _stream_tier and of its callers. *)
LEMMA TierStep ==
  ASSUME TypeOK, RequestInv, NEW r \in Requests, query' = query, StreamTier(r)
  PROVE  RequestTypeOK' /\ ControlInv(r)' /\ AnswerInv(r)'
<1> ControlInv(r) /\ AnswerInv(r)
  BY DEF RequestInv
<1>1. ASSUME NEW a \in Assessment, Assess(r, a)
      PROVE  RequestTypeOK' /\ ControlInv(r)' /\ AnswerInv(r)'
  BY <1>1, AssessedStep DEF Assess
<1>2. CASE NoChecker(r)
  <2>1. [sure |-> TRUE, needs_escalation |-> FALSE] \in Assessment
    BY DEF Assessment
  <2>2. QED
    BY <1>2, <2>1, AssessedStep DEF NoChecker
<1>3. CASE NextChecker(r)
  <2>1. chk[r] + 1 \in DOMAIN DefaultPool
    BY <1>3, SupervisorAssumption DEF NextChecker, TypeOK, RequestTypeOK
  <2>2. RequestTypeOK'
    BY <1>3, <2>1 DEF NextChecker, TypeOK, RequestTypeOK
  <2>3. ControlInv(r)' /\ AnswerInv(r)'
    BY <1>3 DEF NextChecker, ControlInv, AnswerInv, Pool, Model, Routed
  <2>4. QED
    BY <2>2, <2>3
<1>4. CASE DefaultExhausted(r)
  <2>1. /\ result' \in [Requests -> Result \union {None}]
        /\ result'[r] # None => IsAnswerTo(result'[r].answer, query[r], result'[r].model_used)
        /\ agent' = agent /\ chk' = chk /\ Routed(r)
    BY <1>4 DEF DefaultExhausted, FailsBeforeFirstToken, TypeOK, RequestTypeOK, ControlInv, AnswerInv
  <2>2. QED
    BY <1>4, <2>1, EscalateStep DEF DefaultExhausted, Reasons
<1>5. CASE AllTiersExhausted(r)
  <2>1. out' \in [Requests -> Seq(Chunk)]
    BY <1>5, ChunkTypes, YieldType DEF AllTiersExhausted, Close, Codes
  <2>2. QED
    BY <1>5, <2>1, EndStep DEF AllTiersExhausted, EscalationExhausted, Close, Ended
<1>6. CASE KeepDefaultAnswer(r)
  <2>1. pc' \in [Requests -> {"idle"} \union Awaiting \union Ended] /\ pc'[r] = "caching"
    BY <1>6 DEF KeepDefaultAnswer, Goto, TypeOK, RequestTypeOK, Awaiting
  <2>2. RequestTypeOK'
    BY <1>6, <2>1 DEF KeepDefaultAnswer, EscalationExhausted, TypeOK, RequestTypeOK
  <2>3. ControlInv(r)' /\ AnswerInv(r)'
    BY <1>6, <2>1
    DEF KeepDefaultAnswer, EscalationExhausted, FailsBeforeFirstToken, ControlInv, AnswerInv, Routed
  <2>4. QED
    BY <2>2, <2>3
<1>7. CASE AssessesNothing(r)
  BY <1>7, NothingStep
<1>8. QED
  BY <1>1, <1>2, <1>3, <1>4, <1>5, <1>6, <1>7, StreamStep DEF StreamTier

FinalOf(r) ==
  QueryMetadata(agent[r], result[r].model_used, FALSE, result[r].escalated, RouteMethod(r))

(* The metadata of a request that has stored its result. *)
LEMMA FinalChunk ==
  ASSUME TypeOK, RequestInv, NEW r \in Requests, Final(r)
  PROVE  FinalOf(r) \in Chunk /\ Close(r, FinalOf(r))
<1>1. /\ result[r] \in Result
      /\ agent[r] \in Agents
      /\ RouteMethod(r) \in {"cache", "semantic_router", "llm_fallback"}
  BY DEF Final, RequestInv, ControlInv, Routed, RouteMethod, TypeOK, RequestTypeOK
<1>2. FinalOf(r) \in Chunk
  BY <1>1, ChunkTypes DEF Result, FinalOf
<1>3. QED
  BY <1>2 DEF Final, FinalOf

(* _finalize, and cancellation at any await. *)
LEMMA FinalizeStep ==
  ASSUME TypeOK, RequestInv, NEW r \in Requests, query' = query, Finalize(r) \/ Cancel(r)
  PROVE  RequestTypeOK' /\ ControlInv(r)' /\ AnswerInv(r)'
<1> ControlInv(r) /\ AnswerInv(r)
  BY DEF RequestInv
<1>1. CASE Store(r)
  <2>1. pc' \in [Requests -> {"idle"} \union Awaiting \union Ended] /\ pc'[r] = "stored"
    BY <1>1 DEF Store, Goto, TypeOK, RequestTypeOK, Awaiting
  <2>2. QED
    BY <1>1, <2>1 DEF Store, TypeOK, RequestTypeOK, ControlInv, AnswerInv, Routed
<1>2. CASE StoreRaises(r)
  BY <1>2, EndStep DEF StoreRaises, Ended, Broken, TypeOK, RequestTypeOK
<1>3. CASE Final(r)
  <2>3. out' \in [Requests -> Seq(Chunk)]
    BY <1>3, FinalChunk, YieldType DEF Final, Close
  <2>4. QED
    BY <1>3, <2>3, EndStep DEF Final, Close, Ended
<1>4. CASE Cancel(r)
  BY <1>4, EndStep DEF Cancel, Ended, Broken, TypeOK, RequestTypeOK
<1>5. QED
  BY <1>1, <1>2, <1>3, <1>4 DEF Finalize

(* A crash ends what is awaiting and leaves the rest. *)
LEMMA CrashStep ==
  ASSUME TypeOK, RequestInv, query' = query, Crash
  PROVE  RequestTypeOK' /\ RequestInv'
<1>1. RequestTypeOK'
  BY DEF Crash, TypeOK, RequestTypeOK, Ended, Broken
<1>2. ASSUME NEW r \in Requests PROVE ControlInv(r)' /\ AnswerInv(r)'
  <2>1. pc'[r] \in {"idle"} \union Ended /\ (pc'[r] = "idle" => pc[r] = "idle")
    BY DEF Crash, TypeOK, RequestTypeOK, Ended, Broken
  <2>2. pc'[r] \notin {"lookup", "route", "replay", "stream", "assess", "caching", "stored"}
    BY <2>1 DEF Ended, Broken
  <2>3. QED
    BY <2>1, <2>2 DEF Crash, RequestInv, ControlInv, AnswerInv
<1>3. QED
  BY <1>1, <1>2 DEF RequestInv

------------------------------------------------------------------------------
(* The invariant is inductive. *)
LEMMA InvStep == TypeOK /\ RequestInv /\ [Next]_vars => TypeOK' /\ RequestInv'
<1> SUFFICES ASSUME TypeOK, RequestInv, [Next]_vars PROVE TypeOK' /\ RequestInv'
  OBVIOUS
<1>1. Cache!TypeOK' /\ query' = query
  BY CacheStep, CacheTypeStep, QueryConstant DEF TypeOK
<1>2. ASSUME NEW r \in Requests, RequestStep(r) PROVE RequestTypeOK' /\ RequestInv'
  <2>1. RequestTypeOK' /\ ControlInv(r)' /\ AnswerInv(r)'
    BY <1>1, <1>2, LookupStep, RouteStep, TierStep, FinalizeStep DEF RequestStep, Progress
  <2>2. ASSUME NEW s \in Requests, s # r PROVE ControlInv(s)' /\ AnswerInv(s)'
    <3>1. SameRequest(s) /\ best'[s] = best[s]
      BY <1>2, <2>2, OtherRequests
    <3>2. QED
      BY <3>1, Frame DEF RequestInv
  <2>3. QED
    BY <2>1, <2>2 DEF RequestInv
<1>3. CASE RedisChanges
  <2>1. RequestTypeOK' /\ best' = best
    BY <1>3 DEF RedisChanges, requestVars, TypeOK, RequestTypeOK, Cache!RedisStops,
                Cache!RedisStarts, Cache!Flush
  <2>2. \A s \in Requests : SameRequest(s)
    BY <1>1, <1>3 DEF RedisChanges, requestVars, SameRequest
  <2>3. QED
    BY <1>1, <2>1, <2>2, Frame DEF TypeOK, RequestInv
<1>4. CASE UNCHANGED vars
  BY <1>1, <1>4 DEF vars, cacheVars, requestVars, TypeOK, RequestTypeOK, RequestInv, ControlInv,
                    AnswerInv, Routed, Pool, Model
<1>5. QED
  BY <1>1, <1>2, <1>3, <1>4, NextSteps, CrashStep DEF TypeOK

LEMMA SupervisorStarts == Init => TypeOK /\ RequestInv
<1> SUFFICES ASSUME Init PROVE TypeOK /\ RequestInv
  OBVIOUS
<1>1. TypeOK
  BY SupervisorAssumption DEF Init, TypeOK, RequestTypeOK, Cache!Init, Cache!TypeOK
<1>2. RequestInv
  BY DEF Init, RequestInv, ControlInv, AnswerInv
<1>3. QED
  BY <1>1, <1>2

(***************************************************************************)
(* Type correctness and the inductive invariant of the supervisor.         *)
(***************************************************************************)
THEOREM SupervisorInvariant == Spec => [](TypeOK /\ RequestInv)
BY SupervisorStarts, InvStep, PTL DEF Spec

(***************************************************************************)
(* Every variable of the supervisor keeps its type: the candidates and the *)
(* checkers asked for are in their pools, and only complete answers are    *)
(* results or cached values.                                               *)
(***************************************************************************)
THEOREM SupervisorTypes == Spec => []TypeOK
BY SupervisorInvariant, PTL

(***************************************************************************)
(* Every step of the supervisor is a step of SemanticCache or leaves its   *)
(* variables alone: what is proved of the cache holds of the supervisor's. *)
(***************************************************************************)
THEOREM SupervisorUsesCache == Spec => UsesCache
<1>1. Init => Cache!Init
  BY DEF Init
<1>2. QED
  BY <1>1, CacheStep, SupervisorInvariant, PTL DEF Spec, UsesCache

------------------------------------------------------------------------------
(* The only new entries are those of requests that write their result. *)
LEMMA NewEntries ==
  ASSUME TypeOK, RequestInv, [Next]_vars, NEW k \in Keys, store'[k] # None
  PROVE  \/ store'[k] = store[k]
         \/ \E r \in Requests :
              pc[r] = "caching" /\ store'[k] = [query |-> query[r], value |-> Value(r)]
<1> DEFINE Claim == \/ store'[k] = store[k]
                    \/ \E r \in Requests :
                         pc[r] = "caching" /\ store'[k] = [query |-> query[r], value |-> Value(r)]
<1>1. ASSUME NEW r \in Requests, RequestStep(r) PROVE Claim
  <2>1. CASE Receive(r) \/ \E j \in Keys : Scan(r, j)
    BY <2>1 DEF Receive, Scan, Cache!Begin, Cache!Visit
  <2>2. CASE Lookup(r)
    BY <2>2 DEF Lookup, Scan, LookupHit, LookupRaises, ReplayWord, ReplayFinal, Cache!Visit,
                Cache!Hit, Cache!Raise, Cache!Abandon, cacheVars
  <2>3. CASE Route(r)
    BY <2>3 DEF Route, RouteByEmbedding, RouteUnsure, LLMRoute, LLMRouteFails, Cache!Miss, cacheVars
  <2>4. CASE StreamTier(r)
    BY <2>4 DEF StreamTier, SendToken, NextCandidate, Interrupted, StreamEnds, Assess, Assessed,
                AssessesNothing, NextChecker, NoChecker, DefaultExhausted, AllTiersExhausted, KeepDefaultAnswer,
                EscalationExhausted, cacheVars
  <2>5. CASE Store(r)
    BY <2>5 DEF Store, Cache!Put, TypeOK, Cache!TypeOK
  <2>6. CASE StoreRaises(r) \/ Final(r)
    BY <2>6 DEF StoreRaises, Final, cacheVars
  <2>7. CASE Cancel(r)
    BY <2>7 DEF Cancel, Cache!Abandon, cacheVars
  <2>8. QED
    BY <1>1, <2>1, <2>2, <2>3, <2>4, <2>5, <2>6, <2>7 DEF RequestStep, Progress, Finalize
<1>2. CASE Crash \/ RedisChanges
  BY <1>2 DEF Crash, RedisChanges, Cache!Restart, Cache!RedisStops, Cache!RedisStarts, Cache!Flush
<1>3. CASE UNCHANGED vars
  BY <1>3 DEF vars, cacheVars
<1>4. QED
  BY <1>1, <1>2, <1>3, NextSteps

LEMMA WholeStep ==
  TypeOK /\ RequestInv /\ CachedAnswersAreWhole /\ [Next]_vars => CachedAnswersAreWhole'
<1> SUFFICES ASSUME TypeOK, RequestInv, CachedAnswersAreWhole, [Next]_vars,
                    NEW k \in Keys, store'[k] # None
             PROVE  IsWhole(store'[k])
  BY DEF CachedAnswersAreWhole
<1>1. CASE store'[k] = store[k]
  BY <1>1 DEF CachedAnswersAreWhole
<1>2. ASSUME NEW r \in Requests, pc[r] = "caching",
             store'[k] = [query |-> query[r], value |-> Value(r)]
      PROVE  IsWhole(store'[k])
  BY <1>2 DEF IsWhole, RequestInv, ControlInv, AnswerInv, Routed, Value
<1>3. QED
  BY <1>1, <1>2, NewEntries

LEMMA WholeInit == Init => CachedAnswersAreWhole
BY DEF Init, Cache!Init, CachedAnswersAreWhole

(***************************************************************************)
(* Nothing but complete answers, filed under the query and the model they  *)
(* are of, is ever in the cache, however requests interleave and fail.     *)
(***************************************************************************)
THEOREM CacheHoldsWholeAnswers == Spec => []CachedAnswersAreWhole
BY WholeInit, WholeStep, SupervisorInvariant, PTL DEF Spec
==============================================================================
