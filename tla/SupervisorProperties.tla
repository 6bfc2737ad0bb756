------------------------- MODULE SupervisorProperties -------------------------
(***************************************************************************)
(* What a caller of SubmitQuery, and the next request that hits the cache, *)
(* may rely on.                                                            *)
(***************************************************************************)
EXTENDS Supervisor

(* A cached answer is a complete answer of one model. *)
IsAnswerTo(answer, q, m) == \E n \in Lengths : answer = Complete(q, m, n)

(* An entry holds a whole answer of the agent that its query is routed to. *)
IsWhole(e) ==
  /\ IsAnswerTo(e.value.answer, e.query, e.value.model_used)
  /\ SemanticRoute[e.query] # None => e.value.agent_name = SemanticRoute[e.query]

(***************************************************************************)
(* Every cache entry is a complete answer of the model it names to the     *)
(* query it is filed under, by the agent that query is routed to: never a  *)
(* fragment, a mixture of two tiers, or another request's answer.          *)
(***************************************************************************)
CachedAnswersAreWhole == \A k \in Keys : store[k] # None => IsWhole(store[k])

------------------------------------------------------------------------------
(* What every request keeps, of the parts of its state that later steps rely on. *)

(* p is the beginning of an answer of m to q. *)
IsPartOfAnswer(p, q, m) ==
  p = <<>> \/ \E n \in Lengths :
    /\ Len(p) <= n
    /\ \A i \in DOMAIN p : p[i] = [query |-> q, model |-> m, pos |-> i, total |-> n]

Routed(r) ==
  /\ agent[r] \in Agents
  /\ SemanticRoute[query[r]] # None => agent[r] = SemanticRoute[query[r]]

ControlInv(r) ==
  /\ pc[r] \in {"idle", "lookup", "route"} => tier[r] = "default" /\ idx[r] = 1 /\ parts[r] = <<>>
  /\ pc[r] = "replay" => best[r] # None
  /\ pc[r] = "route" => SemanticRoute[query[r]] = None
  /\ pc[r] \in {"stream", "assess"} => idx[r] \in DOMAIN Pool(r)
  /\ pc[r] \in {"stream", "assess", "caching", "stored"} => Routed(r)
  /\ pc[r] \in {"caching", "stored"} => result[r] # None

AnswerInv(r) ==
  /\ pc[r] = "stream" => IsPartOfAnswer(parts[r], query[r], Model(r))
  /\ pc[r] = "assess" => IsAnswerTo(parts[r], query[r], Model(r))
  /\ result[r] # None => IsAnswerTo(result[r].answer, query[r], result[r].model_used)

(***************************************************************************)
(* The inductive invariant: while a tier is streamed, parts holds tokens   *)
(* of the candidate being tried only, in order; a result is a complete     *)
(* answer of the model it names, also after the escalation tier has failed *)
(* and idx has moved on.                                                   *)
(***************************************************************************)
RequestInv == \A r \in Requests : ControlInv(r) /\ AnswerInv(r)

------------------------------------------------------------------------------
IsToken(chunk) == chunk.kind = "token"
IsNotice(chunk) == chunk.kind = "escalating"

Notices(s) == {i \in DOMAIN s : IsNotice(s[i])}

(* Adjacent tokens of s are of one answer, in order and in one form. *)
NotMixed(s) ==
  \A i \in DOMAIN s :
    i + 1 \in DOMAIN s /\ IsToken(s[i]) /\ IsToken(s[i + 1]) =>
      /\ s[i + 1].tok = [s[i].tok EXCEPT !.pos = @ + 1]
      /\ s[i + 1].padded = s[i].padded

(***************************************************************************)
(* "Once a token has reached the client we can't un-send it": the tokens   *)
(* of a stream that no escalation notice separates are of one model's      *)
(* answer, each sent once and in order.                                    *)
(***************************************************************************)
SegmentsAreNotMixed == \A r \in Requests : NotMixed(out[r])

(* The chunks of an answer that is streamed, and of one that is replayed. *)
Streamed(answer) == [i \in DOMAIN answer |-> TokenChunk(answer[i], FALSE)]
Replayed(answer) ==
  LET words == Words(answer) IN [i \in DOMAIN words |-> TokenChunk(words[i], TRUE)]

(* The chunks that the "final" chunk at the end of s is about: those after *)
(* the notice if it is escalated, else those before it.                    *)
FinalTokens(s) ==
  LET notice == CHOOSE i \in Notices(s) : TRUE
      last   == Len(s) - 1
  IN IF s[Len(s)].escalated THEN SubSeq(s, notice + 1, last)
     ELSE SubSeq(s, 1, IF Notices(s) = {} THEN last ELSE notice - 1)

EndsWith(r, kind) == out[r] # <<>> /\ out[r][Len(out[r])].kind = kind

FinalIsTrue(r) ==
  LET s == out[r]
      f == s[Len(s)]
      IsPool(pool) == \E i \in DOMAIN pool : pool[i] = f.model_used
  IN IF f.cached
     THEN /\ f.route_method = "cache"
          /\ Notices(s) = {}
          /\ \E q \in Queries, n \in Lengths :
               /\ Score[<<query[r], q>>] >= Threshold
               /\ FinalTokens(s) = Replayed(Complete(q, f.model_used, n))
               /\ SemanticRoute[q] # None => f.agent_name = SemanticRoute[q]
     ELSE /\ IF f.escalated THEN Notices(s) # {} ELSE Notices(s) \subseteq {Len(s) - 1}
          /\ IsPool(IF f.escalated THEN EscalationPool ELSE DefaultPool)
          /\ \E n \in Lengths : FinalTokens(s) = Streamed(Complete(query[r], f.model_used, n))
          /\ SemanticRoute[query[r]] # None => f.agent_name = SemanticRoute[query[r]]

(***************************************************************************)
(* The metadata tells the truth about the stream it closes: model_used     *)
(* generated every token of the answer, which is complete; an answer is    *)
(* escalated iff it was streamed after the notice by a model of that pool, *)
(* and nothing follows the notice of an escalation that failed; a cached   *)
(* one answers a query at least as similar as the threshold, and names the *)
(* agent which that query is routed to.                                    *)
(***************************************************************************)
FinalDescribesStream == \A r \in Requests : EndsWith(r, "final") => FinalIsTrue(r)

ErrorIsTrue(s) ==
  IF s[Len(s)].code = "STREAM_INTERRUPTED"
  THEN Len(s) > 1 /\ IsToken(s[Len(s) - 1])
  ELSE SubSeq(s, 1, Len(s) - 1) = <<EscalationNotice("default tier unavailable")>>

(***************************************************************************)
(* STREAM_INTERRUPTED comes right after a token, and ALL_TIERS_EXHAUSTED   *)
(* only when the caller was shown no token of any tier and told that the   *)
(* default tier was unavailable.                                           *)
(***************************************************************************)
ErrorsTellTheTruth == \A r \in Requests : EndsWith(r, "error") => ErrorIsTrue(out[r])

------------------------------------------------------------------------------
(* What a request has sent, as it follows from the rest of its state. *)

(* From position k on, s shows the tokens of answer a. *)
Shows(s, k, a) == \A i \in DOMAIN a : s[k + i] = TokenChunk(a[i], FALSE)

(* A lookup's best entry is whole, and a hit is similar enough. *)
LookupInv(r) ==
  /\ best[r] # None => IsWhole(best[r])
  /\ pc[r] = "replay" => Score[<<query[r], best[r].query>>] >= Threshold

ReplayInv(r) ==
  pc[r] = "replay" =>
    LET words == Words(Cached(r).answer) IN
    /\ idx[r] = Len(out[r]) /\ idx[r] <= Len(words)
    /\ \A i \in DOMAIN out[r] : out[r][i] = TokenChunk(words[i], TRUE)

(* What the default tier answered: nothing if it was unavailable. *)
FirstAnswer(r) == IF result[r] = None THEN <<>> ELSE result[r].answer

TierInv(r) ==
  LET s == out[r]
      notice == Len(FirstAnswer(r)) + 1
  IN pc[r] \in {"stream", "assess"} =>
       IF tier[r] = "default"
       THEN /\ result[r] = None
            /\ Len(s) = Len(parts[r]) /\ Shows(s, 0, parts[r])
       ELSE /\ IF result[r] = None THEN s[1] = EscalationNotice("default tier unavailable")
               ELSE ~result[r].escalated /\ IsNotice(s[notice])
            /\ Shows(s, 0, FirstAnswer(r))
            /\ Len(s) = notice + Len(parts[r]) /\ Shows(s, notice, parts[r])

ResultInv(r) ==
  LET s == out[r]
      a == result[r].answer
      notice == Len(s) - Len(a)
  IN pc[r] \in {"caching", "stored"} =>
       IF result[r].escalated
       THEN /\ notice >= 1 /\ IsNotice(s[notice]) /\ Shows(s, notice, a)
            /\ \A i \in 1..notice - 1 : IsToken(s[i])
       ELSE /\ Shows(s, 0, a)
            /\ Len(s) # Len(a) => Len(s) = Len(a) + 1 /\ IsNotice(s[Len(s)])

(* The model of a result is one of the pool that the result claims. *)
PoolInv(r) ==
  result[r] # None =>
    LET pool == IF result[r].escalated THEN EscalationPool ELSE DefaultPool IN
    \E i \in DOMAIN pool : pool[i] = result[r].model_used

(* A call is closed by its one terminal chunk, the last. *)
TerminalInv(r) ==
  /\ pc[r] = "closed" => out[r] # <<>>
  /\ \A i \in DOMAIN out[r] :
       out[r][i].kind \in {"final", "error"} <=> pc[r] = "closed" /\ i = Len(out[r])

SentInv(r) ==
  /\ pc[r] \in {"idle", "lookup", "route"} => out[r] = <<>> /\ result[r] = None
  /\ LookupInv(r) /\ ReplayInv(r) /\ TierInv(r) /\ ResultInv(r)
  /\ PoolInv(r) /\ TerminalInv(r)

(***************************************************************************)
(* The inductive invariant behind the three properties above: what was     *)
(* sent is the default tier's answer so far, or that answer, the notice    *)
(* and the escalation tier's so far, or the words replayed so far; and a   *)
(* result is one of the answers that was sent whole.                       *)
(***************************************************************************)
StreamInv == \A r \in Requests : SentInv(r)

------------------------------------------------------------------------------
(* The stream of a request as the wire contract sees it. *)

Wire == INSTANCE QueryStream WITH
  Calls <- Requests,
  stream <- [r \in Requests |-> [i \in DOMAIN out[r] |-> out[r][i].kind]],
  state <- [r \in Requests |->
    IF pc[r] = "closed" THEN "closed" ELSE IF pc[r] \in Broken THEN "broken" ELSE "open"]

(***************************************************************************)
(* The stream obeys the wire contract in every interleaving: one terminal  *)
(* chunk that is the last, and at most one escalation notice.              *)
(***************************************************************************)
WireContract == Wire!Spec

(***************************************************************************)
(* The requests use the cache as SemanticCache describes, so what is shown *)
(* of get_similar there holds of the supervisor.                           *)
(***************************************************************************)
UsesCache == Cache!Init /\ [][Cache!Next]_cacheVars

(***************************************************************************)
(* Every request that was received ends if its own calls of Redis are each *)
(* answered or fail: whatever providers do, whoever else is being served,  *)
(* and though Redis may never answer anybody else.                         *)
(***************************************************************************)
EveryRequestEnds ==
  \A r \in Requests :
    WF_vars(pc[r] \in AwaitingRedis /\ Progress(r)) => (pc[r] = "lookup" ~> pc[r] \in Ended)

(***************************************************************************)
(* A Redis that stays silent can hold a request at the lookup and at the   *)
(* write only: one that is being replayed, routed, streamed or assessed    *)
(* ends or gets to the write, whatever Redis does.                         *)
(***************************************************************************)
HangsOnlyAtRedis ==
  \A r \in Requests :
    pc[r] \in {"replay", "route", "stream", "assess"} ~> pc[r] \in {"caching"} \union Ended

------------------------------------------------------------------------------
(* What the repository says, and the code does not do *)

(***************************************************************************)
(* scripts/test-k8s.ps1: without Redis "a cache miss just falls through to *)
(* a real LLM call, so nothing crashes".                                   *)
(***************************************************************************)
RedisOutageOnlyMisses == \A r \in Requests : pc[r] # "redis_error"

(***************************************************************************)
(* supervisor/main.py: "The confidence check is best-effort: if IT fails,  *)
(* we still have a perfectly good answer already streamed".  Whatever the  *)
(* check gives, it ends no call.                                           *)
(***************************************************************************)
CheckIsBestEffort == \A r \in Requests : pc[r] # "assess_error"

(* The answer that scripts/test_client.py holds: the tokens since a notice. *)
ClientAnswer(s) ==
  LET Since(i) == \A j \in Notices(s) : j < i
  IN {i \in DOMAIN s : IsToken(s[i]) /\ Since(i)}

(***************************************************************************)
(* supervisor/main.py: when the escalation tier fails cleanly, "keep the   *)
(* default-tier answer already streamed rather than leaving the user with  *)
(* nothing".  A client that was sent a final holds an answer.              *)
(***************************************************************************)
FinalLeavesAnAnswer ==
  \A r \in Requests : EndsWith(r, "final") => ClientAnswer(out[r]) # {}

(***************************************************************************)
(* eval/run_eval.py: an answer without an error must not be empty.         *)
(***************************************************************************)
NoEmptyAnswer ==
  \A r \in Requests : EndsWith(r, "final") =>
    \E i \in DOMAIN out[r] : IsToken(out[r][i]) /\ out[r][i].tok # None

(***************************************************************************)
(* How the two statements above fail, and no other way: a client that is   *)
(* sent a final and holds no answer was told to drop it by the notice of   *)
(* an escalation that failed, or its model's answer was empty.             *)
(***************************************************************************)
LostAnswersAreExplained ==
  \A r \in Requests : EndsWith(r, "final") /\ ClientAnswer(out[r]) = {} =>
    \/ Len(out[r]) - 1 \in Notices(out[r])
    \/ result[r] # None /\ result[r].answer = <<>>
==============================================================================
