----------------------- MODULE SupervisorContract_proofs -----------------------
(***************************************************************************)
(* The supervisor implements the wire contract of QueryStream.  A request  *)
(* whose tier is "default" has sent no escalation notice, and only such a  *)
(* request sends one; a request that still acts is open.                   *)
(***************************************************************************)
EXTENDS Supervisor_proofs

(* The stream of a request, and its state, as the contract sees them. *)
Stream == [r \in Requests |-> [i \in DOMAIN out[r] |-> out[r][i].kind]]
State == [r \in Requests |->
  IF pc[r] = "closed" THEN "closed" ELSE IF pc[r] \in Broken THEN "broken" ELSE "open"]

NoNotice(r) == \A i \in DOMAIN out[r] : out[r][i].kind # "escalating"

(* The default tier is streamed before any notice. *)
NoticeInv == \A r \in Requests : tier[r] = "default" => NoNotice(r)

(* The kinds of a stream with one more chunk. *)
LEMMA KindsOfAppend ==
  ASSUME NEW s \in Seq(Chunk), NEW c \in Chunk
  PROVE  [i \in DOMAIN Append(s, c) |-> Append(s, c)[i].kind]
           = Append([i \in DOMAIN s |-> s[i].kind], c.kind)
OBVIOUS

(* Yield appends to the stream of the request. *)
LEMMA YieldSends ==
  ASSUME TypeOK, NEW r \in Requests, NEW c \in Chunk, Yield(r, c)
  PROVE  Stream' = [Stream EXCEPT ![r] = Append(@, c.kind)]
<1>1. out[r] \in Seq(Chunk) /\ out' = [out EXCEPT ![r] = Append(out[r], c)]
  BY DEF TypeOK, RequestTypeOK, Yield
<1>2. out \in [Requests -> Seq(Chunk)]
  BY DEF TypeOK, RequestTypeOK
<1>3. Stream'[r] = Append(Stream[r], c.kind)
  BY <1>1, <1>2, KindsOfAppend DEF Stream
<1>4. \A s \in Requests : s # r => Stream'[s] = Stream[s]
  BY <1>1, <1>2 DEF Stream
<1>5. QED
  BY <1>3, <1>4 DEF Stream

Live == {"idle"} \union Awaiting

(* A request that goes on stays open, and nothing else changes. *)
LEMMA StaysOpen ==
  ASSUME TypeOK, NEW r \in Requests, pc[r] \in Live, NEW label \in Live, Goto(r, label)
  PROVE  State' = State /\ State[r] = "open"
BY DEF TypeOK, RequestTypeOK, State, Goto, Live, Awaiting, Broken

(* A request that ends leaves the open state. *)
LEMMA Ends ==
  ASSUME TypeOK, NEW r \in Requests, pc[r] \in Live, NEW label \in Ended, Goto(r, label)
  PROVE  /\ State[r] = "open"
         /\ State' = [State EXCEPT ![r] = IF label = "closed" THEN "closed" ELSE "broken"]
BY DEF TypeOK, RequestTypeOK, State, Goto, Live, Awaiting, Ended, Broken

(* The moves of the contract, over Stream and State. *)
LEMMA TokenMove ==
  ASSUME TypeOK, NEW r \in Requests, NEW c \in Chunk, Yield(r, c), c.kind = "token",
         State[r] = "open", State' = State
  PROVE  Wire!Token(r)
<1>1. Stream' = [Stream EXCEPT ![r] = Append(@, "token")]
  BY YieldSends
<1>2. Wire!Send(r, "token")
  BY <1>1 DEF Wire!Send, Stream, State
<1>3. QED
  BY <1>2 DEF Wire!Token, State

LEMMA NoticeMove ==
  ASSUME TypeOK, NEW r \in Requests, NEW c \in Chunk, Yield(r, c), c.kind = "escalating",
         State[r] = "open", State' = State, NoNotice(r)
  PROVE  Wire!Escalate(r)
<1>1. \A i \in DOMAIN Stream[r] : Stream[r][i] # "escalating"
  BY DEF NoNotice, Stream
<1>2. Stream' = [Stream EXCEPT ![r] = Append(@, "escalating")]
  BY YieldSends
<1>3. Wire!Send(r, "escalating")
  BY <1>2 DEF Wire!Send, Stream, State
<1>4. QED
  BY <1>1, <1>3 DEF Wire!Escalate, Stream, State

LEMMA CloseMove ==
  ASSUME TypeOK, NEW r \in Requests, NEW c \in Chunk, c.kind \in {"final", "error"},
         pc[r] \in Live, Close(r, c)
  PROVE  Wire!Close(r)
<1>1. State[r] = "open" /\ State' = [State EXCEPT ![r] = "closed"]
  BY Ends DEF Close, Ended
<1>2. Stream' = [Stream EXCEPT ![r] = Append(@, c.kind)]
  BY YieldSends DEF Close
<1>3. QED
  BY <1>1, <1>2 DEF Wire!Close, Wire!Send, Stream, State

LEMMA BreakMove ==
  ASSUME TypeOK, NEW r \in Requests, pc[r] \in Live, NEW label \in Broken, Goto(r, label),
         out' = out
  PROVE  Wire!Break({r})
<1>1. State[r] = "open" /\ State' = [State EXCEPT ![r] = "broken"]
  BY Ends DEF Ended, Broken
<1>2. State' = [s \in Requests |-> IF s \in {r} THEN "broken" ELSE State[s]]
  BY <1>1 DEF State
<1>3. Stream' = Stream
  BY DEF Stream
<1>4. QED
  BY <1>1, <1>2, <1>3 DEF Wire!Break, Stream, State

(* The kinds of the payloads the servicer builds. *)
LEMMA Kinds ==
  /\ \A tok, b : TokenChunk(tok, b).kind = "token"
  /\ \A reason : EscalationNotice(reason).kind = "escalating"
  /\ \A code : QueryError(code).kind = "error"
  /\ \A a, m, c, e, method : QueryMetadata(a, m, c, e, method).kind = "final"
BY DEF TokenChunk, EscalationNotice, QueryError, QueryMetadata

(* What keeps NoticeInv: no chunk, a chunk that is no notice, or a notice  *)
(* of a request that leaves the default tier with it.                      *)
LEMMA NoticeInvSilent ==
  ASSUME NoticeInv, out' = out, \A s \in Requests : tier'[s] = "default" => tier[s] = "default"
  PROVE  NoticeInv'
BY DEF NoticeInv, NoNotice

LEMMA NoticeInvSend ==
  ASSUME TypeOK, NoticeInv, NEW r \in Requests, NEW c \in Chunk, Yield(r, c),
         \/ c.kind # "escalating" /\ tier' = tier
         \/ tier' = [tier EXCEPT ![r] = "escalation"]
  PROVE  NoticeInv'
<1>1. out[r] \in Seq(Chunk) /\ out' = [out EXCEPT ![r] = Append(out[r], c)]
  BY DEF TypeOK, RequestTypeOK, Yield
<1>2. out \in [Requests -> Seq(Chunk)] /\ tier \in [Requests -> {"default", "escalation"}]
  BY DEF TypeOK, RequestTypeOK
<1>3. \A s \in Requests : s # r => out'[s] = out[s] /\ tier'[s] = tier[s]
  BY <1>1, <1>2
<1>4. ASSUME c.kind # "escalating", NoNotice(r) PROVE NoNotice(r)'
  <2>1. out'[r] = Append(out[r], c)
    BY <1>1, <1>2
  <2>2. QED
    BY <1>1, <1>4, <2>1 DEF NoNotice
<1>5. QED
  BY <1>2, <1>3, <1>4 DEF NoticeInv, NoNotice

(* The moves of one request. *)
Move(r) ==
  \/ Stream' = Stream /\ State' = State
  \/ Wire!Token(r) \/ Wire!Escalate(r) \/ Wire!Close(r) \/ Wire!Break({r})

(* A request that goes on without a chunk, in the same tier. *)
LEMMA SilentStep ==
  ASSUME TypeOK, NoticeInv, NEW r \in Requests, pc[r] \in Live,
         pc' = pc \/ \E label \in Live : Goto(r, label), out' = out, tier' = tier
  PROVE  Move(r) /\ NoticeInv'
<1>1. Stream' = Stream
  BY DEF Stream
<1>2. State' = State
  BY StaysOpen DEF State
<1>3. QED
  BY <1>1, <1>2, NoticeInvSilent DEF Move

(* A request that sends a token. *)
LEMMA TokenStep ==
  ASSUME TypeOK, NoticeInv, NEW r \in Requests, NEW c \in Chunk, c.kind = "token", Yield(r, c),
         pc[r] \in Live, pc' = pc, tier' = tier
  PROVE  Move(r) /\ NoticeInv'
<1>1. State' = State /\ State[r] = "open"
  BY DEF State, Live, Awaiting, Broken
<1>2. QED
  BY <1>1, TokenMove, NoticeInvSend DEF Move

(* A request that sends its last chunk. *)
LEMMA CloseStep ==
  ASSUME TypeOK, NoticeInv, NEW r \in Requests, NEW c \in Chunk, c.kind \in {"final", "error"},
         Close(r, c), pc[r] \in Live, tier' = tier
  PROVE  Move(r) /\ NoticeInv'
<1>1. Wire!Close(r)
  BY CloseMove
<1>2. NoticeInv'
  BY NoticeInvSend DEF Close
<1>3. QED
  BY <1>1, <1>2 DEF Move

(* A request that fails without a chunk. *)
LEMMA BreakStep ==
  ASSUME TypeOK, NoticeInv, NEW r \in Requests, NEW label \in Broken, Goto(r, label),
         pc[r] \in Live, out' = out, tier' = tier
  PROVE  Move(r) /\ NoticeInv'
BY BreakMove, NoticeInvSilent DEF Move

(* A request that is escalated: it was in the default tier. *)
LEMMA EscalateMove ==
  ASSUME TypeOK, NoticeInv, NEW r \in Requests, NEW reason \in Reasons, Escalate(r, reason),
         pc[r] \in Live, tier[r] = "default"
  PROVE  Move(r) /\ NoticeInv'
<1>1. EscalationNotice(reason) \in Chunk /\ EscalationNotice(reason).kind = "escalating"
  BY ChunkTypes, Kinds
<1>2. State' = State /\ State[r] = "open"
  BY StaysOpen DEF Escalate, Live, Awaiting
<1>3. NoNotice(r)
  BY DEF NoticeInv
<1>4. Wire!Escalate(r)
  BY <1>1, <1>2, <1>3, NoticeMove DEF Escalate
<1>5. NoticeInv'
  BY <1>1, NoticeInvSend DEF Escalate, Try
<1>6. QED
  BY <1>4, <1>5 DEF Move

------------------------------------------------------------------------------
(* Every step of a request is a move of the contract. *)
LEMMA RequestMove ==
  ASSUME TypeOK, RequestInv, NoticeInv, NEW r \in Requests, RequestStep(r)
  PROVE  Move(r) /\ NoticeInv'
<1> USE DEF Live, Awaiting
<1>1. CASE Receive(r)
  BY <1>1, SilentStep DEF Receive
<1>2. CASE \E k \in Keys : Scan(r, k)
  BY <1>2, SilentStep DEF Scan, requestVars
<1>3. CASE Lookup(r)
  <2>1. CASE LookupHit(r)
    BY <2>1, SilentStep DEF LookupHit
  <2>2. CASE LookupRaises(r)
    BY <2>2, BreakStep DEF LookupRaises, Broken
  <2>3. CASE ReplayWord(r)
    <3>1. /\ Yield(r, TokenChunk(Words(Cached(r).answer)[idx[r] + 1], TRUE))
          /\ pc[r] = "replay" /\ pc' = pc /\ tier' = tier
      BY <2>3 DEF ReplayWord
    <3>2. QED
      BY <2>3, <3>1, ReplayedChunk, Kinds, TokenStep
  <2>4. CASE ReplayFinal(r)
    <3> DEFINE c == QueryMetadata(Cached(r).agent_name, Cached(r).model_used, TRUE, FALSE, "cache")
    <3>1. pc[r] \in Live /\ Close(r, c) /\ tier' = tier
      BY <2>4 DEF ReplayFinal
    <3>2. c.kind = "final"
      BY DEF QueryMetadata
    <3>3. c \in Chunk
      BY <2>4, CachedMetadata DEF ReplayFinal
    <3> HIDE DEF c
    <3>4. QED
      BY <3>1, <3>2, <3>3, CloseStep
  <2>5. QED
    BY <1>2, <1>3, <2>1, <2>2, <2>3, <2>4 DEF Lookup, TypeOK, Cache!TypeOK
<1>4. CASE Route(r)
  <2>1. CASE LLMRouteFails(r)
    BY <2>1, BreakStep DEF LLMRouteFails, Broken
  <2>2. CASE RouteByEmbedding(r) \/ RouteUnsure(r) \/ \E a \in Agents : LLMRoute(r, a)
    BY <2>2, SilentStep DEF RouteByEmbedding, RouteUnsure, LLMRoute
  <2>3. QED
    BY <1>4, <2>1, <2>2 DEF Route
<1>5. CASE StreamTier(r)
  <2>1. ASSUME NEW n \in Lengths, SendToken(r, n) PROVE Move(r) /\ NoticeInv'
    <3>1. /\ Yield(r, TokenChunk(NextTok(r, n), FALSE))
          /\ pc[r] = "stream" /\ pc' = pc /\ tier' = tier
      BY <2>1 DEF SendToken, NextTok
    <3>2. QED
      BY <2>1, <3>1, SentToken, Kinds, TokenStep
  <2>2. CASE NextCandidate(r)
    BY <2>2, SilentStep DEF NextCandidate, FailsBeforeFirstToken, Try, TypeOK, RequestTypeOK
  <2>3. CASE StreamEnds(r) \/ NextChecker(r)
    BY <2>3, SilentStep DEF StreamEnds, NextChecker
  <2>4. CASE Interrupted(r)
    BY <2>4, ChunkTypes, Kinds, CloseStep DEF Interrupted, Codes
  <2>5. CASE AllTiersExhausted(r)
    BY <2>5, ChunkTypes, Kinds, CloseStep
    DEF AllTiersExhausted, EscalationExhausted, FailsBeforeFirstToken, Codes
  <2>6. CASE KeepDefaultAnswer(r)
    BY <2>6, SilentStep DEF KeepDefaultAnswer, EscalationExhausted, FailsBeforeFirstToken
  <2>7. CASE DefaultExhausted(r)
    BY <2>7, EscalateMove DEF DefaultExhausted, FailsBeforeFirstToken, Reasons
  <2>8. ASSUME NEW a, pc[r] = "assess", Assessed(r, a) PROVE Move(r) /\ NoticeInv'
    <3>1. CASE Goto(r, "caching") /\ UNCHANGED <<tier, idx, parts, out>>
      BY <2>8, <3>1, SilentStep
    <3>2. ASSUME NEW reason \in Reasons, Escalate(r, reason), tier[r] = "default"
          PROVE  Move(r) /\ NoticeInv'
      BY <2>8, <3>2, EscalateMove
    <3>3. QED
      BY <2>8, <3>1, <3>2 DEF Assessed, Reasons
  <2>9. CASE AssessesNothing(r)
    BY <2>9, BreakStep DEF AssessesNothing, Broken
  <2>10. QED
    BY <1>5, <2>1, <2>2, <2>3, <2>4, <2>5, <2>6, <2>7, <2>8, <2>9 DEF StreamTier, Assess, NoChecker
<1>6. CASE Finalize(r)
  <2>1. CASE Store(r)
    BY <2>1, SilentStep DEF Store
  <2>2. CASE StoreRaises(r)
    BY <2>2, BreakStep DEF StoreRaises, Broken
  <2>3. CASE Final(r)
    <3>1. FinalOf(r).kind = "final"
      BY DEF FinalOf, QueryMetadata
    <3>2. pc[r] = "stored" /\ tier' = tier
      BY <2>3 DEF Final
    <3>3. QED
      BY <2>3, <3>1, <3>2, FinalChunk, CloseStep
  <2>4. QED
    BY <1>6, <2>1, <2>2, <2>3 DEF Finalize
<1>7. CASE Cancel(r)
  BY <1>7, BreakStep DEF Cancel, Broken
<1>8. QED
  BY <1>1, <1>2, <1>3, <1>4, <1>5, <1>6, <1>7 DEF RequestStep, Progress

(* A crash breaks the calls that were open and had been received. *)
LEMMA CrashMove ==
  ASSUME TypeOK, NoticeInv, Crash
  PROVE  Wire!Break({r \in Requests : pc[r] \in Awaiting}) /\ NoticeInv'
<1>1. NoticeInv'
  BY NoticeInvSilent DEF Crash
<1>2. Stream' = Stream
  BY DEF Crash, Stream
<1>3. \A r \in Requests : pc[r] \in Awaiting => State[r] = "open"
  BY DEF State, Awaiting, Broken
<1>4. State' = [r \in Requests |->
         IF r \in {s \in Requests : pc[s] \in Awaiting} THEN "broken" ELSE State[r]]
  BY DEF State, Crash, Awaiting, Broken
<1>5. QED
  BY <1>1, <1>2, <1>3, <1>4 DEF Wire!Break, Stream, State

LEMMA ContractInit == Init => Wire!Init /\ NoticeInv
BY DEF Init, Wire!Init, NoticeInv, NoNotice, Broken

LEMMA ContractStep ==
  TypeOK /\ RequestInv /\ NoticeInv /\ [Next]_vars => [Wire!Next]_(Wire!vars) /\ NoticeInv'
<1> SUFFICES ASSUME TypeOK, RequestInv, NoticeInv, [Next]_vars
             PROVE  [Wire!Next]_(Wire!vars) /\ NoticeInv'
  OBVIOUS
<1>1. ASSUME NEW r \in Requests, RequestStep(r) PROVE [Wire!Next]_(Wire!vars) /\ NoticeInv'
  <2>1. Move(r) /\ NoticeInv'
    BY <1>1, RequestMove
  <2>2. Stream' = Stream /\ State' = State => UNCHANGED Wire!vars
    BY DEF Stream, State, Wire!vars
  <2>3. {r} \in SUBSET Requests
    OBVIOUS
  <2>4. QED
    BY <2>1, <2>2, <2>3 DEF Move, Wire!Next
<1>2. CASE Crash
  <2> DEFINE Gone == {r \in Requests : pc[r] \in Awaiting}
  <2>1. Wire!Break(Gone) /\ NoticeInv'
    BY <1>2, CrashMove
  <2>2. Gone \in SUBSET Requests
    OBVIOUS
  <2> HIDE DEF Gone
  <2>3. \E calls \in SUBSET Requests : Wire!Break(calls)
    BY <2>1, <2>2 DEF Wire!Break
  <2>4. QED
    BY <2>1, <2>3, Zenon DEF Wire!Next
<1>3. CASE RedisChanges
  <2>1. pc' = pc /\ tier' = tier /\ out' = out
    BY <1>3 DEF RedisChanges, requestVars
  <2>2. NoticeInv'
    BY <2>1, NoticeInvSilent
  <2>3. Stream' = Stream /\ State' = State
    BY <2>1 DEF Stream, State
  <2>4. QED
    BY <2>2, <2>3 DEF Stream, State, Wire!vars
<1>4. CASE UNCHANGED vars
  BY <1>4, NoticeInvSilent DEF vars, requestVars, Wire!vars
<1>5. QED
  BY <1>1, <1>2, <1>3, <1>4, NextSteps

(***************************************************************************)
(* The supervisor implements the wire contract of query.proto: on every    *)
(* call at most one notice, then at most one final or error, and nothing   *)
(* after it, for any interleaving of requests, failures and cancellations. *)
(***************************************************************************)
THEOREM SupervisorKeepsContract == Spec => WireContract
BY ContractInit, ContractStep, SupervisorInvariant, PTL DEF Spec, WireContract, Wire!Spec
==============================================================================
