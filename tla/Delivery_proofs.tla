---------------------------- MODULE Delivery_proofs ----------------------------
(***************************************************************************)
(* The verdict of the regression harness is sound, for any queries, pools, *)
(* agents and lengths of answers, whatever fails between the harness and   *)
(* the models.                                                             *)
(*                                                                         *)
(* The supervisor keeps its invariants also where an earlier caller's      *)
(* answer is put in the cache; a stream only grows, and not once it is     *)
(* closed (the wire contract); so what a client holds of a call that ended *)
(* well is all that was sent, of which StreamsAreTrue tells the rest.      *)
(***************************************************************************)
EXTENDS Delivery, SupervisorStream_proofs, SupervisorContract_proofs

(* What is proved of the supervisor alone. *)
SupervisorInv ==
  TypeOK /\ RequestInv /\ CachedAnswersAreWhole /\ StreamsAreTrue /\ NoticeInv

------------------------------------------------------------------------------
(* The supervisor's part *)

(* A step is one of the supervisor, or puts a whole answer in the cache. *)
LEMMA Steps ==
  DeliveryNext => \/ [Next]_vars
                  \/ \E q \in Queries, m \in Models, n \in Lengths, a \in Agents :
                       CachedBefore(q, m, n, a)
<1>1. ASSUME NEW r \in Requests,
             Call(r) \/ Leave(r) \/ Relay(r) \/ RelayEnds(r) \/ RelayFails(r) \/ Abort(r)
      PROVE  UNCHANGED vars
  BY <1>1 DEF Call, Leave, Relay, RelayEnds, RelayFails, Abort
<1>2. ASSUME NEW r \in Requests, Accept(r) \/ Serve(r) \/ CancelUpstream(r) PROVE Next
  BY <1>2 DEF Accept, Serve, CancelUpstream, Next
<1>3. GatewayCrash => UNCHANGED vars
  BY DEF GatewayCrash
<1>4. Outside => Next
  BY DEF Outside, Next
<1>5. QED
  BY <1>1, <1>2, <1>3, <1>4 DEF DeliveryNext, Transport

LEMMA OwnStep == SupervisorInv /\ [Next]_vars => SupervisorInv'
BY InvStep, WholeStep, StreamsStep, ContractStep DEF SupervisorInv

(* An answer that was stored before changes nothing but the cache. *)
LEMMA CachedBeforeStep ==
  ASSUME SupervisorInv, NEW q \in Queries, NEW m \in Models, NEW n \in Lengths, NEW a \in Agents,
         CachedBefore(q, m, n, a)
  PROVE  SupervisorInv'
<1> DEFINE v == [answer |-> Complete(q, m, n), agent_name |-> a, model_used |-> m]
           key == KeyOf[<<salt, q>>]
<1>1. /\ store' = [store EXCEPT ![key] = [query |-> q, value |-> v]]
      /\ UNCHANGED <<up, salt, query, scanning, todo, best>>
      /\ UNCHANGED <<pc, agent, tier, idx, chk, parts, result, out>>
      /\ SemanticRoute[q] \in {None, a}
  BY DEF CachedBefore, Cache!Put, requestVars
<1>2. v \in CacheValue
  BY DEF CacheValue, Answer
<1> HIDE DEF v
<1>3. TypeOK'
  <2>1. key \in Keys
    BY CacheParameters DEF SupervisorInv, TypeOK, Cache!TypeOK
  <2>2. [query |-> q, value |-> v] \in Cache!Entry
    BY <1>2 DEF Cache!Entry
  <2> HIDE DEF key
  <2>3. store' \in [Keys -> Cache!Entry \union {None}]
    BY <1>1, <2>1, <2>2 DEF SupervisorInv, TypeOK, Cache!TypeOK
  <2>4. QED
    BY <1>1, <2>3 DEF SupervisorInv, TypeOK, Cache!TypeOK, RequestTypeOK
<1>4. \A r \in Requests : SameRequest(r) /\ best'[r] = best[r]
  BY <1>1 DEF SameRequest
<1>5. RequestInv'
  BY <1>4, Frame DEF SupervisorInv, RequestInv
<1>6. StreamsAreTrue'
  BY <1>1, <1>4, SentFrame DEF SupervisorInv, StreamsAreTrue, StreamInv
<1>7. NoticeInv'
  BY <1>1 DEF SupervisorInv, NoticeInv, NoNotice
<1>8. CachedAnswersAreWhole'
  <2> SUFFICES ASSUME NEW k \in Keys, store'[k] # None
               PROVE  IsWhole(store'[k])
    BY DEF CachedAnswersAreWhole
  <2>1. CASE store'[k] = store[k]
    BY <2>1 DEF SupervisorInv, CachedAnswersAreWhole
  <2>2. CASE store'[k] = [query |-> q, value |-> v]
    BY <1>1, <2>2 DEF IsWhole, IsAnswerTo, v
  <2>3. store'[k] = store[k] \/ store'[k] = [query |-> q, value |-> v]
    BY <1>1 DEF SupervisorInv, TypeOK, Cache!TypeOK
  <2>4. QED
    BY <2>1, <2>2, <2>3
<1>9. QED
  BY <1>3, <1>5, <1>6, <1>7, <1>8 DEF SupervisorInv

LEMMA SupervisorKept == SupervisorInv /\ [DeliveryNext]_allVars => SupervisorInv'
<1>1. UNCHANGED allVars => UNCHANGED vars
  BY DEF allVars
<1>2. QED
  BY <1>1, Steps, OwnStep, CachedBeforeStep

------------------------------------------------------------------------------
(* Streams grow until they are closed *)

(* What the contract lets happen to a stream. *)
LEMMA ContractGrowth ==
  ASSUME [Wire!Next]_(Wire!vars), NEW r \in Requests
  PROVE  /\ \/ Stream'[r] = Stream[r]
            \/ State[r] = "open" /\ \E kind : Stream'[r] = Append(Stream[r], kind)
         /\ State[r] = "closed" => State'[r] = "closed"
<1> DEFINE Goal == /\ \/ Stream'[r] = Stream[r]
                      \/ State[r] = "open" /\ \E kind : Stream'[r] = Append(Stream[r], kind)
                   /\ State[r] = "closed" => State'[r] = "closed"
<1>1. ASSUME NEW c \in Requests, NEW kind, Wire!Send(c, kind)
      PROVE  State[c] = "open" /\ Stream' = [Stream EXCEPT ![c] = Append(Stream[c], kind)]
  BY <1>1 DEF Wire!Send, Stream, State
<1>2. ASSUME NEW c \in Requests, NEW kind, Wire!Send(c, kind),
             State' = State \/ State' = [State EXCEPT ![c] = "closed"]
      PROVE  Goal
  <2>1. State[c] = "open" /\ Stream' = [Stream EXCEPT ![c] = Append(Stream[c], kind)]
    BY <1>1, <1>2
  <2>2. DOMAIN Stream = Requests /\ DOMAIN State = Requests
    BY DEF Stream, State
  <2> HIDE DEF Goal
  <2>3. CASE c = r
    <3>1. Stream'[r] = Append(Stream[r], kind) /\ State[r] # "closed"
      BY <2>1, <2>2, <2>3
    <3>2. QED
      BY <2>1, <2>3, <3>1 DEF Goal
  <2>4. CASE c # r
    BY <1>2, <2>1, <2>2, <2>4 DEF Goal
  <2>5. QED
    BY <2>3, <2>4
<1>3. ASSUME NEW c \in Requests, Wire!Token(c) \/ Wire!Escalate(c) \/ Wire!Close(c) PROVE Goal
  BY <1>2, <1>3 DEF Wire!Token, Wire!Escalate, Wire!Close, State
<1>4. ASSUME NEW C \in SUBSET Requests, Wire!Break(C) PROVE Goal
  BY <1>4 DEF Wire!Break, Stream, State
<1>5. CASE UNCHANGED Wire!vars
  BY <1>5 DEF Wire!vars, Stream, State
<1>6. QED
  BY <1>3, <1>4, <1>5 DEF Wire!Next

(* The same, of the chunks. *)
Grows(r) ==
  /\ Len(out[r]) <= Len(out'[r])
  /\ pc[r] = "closed" => pc'[r] = "closed" /\ Len(out'[r]) = Len(out[r])

LEMMA OutGrows ==
  ASSUME SupervisorInv, [Next]_vars, NEW r \in Requests
  PROVE  Grows(r)
<1>1. out[r] \in Seq(Chunk) /\ out'[r] \in Seq(Chunk)
  <2>1. TypeOK /\ TypeOK'
    BY InvStep DEF SupervisorInv
  <2>2. QED
    BY <2>1 DEF TypeOK, RequestTypeOK
<1>2. /\ \/ Stream'[r] = Stream[r]
         \/ State[r] = "open" /\ \E kind : Stream'[r] = Append(Stream[r], kind)
      /\ State[r] = "closed" => State'[r] = "closed"
  BY ContractStep, ContractGrowth DEF SupervisorInv
<1>3. Len(Stream[r]) = Len(out[r]) /\ Stream[r] \in Seq({c.kind : c \in Chunk})
  BY <1>1 DEF Stream
<1>4. Len(Stream'[r]) = Len(out'[r])
  BY <1>1 DEF Stream
<1>5. /\ pc[r] = "closed" <=> State[r] = "closed"
      /\ pc'[r] = "closed" <=> State'[r] = "closed"
  BY DEF State, Broken
<1>6. QED
  BY <1>1, <1>2, <1>3, <1>4, <1>5 DEF Grows

------------------------------------------------------------------------------
(* The client and the gateway *)

(* A relay that ended well has relayed all of a stream that is closed. *)
DeliveryInv ==
  \A r \in Requests : client[r] = "ended" => pc[r] = "closed" /\ got[r] = Len(out[r])

ClientStates == {"idle", "reading", "ended", "failed", "gone"}
GatewayStates == {"idle", "open", "ended", "failed", "aborted", "crashed"}

(* The supervisor's steps leave the client alone. *)
LEMMA StreamGrows ==
  ASSUME SupervisorInv, SupervisorInv', DeliveryTypeOK, DeliveryInv, UNCHANGED deliveryVars,
         \A r \in Requests : Grows(r)
  PROVE  DeliveryTypeOK' /\ DeliveryInv'
<1>1. client' = client /\ gateway' = gateway /\ got' = got
  BY DEF deliveryVars
<1>2. ASSUME NEW r \in Requests
      PROVE  /\ got'[r] <= Len(out'[r])
             /\ client'[r] = "ended" => pc'[r] = "closed" /\ got'[r] = Len(out'[r])
  <2>1. got[r] \in Nat /\ got[r] <= Len(out[r])
    BY DEF DeliveryTypeOK
  <2>2. Len(out[r]) \in Nat /\ Len(out'[r]) \in Nat
    <3>1. out[r] \in Seq(Chunk) /\ out'[r] \in Seq(Chunk)
      BY DEF SupervisorInv, TypeOK, RequestTypeOK
    <3>2. QED
      BY <3>1
  <2>3. got'[r] <= Len(out'[r])
    BY <1>1, <2>1, <2>2 DEF Grows
  <2>4. QED
    BY <1>1, <2>3 DEF Grows, DeliveryInv
<1>3. QED
  BY <1>1, <1>2 DEF DeliveryTypeOK, DeliveryInv

(* The client's call and the gateway's change, and no chunk is relayed. *)
LEMMA CallChanges ==
  ASSUME DeliveryTypeOK, DeliveryInv, UNCHANGED <<vars, got>>,
         client' \in [Requests -> ClientStates], gateway' \in [Requests -> GatewayStates],
         \A r \in Requests : client'[r] = "ended" =>
           client[r] = "ended" \/ (pc[r] = "closed" /\ got[r] = Len(out[r]))
  PROVE  DeliveryTypeOK' /\ DeliveryInv'
<1>1. pc' = pc /\ out' = out /\ got' = got
  BY DEF vars, requestVars
<1>2. QED
  BY <1>1 DEF DeliveryTypeOK, DeliveryInv, ClientStates, GatewayStates

LEMMA BecomesType ==
  ASSUME DeliveryTypeOK, NEW r \in Requests, NEW c \in ClientStates, NEW g \in GatewayStates,
         Becomes(r, c, g)
  PROVE  /\ client' \in [Requests -> ClientStates] /\ gateway' \in [Requests -> GatewayStates]
         /\ \A s \in Requests : client'[s] = IF s = r THEN c ELSE client[s]
BY DEF DeliveryTypeOK, Becomes, ClientStates, GatewayStates

(* A call that is made, ends or goes. *)
LEMMA CallStep ==
  ASSUME DeliveryTypeOK, DeliveryInv, NEW r \in Requests,
         Call(r) \/ Leave(r) \/ RelayEnds(r) \/ RelayFails(r) \/ Abort(r)
  PROVE  DeliveryTypeOK' /\ DeliveryInv'
<1>1. UNCHANGED <<vars, got>>
  BY DEF Call, Leave, RelayEnds, RelayFails, Abort
<1>2. PICK c \in ClientStates, g \in GatewayStates :
        Becomes(r, c, g) /\ (c = "ended" => pc[r] = "closed" /\ got[r] = Len(out[r]))
  BY DEF Call, Leave, RelayEnds, RelayFails, Abort, DeliveryTypeOK, ClientStates, GatewayStates
<1>3. QED
  BY <1>1, <1>2, BecomesType, CallChanges

LEMMA GatewayCrashStep ==
  ASSUME DeliveryTypeOK, DeliveryInv, GatewayCrash
  PROVE  DeliveryTypeOK' /\ DeliveryInv'
<1>1. UNCHANGED <<vars, got>>
  BY DEF GatewayCrash
<1>2. client' \in [Requests -> ClientStates] /\ gateway' \in [Requests -> GatewayStates]
  BY DEF GatewayCrash, DeliveryTypeOK, ClientStates, GatewayStates
<1>3. \A r \in Requests : client'[r] = "ended" => client[r] = "ended"
  BY DEF GatewayCrash
<1>4. QED
  BY <1>1, <1>2, <1>3, CallChanges

(* A chunk is relayed to a client that is reading. *)
LEMMA RelayStep ==
  ASSUME SupervisorInv, DeliveryTypeOK, DeliveryInv, NEW r \in Requests, Relay(r)
  PROVE  DeliveryTypeOK' /\ DeliveryInv'
<1>1. /\ client[r] = "reading" /\ got[r] < Len(out[r]) /\ got' = [got EXCEPT ![r] = @ + 1]
      /\ client' = client /\ gateway' = gateway /\ out' = out /\ pc' = pc
  BY DEF Relay, Relaying, vars, requestVars
<1>2. Len(out[r]) \in Nat /\ got \in [Requests -> Nat]
  BY SentTypes DEF SupervisorInv, DeliveryTypeOK
<1>3. got' \in [Requests -> Nat] /\ got'[r] = got[r] + 1
  BY <1>1, <1>2
<1>4. got'[r] <= Len(out[r])
  BY <1>1, <1>2, <1>3
<1>5. \A s \in Requests : s # r => got'[s] = got[s]
  BY <1>1, <1>2
<1>6. DeliveryTypeOK'
  BY <1>1, <1>3, <1>4, <1>5 DEF DeliveryTypeOK
<1>7. DeliveryInv'
  BY <1>1, <1>5 DEF DeliveryInv
<1>8. QED
  BY <1>6, <1>7

LEMMA DeliveryStep ==
  SupervisorInv /\ DeliveryTypeOK /\ DeliveryInv /\ [DeliveryNext]_allVars
    => DeliveryTypeOK' /\ DeliveryInv'
<1> SUFFICES ASSUME SupervisorInv, DeliveryTypeOK, DeliveryInv, [DeliveryNext]_allVars
             PROVE  DeliveryTypeOK' /\ DeliveryInv'
  OBVIOUS
<1> SupervisorInv'
  BY SupervisorKept
<1>1. Next => \A r \in Requests : Grows(r)
  BY OutGrows
<1>2. ASSUME NEW r \in Requests, Accept(r) \/ Serve(r) \/ CancelUpstream(r)
      PROVE  DeliveryTypeOK' /\ DeliveryInv'
  <2>1. Next /\ UNCHANGED deliveryVars
    BY <1>2 DEF Accept, Serve, CancelUpstream, Next
  <2>2. QED
    BY <1>1, <2>1, StreamGrows
<1>3. CASE Outside
  <2>1. Next /\ UNCHANGED deliveryVars
    BY <1>3 DEF Outside, Next
  <2>2. QED
    BY <1>1, <2>1, StreamGrows
<1>4. ASSUME out' = out, pc' = pc, UNCHANGED deliveryVars
      PROVE  DeliveryTypeOK' /\ DeliveryInv'
  <2>1. \A r \in Requests : Grows(r)
    BY <1>4, SentTypes DEF SupervisorInv, Grows
  <2>2. QED
    BY <1>4, <2>1, StreamGrows
<1>5. ASSUME NEW q \in Queries, NEW m \in Models, NEW n \in Lengths, NEW a \in Agents,
             CachedBefore(q, m, n, a)
      PROVE  DeliveryTypeOK' /\ DeliveryInv'
  BY <1>4, <1>5 DEF CachedBefore, requestVars
<1>6. CASE UNCHANGED allVars
  BY <1>4, <1>6 DEF allVars, vars, requestVars
<1>7. QED
  BY <1>2, <1>3, <1>5, <1>6, CallStep, GatewayCrashStep, RelayStep DEF DeliveryNext, Transport

LEMMA DeliveryStarts ==
  DeliveryInit => SupervisorInv /\ DeliveryTypeOK /\ DeliveryInv
<1> SUFFICES ASSUME DeliveryInit PROVE SupervisorInv /\ DeliveryTypeOK /\ DeliveryInv
  OBVIOUS
<1>1. Init
  BY DEF DeliveryInit
<1>2. SupervisorInv
  BY <1>1, SupervisorStarts, WholeInit, StreamsInit, ContractInit DEF SupervisorInv
<1>3. \A r \in Requests : Len(out[r]) = 0
  BY <1>1 DEF Init
<1>4. QED
  BY <1>2, <1>3 DEF DeliveryInit, DeliveryTypeOK, DeliveryInv

LEMMA DeliveryInvariant ==
  DeliverySpec => [](SupervisorInv /\ DeliveryTypeOK /\ DeliveryInv)
BY DeliveryStarts, SupervisorKept, DeliveryStep, PTL DEF DeliverySpec

(***************************************************************************)
(* The client never holds more chunks than were sent to it, and the calls  *)
(* of both hops keep to their states.                                      *)
(***************************************************************************)
THEOREM DeliveryTypes == DeliverySpec => []DeliveryTypeOK
BY DeliveryInvariant, PTL

(***************************************************************************)
(* What the supervisor sends to a gateway obeys the wire contract, also    *)
(* when calls are cut off and the cache was filled before.                 *)
(***************************************************************************)
THEOREM DeliveryKeepsContract == DeliverySpec => WireContract
<1>1. DeliveryInit => Wire!Init
  BY ContractInit DEF DeliveryInit
<1>2. SupervisorInv /\ [DeliveryNext]_allVars => [Wire!Next]_(Wire!vars)
  <2> SUFFICES ASSUME SupervisorInv, [DeliveryNext]_allVars PROVE [Wire!Next]_(Wire!vars)
    OBVIOUS
  <2>1. CASE [Next]_vars
    BY <2>1, ContractStep DEF SupervisorInv
  <2>2. ASSUME NEW q \in Queries, NEW m \in Models, NEW n \in Lengths, NEW a \in Agents,
               CachedBefore(q, m, n, a)
        PROVE  UNCHANGED Wire!vars
    BY <2>2 DEF CachedBefore, requestVars, Wire!vars
  <2>3. UNCHANGED allVars => [Next]_vars
    BY DEF allVars
  <2>4. QED
    BY <2>1, <2>2, <2>3, Steps
<1>3. QED
  BY <1>1, <1>2, DeliveryInvariant, PTL DEF DeliverySpec, WireContract, Wire!Spec

------------------------------------------------------------------------------
(* The verdict *)

LEMMA WholeStream ==
  ASSUME NEW s \in Seq(Chunk)
  PROVE  SubSeq(s, 1, Len(s)) = s /\ (s # <<>> => Len(s) \in DOMAIN s) /\ DOMAIN s = 1..Len(s)
OBVIOUS

(* The metadata of a stream that is closed without an error is its last    *)
(* chunk.                                                                  *)
LEMMA MetaIsLast ==
  ASSUME SupervisorInv, NEW r \in Requests, pc[r] = "closed", got[r] = Len(out[r]),
         ~Has(r, "error")
  PROVE  /\ Received(r) = out[r] /\ EndsWith(r, "final")
         /\ Has(r, "final") /\ Meta(r) = out[r][Len(out[r])]
<1> DEFINE s == out[r]
           l == Len(s)
<1>1. /\ s \in Seq(Chunk) /\ s # <<>>
      /\ \A i \in DOMAIN s : s[i].kind \in {"final", "error"} <=> i = l
  BY SentTypes DEF SupervisorInv, StreamsAreTrue, StreamInv, SentInv, TerminalInv
<1>2. SubSeq(s, 1, l) = s /\ l \in DOMAIN s /\ DOMAIN s = 1..l
  BY <1>1, WholeStream
<1>3. s[l].kind = "final"
  BY <1>1, <1>2 DEF Has
<1>4. (CHOOSE i \in 1..got[r] : s[i].kind = "final") = l
  BY <1>1, <1>2, <1>3
<1>5. QED
  BY <1>1, <1>2, <1>3, <1>4 DEF Received, EndsWith, Has, Meta

(* The tokens the metadata is about are words of the answer, if anything   *)
(* was sent at all and the answer is not the one after a notice.           *)
LEMMA WordsOfAnswer ==
  ASSUME NEW s \in Seq(Chunk), s # <<>>,
         NEW i \in 1..Len(s), IsToken(s[i]), ~IsToken(s[Len(s)]), ~s[Len(s)].escalated,
         Notices(s) \subseteq {Len(s) - 1}
  PROVE  i \in DOMAIN FinalTokens(s) /\ FinalTokens(s)[i] = s[i]
<1> DEFINE last == Len(s) - 1
<1>1. /\ Len(s) \in Nat /\ Len(s) >= 1 /\ last \in Nat
      /\ i \in 1..last
  BY DEF IsToken
<1>2. CASE Notices(s) = {}
  <2>1. FinalTokens(s) = SubSeq(s, 1, last)
    BY <1>2 DEF FinalTokens
  <2>2. QED
    BY <1>1, <2>1
<1>3. CASE Notices(s) # {}
  <2>1. (CHOOSE j \in Notices(s) : TRUE) = last /\ last \in Notices(s)
    BY <1>3
  <2>2. i # last
    BY <2>1 DEF Notices, IsNotice, IsToken
  <2>3. FinalTokens(s) = SubSeq(s, 1, last - 1)
    BY <1>3, <2>1 DEF FinalTokens
  <2>4. QED
    BY <1>1, <2>2, <2>3
<1>4. QED
  BY <1>2, <1>3

LEMMA SoundVerdict == SupervisorInv /\ DeliveryInv => VerdictIsSound
<1> SUFFICES ASSUME SupervisorInv, DeliveryInv, NEW r \in Requests, Passed(r)
             PROVE  LET s == Received(r)
                        f == s[Len(s)]
                        answer == FinalTokens(s)
                    IN /\ s = out[r] /\ pc[r] = "closed"
                       /\ f.kind = "final" /\ f.agent_name = Expected[query[r]]
                       /\ FinalIsTrue(r)
                       /\ f.escalated \/ \E i \in DOMAIN answer : answer[i].tok # None
  BY DEF VerdictIsSound
<1> DEFINE s == out[r]
           f == s[Len(s)]
<1>1. client[r] = "ended" /\ ~Has(r, "error")
  BY DEF Passed, Errored
<1>2. pc[r] = "closed" /\ got[r] = Len(s)
  BY <1>1 DEF DeliveryInv
<1>3. Received(r) = s /\ EndsWith(r, "final") /\ Has(r, "final") /\ Meta(r) = f
  BY <1>1, <1>2, MetaIsLast
<1>4. f.kind = "final" /\ f.agent_name = Expected[query[r]]
  BY <1>3 DEF EndsWith, Passed
<1>5. FinalIsTrue(r)
  BY <1>3 DEF SupervisorInv, StreamsAreTrue, Truth
<1>6. ASSUME ~f.escalated PROVE \E i \in DOMAIN FinalTokens(s) : FinalTokens(s)[i].tok # None
  <2>1. s \in Seq(Chunk) /\ s # <<>> /\ ~IsToken(f)
    BY <1>3, <1>4, SentTypes DEF SupervisorInv, EndsWith, IsToken
  <2>2. Notices(s) \subseteq {Len(s) - 1}
    BY <1>5, <1>6 DEF FinalIsTrue
  <2>3. PICK i \in 1..Len(s) : IsToken(s[i]) /\ s[i].tok # None
    BY <1>2 DEF Passed, AnswerNotBlank
  <2> HIDE DEF s
  <2>4. i \in DOMAIN FinalTokens(s) /\ FinalTokens(s)[i] = s[i]
    BY <1>6, <2>1, <2>2, <2>3, WordsOfAnswer
  <2>5. QED
    BY <2>3, <2>4
<1>7. QED
  BY <1>2, <1>3, <1>4, <1>5, <1>6

(***************************************************************************)
(* A case of the regression harness passes only if the client holds the    *)
(* whole stream of a closed call, whose metadata are true and name the     *)
(* expected agent, and its answer is not blank unless it is an escalated   *)
(* one.                                                                    *)
(***************************************************************************)
THEOREM VerdictsAreSound == DeliverySpec => []VerdictIsSound
BY DeliveryInvariant, SoundVerdict, PTL
==============================================================================
