------------------------------- MODULE Delivery -------------------------------
(***************************************************************************)
(* A call from end to end: a client calls the gateway (gateway/src/        *)
(* connect.ts), which forwards the call to the supervisor and relays the   *)
(* chunks that come back.  The client is the regression harness            *)
(* (eval/run_eval.py), which runs one case after another; it may be        *)
(* interrupted, and started again.  The gateway keeps no state but its     *)
(* calls, and loses them when it stops.                                    *)
(***************************************************************************)
EXTENDS SupervisorProperties

CONSTANT Expected      \* expected_agent of the golden case of a query

ASSUME DeliveryAssumption == Expected \in [Queries -> Agents]

VARIABLES
  client,     \* the client's call
  gateway,    \* the gateway's call to the supervisor
  got         \* how many chunks of out reached the client

deliveryVars == <<client, gateway, got>>
allVars == <<vars, deliveryVars>>

DeliveryTypeOK ==
  /\ client \in [Requests -> {"idle", "reading", "ended", "failed", "gone"}]
  /\ gateway \in [Requests -> {"idle", "open", "ended", "failed", "aborted", "crashed"}]
  /\ got \in [Requests -> Nat]
  /\ \A r \in Requests : got[r] <= Len(out[r])

DeliveryInit ==
  /\ Init
  /\ client = [r \in Requests |-> "idle"]
  /\ gateway = [r \in Requests |-> "idle"]
  /\ got = [r \in Requests |-> 0]

Becomes(r, c, g) ==
  /\ client' = [client EXCEPT ![r] = c]
  /\ gateway' = [gateway EXCEPT ![r] = g]

------------------------------------------------------------------------------
(* The client *)

(* run_eval's main awaits a case before the next. *)
Call(r) ==
  /\ client[r] = "idle"
  /\ \A q \in Requests : client[q] # "reading"
  /\ Becomes(r, "reading", "open")
  /\ UNCHANGED <<vars, got>>

(* The harness is interrupted, its connection goes. *)
Leave(r) ==
  /\ client[r] = "reading"
  /\ Becomes(r, "gone", gateway[r])
  /\ UNCHANGED <<vars, got>>

------------------------------------------------------------------------------
(* The gateway: for await (chunk of supervisorClient.submitQuery(...))     *)

Relaying(r) == gateway[r] = "open" /\ client[r] = "reading"

(* A chunk that is relayed twice. *)
RelayTwice(r) ==
  /\ Relaying(r)
  /\ Len(out[r]) > 0
  /\ got' = [got EXCEPT ![r] = @ + 1]
  /\ UNCHANGED <<vars, client, gateway>>

Relay(r) ==
  /\ Relaying(r)
  /\ got[r] < Len(out[r])
  /\ got' = [got EXCEPT ![r] = @ + 1]
  /\ UNCHANGED <<vars, client, gateway>>

(* A failure upstream that is caught and ends the relay, as health() does. *)
RelaySwallowsFailure(r) ==
  /\ Relaying(r)
  /\ pc[r] \in Ended /\ got[r] = Len(out[r])
  /\ Becomes(r, "ended", "ended")
  /\ UNCHANGED <<vars, got>>

(* The upstream call ends OK after its last chunk. *)
RelayEnds(r) ==
  /\ Relaying(r)
  /\ pc[r] = "closed" /\ got[r] = Len(out[r])
  /\ Becomes(r, "ended", "ended")
  /\ UNCHANGED <<vars, got>>

(* Only a status of the supervisor counts as a failure. *)
RelayFailsWithStatus(r) ==
  /\ Relaying(r)
  /\ pc[r] \in Broken
  /\ Becomes(r, "failed", "failed")
  /\ UNCHANGED <<vars, got>>

(* It fails, or the supervisor cannot be reached: submitQuery throws, and  *)
(* chunks that were on their way may be lost.                              *)
RelayFails(r) ==
  /\ Relaying(r)
  /\ pc[r] \in Broken \union {"idle"}
  /\ Becomes(r, "failed", "failed")
  /\ UNCHANGED <<vars, got>>

(* context.signal: the client has disconnected. *)
Abort(r) ==
  /\ gateway[r] = "open" /\ client[r] = "gone"
  /\ Becomes(r, "gone", "aborted")
  /\ UNCHANGED <<vars, got>>

(* The gateway stops; both connections of its calls go. *)
GatewayCrash ==
  /\ \E r \in Requests : gateway[r] = "open"
  /\ gateway' = [r \in Requests |-> IF gateway[r] = "open" THEN "crashed" ELSE gateway[r]]
  /\ client' = [r \in Requests |-> IF Relaying(r) THEN "failed" ELSE client[r]]
  /\ UNCHANGED <<vars, got>>

------------------------------------------------------------------------------
(* The supervisor behind it *)

Accept(r) == gateway[r] = "open" /\ Receive(r) /\ UNCHANGED deliveryVars

Serve(r) == Progress(r) /\ UNCHANGED deliveryVars

(* An upstream call that is only given up, and not cancelled. *)
CancelOnCrash(r) ==
  /\ gateway[r] = "crashed"
  /\ Cancel(r)
  /\ UNCHANGED deliveryVars

(* grpc.aio cancels the coroutine when the gateway's call is gone. *)
CancelUpstream(r) ==
  /\ gateway[r] \in {"aborted", "crashed"}
  /\ Cancel(r)
  /\ UNCHANGED deliveryVars

(* Another caller's answer, stored before: by CachedAnswersAreWhole it is  *)
(* a whole one, of the agent its query is routed to.                       *)
CachedBefore(q, m, n, a) ==
  /\ \A r \in Requests : client[r] = "idle"
  /\ SemanticRoute[q] \in {None, a}
  /\ Cache!Put(q, [answer |-> Complete(q, m, n), agent_name |-> a, model_used |-> m])
  /\ UNCHANGED <<requestVars, deliveryVars>>

Outside == (Crash \/ RedisChanges) /\ UNCHANGED deliveryVars

------------------------------------------------------------------------------
Transport(r) == Relay(r) \/ RelayEnds(r) \/ RelayFails(r) \/ Abort(r) \/ CancelUpstream(r)

DeliveryNext ==
  \/ \E r \in Requests : Call(r) \/ Leave(r) \/ Accept(r) \/ Serve(r) \/ Transport(r)
  \/ \E q \in Queries, m \in Models, n \in Lengths, a \in Agents : CachedBefore(q, m, n, a)
  \/ GatewayCrash
  \/ Outside

(* The connections carry what is sent on them, or break.  Nothing is       *)
(* assumed of the supervisor.                                              *)
DeliverySpec ==
  DeliveryInit /\ [][DeliveryNext]_allVars /\ \A r \in Requests : WF_allVars(Transport(r))

------------------------------------------------------------------------------
(* The verdict of run_one *)

Received(r) == SubSeq(out[r], 1, got[r])
Has(r, kind) == \E i \in 1..got[r] : out[r][i].kind = kind
Meta(r) == out[r][CHOOSE i \in 1..got[r] : out[r][i].kind = "final"]

(* An AioRpcError or an error chunk. *)
Errored(r) == client[r] = "failed" \/ Has(r, "error")

(* answer.strip() is not "". *)
AnswerNotBlank(r) == \E i \in 1..got[r] : IsToken(out[r][i]) /\ out[r][i].tok # None

(* The metadata is looked at if there is any. *)
Passed(r) ==
  /\ client[r] \in {"ended", "failed"}
  /\ ~Errored(r)
  /\ AnswerNotBlank(r)
  /\ Has(r, "final") => Meta(r).agent_name = Expected[query[r]]

------------------------------------------------------------------------------
(* Properties *)

(***************************************************************************)
(* run_eval.py: a case that passes was answered, although run_one asks for *)
(* no metadata, and whatever failed on the way.  The client holds the      *)
(* whole stream, closed by metadata that are true of it and name the       *)
(* expected agent; and the answer they are about, to the case's query or a *)
(* cached one to a similar query, is not blank.  The exception is an       *)
(* escalated answer: run_one keeps the default tier's words across the     *)
(* notice, so that an empty one passes on their account.                   *)
(***************************************************************************)
VerdictIsSound ==
  \A r \in Requests : Passed(r) =>
    LET s == Received(r)
        f == s[Len(s)]
        answer == FinalTokens(s)
    IN /\ s = out[r] /\ pc[r] = "closed"
       /\ f.kind = "final" /\ f.agent_name = Expected[query[r]]
       /\ FinalIsTrue(r)
       /\ f.escalated \/ \E i \in DOMAIN answer : answer[i].tok # None

(***************************************************************************)
(* connect.ts: "client disconnects -> upstream call is cancelled too".  A  *)
(* request nobody waits for ends, also when its provider never answers.    *)
(***************************************************************************)
AbandonedCallStops ==
  \A r \in Requests :
    client[r] = "gone" \/ gateway[r] = "crashed" ~> pc[r] \notin Awaiting

(***************************************************************************)
(* If the supervisor goes on, which asks of Redis that it answers or fails *)
(* too, every call of a client comes to an end: a supervisor or gateway    *)
(* that dies, or a supervisor that never accepts the call, leaves no       *)
(* client waiting.                                                         *)
(***************************************************************************)
EveryCallEnds ==
  (\A r \in Requests : WF_allVars(Serve(r)))
    => \A r \in Requests : client[r] = "reading" ~> client[r] # "reading"
==============================================================================
