------------------------------ MODULE QueryStream ------------------------------
(***************************************************************************)
(* What SubmitQuery promises its caller, from the comments of              *)
(* proto/hydra/v1/query.proto: token chunks, at most one escalation notice *)
(* among them, then exactly one "final" or one "error" chunk, and nothing  *)
(* after it.  A call may also end with a gRPC status and no such chunk:    *)
(* it was cancelled, or the server failed.  The comments do not mention    *)
(* that way out; which failures take it, the supervisor's module says.     *)
(***************************************************************************)
EXTENDS Naturals, Sequences

CONSTANT Calls

VARIABLES
  stream,     \* kinds of the chunks sent on each call
  state       \* "open", "closed" (by a final or an error) or "broken"

vars == <<stream, state>>

Kinds == {"token", "escalating", "final", "error"}

TypeOK ==
  /\ stream \in [Calls -> Seq(Kinds)]
  /\ state \in [Calls -> {"open", "closed", "broken"}]

Init ==
  /\ stream = [c \in Calls |-> <<>>]
  /\ state = [c \in Calls |-> "open"]

Send(c, kind) ==
  /\ state[c] = "open"
  /\ stream' = [stream EXCEPT ![c] = Append(@, kind)]

Token(c) == Send(c, "token") /\ UNCHANGED state

(* Sent once, before the escalation tier's stream. *)
Escalate(c) ==
  /\ \A i \in DOMAIN stream[c] : stream[c][i] # "escalating"
  /\ Send(c, "escalating")
  /\ UNCHANGED state

Close(c) ==
  /\ Send(c, "final") \/ Send(c, "error")
  /\ state' = [state EXCEPT ![c] = "closed"]

(* A server that fails breaks several calls at once. *)
Break(C) ==
  /\ \A c \in C : state[c] = "open"
  /\ state' = [c \in Calls |-> IF c \in C THEN "broken" ELSE state[c]]
  /\ UNCHANGED stream

Next ==
  \/ \E c \in Calls : Token(c) \/ Escalate(c) \/ Close(c)
  \/ \E C \in SUBSET Calls : Break(C)

Spec == Init /\ [][Next]_vars

(***************************************************************************)
(* A call is closed exactly when its last chunk is terminal, and no other  *)
(* chunk is: a closed call has one, an open or a broken call has none.     *)
(***************************************************************************)
OneTerminalChunk ==
  \A c \in Calls :
    /\ state[c] = "closed" => stream[c] # <<>>
    /\ \A i \in DOMAIN stream[c] :
         stream[c][i] \in {"final", "error"} <=> state[c] = "closed" /\ i = Len(stream[c])
==============================================================================
