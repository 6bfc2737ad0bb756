------------------------------- MODULE AgentTier -------------------------------
(***************************************************************************)
(* One tier of candidates with the agents inside: every candidate's agent  *)
(* is a LangGraph loop (agents/base.py) in which turns of the model and    *)
(* rounds of tool calls alternate, streamed by stream_agent_answer         *)
(* (agents/streaming.py) and consumed by _stream_tier (main.py).           *)
(*                                                                         *)
(* LangGraph is external: it counts supersteps, a turn of the model or a   *)
(* round of tools each, and raises when the next would exceed the limit.   *)
(***************************************************************************)
EXTENDS Integers, Sequences

CONSTANTS
  Size,             \* the number of candidates of the pool
  Usable,           \* those whose provider is known and has an API key
  RecursionLimit,   \* RECURSION_LIMIT, in supersteps
  MaxChunks         \* chunks of a model's turn with content (max_tokens)

ASSUME TierAssumption ==
  /\ Size \in Nat \ {0}
  /\ Usable \subseteq 1..Size
  /\ RecursionLimit \in Nat \ {0}
  /\ MaxChunks \in Nat

VARIABLES
  pc,        \* where the candidate's run is, or how the tier ended
  idx,       \* the candidate that is tried
  step,      \* the superstep its agent is in
  said,      \* chunks with content in the model's turn so far
  tooling,   \* whether the turn has called a tool
  yielded,   \* the chunks the caller was sent: their candidate and superstep
  calls      \* (history) turns of a model that the tier has started

vars == <<pc, idx, step, said, tooling, yielded, calls>>

Over == {"answer", "fatal", "exhausted"}

TypeOK ==
  /\ pc \in {"build", "model", "tools"} \union Over
  /\ idx \in 1..Size
  /\ step \in 0..RecursionLimit
  /\ said \in 0..MaxChunks
  /\ tooling \in BOOLEAN
  /\ yielded \in Seq([cand : 1..Size, step : 1..RecursionLimit])
  /\ calls \in Nat

Init ==
  /\ pc = "build"
  /\ idx = 1
  /\ step = 0 /\ said = 0 /\ tooling = FALSE
  /\ yielded = <<>>
  /\ calls = 0

------------------------------------------------------------------------------
(* An exception of the candidate, whatever it sent. *)
RaisesUnseen ==
  /\ IF idx < Size
     THEN idx' = idx + 1 /\ pc' = "build"
     ELSE UNCHANGED idx /\ pc' = "exhausted"
  /\ step' = 0 /\ said' = 0 /\ tooling' = FALSE
  /\ UNCHANGED <<yielded, calls>>

(* An exception in the try block of _stream_tier: sent_any tells whether   *)
(* the next candidate may be tried.                                        *)
Raises ==
  /\ IF yielded # <<>> THEN UNCHANGED idx /\ pc' = "fatal"
     ELSE IF idx < Size
     THEN idx' = idx + 1 /\ pc' = "build"
     ELSE UNCHANGED idx /\ pc' = "exhausted"
  /\ step' = 0 /\ said' = 0 /\ tooling' = FALSE
  /\ UNCHANGED <<yielded, calls>>

(* The model is called in a superstep of its own. *)
Turn(n) ==
  /\ pc' = "model" /\ step' = n
  /\ said' = 0 /\ tooling' = FALSE
  /\ calls' = calls + 1
  /\ UNCHANGED <<idx, yielded>>

(* make_chat_model, build_agent *)
Build == pc = "build" /\ idx \in Usable /\ Turn(1)

(* A missing key does not count as a failure of the candidate. *)
KeyAskedForAgain == pc = "build" /\ idx \notin Usable /\ UNCHANGED vars

BuildRaises == pc = "build" /\ idx \notin Usable /\ Raises

(* An off-by-one in the limit. *)
OneStepMore == step <= RecursionLimit

WithinLimit == step < RecursionLimit

(* A chunk with content and no part of a tool call: it is yielded. *)
ContentChunk ==
  /\ pc = "model" /\ said < MaxChunks
  /\ said' = said + 1
  /\ yielded' = Append(yielded, [cand |-> idx, step |-> step])
  /\ UNCHANGED <<pc, idx, step, tooling, calls>>

(* A chunk with part of a tool call: it is skipped. *)
ToolCallChunk ==
  /\ pc = "model" /\ ~tooling
  /\ tooling' = TRUE
  /\ UNCHANGED <<pc, idx, step, said, yielded, calls>>

(* The turn has called no tool: the agent's run is over. *)
FinalTurnEnds ==
  /\ pc = "model" /\ ~tooling
  /\ pc' = "answer"
  /\ UNCHANGED <<idx, step, said, tooling, yielded, calls>>

ToolTurnEnds ==
  /\ pc = "model" /\ tooling
  /\ WithinLimit
  /\ pc' = "tools" /\ step' = step + 1
  /\ UNCHANGED <<idx, said, tooling, yielded, calls>>

(* A limit per round of tools, not per run. *)
ToolsReturnAfresh == pc = "tools" /\ WithinLimit /\ Turn(1)

(* The results of the tools (an unknown tool's is an error message) go to  *)
(* the model.                                                              *)
ToolsReturn == pc = "tools" /\ WithinLimit /\ Turn(step + 1)

(* GraphRecursionError *)
LimitReached ==
  /\ pc \in {"model", "tools"} /\ tooling
  /\ ~WithinLimit
  /\ Raises

(* The provider refuses the call or breaks its stream. *)
ModelRaises == pc = "model" /\ Raises

Next ==
  \/ Build \/ BuildRaises
  \/ ContentChunk \/ ToolCallChunk
  \/ FinalTurnEnds \/ ToolTurnEnds
  \/ ToolsReturn \/ LimitReached
  \/ ModelRaises

(* A provider's stream goes on or fails, and a tool returns. *)
Spec == Init /\ [][Next]_vars /\ WF_vars(Next)

------------------------------------------------------------------------------
(* Properties *)

Tier == INSTANCE TierStream WITH
  candidate <- idx,
  sent <- Len(yielded),
  outcome <- IF pc \in Over THEN pc ELSE "running"

(***************************************************************************)
(* Whatever the agents do inside, the tier keeps what _stream_tier says:   *)
(* once a token has reached the client, no other candidate is tried.       *)
(***************************************************************************)
KeepsTierContract == Tier!Spec

(***************************************************************************)
(* streaming.py: a stuck agent fails soon instead of looping.  A tier      *)
(* makes at most one call for every second superstep of every candidate.   *)
(***************************************************************************)
CallsPerRun == (RecursionLimit + 1) \div 2

CallsAreBounded == calls <= Size * CallsPerRun

(***************************************************************************)
(* What the bound on the calls follows from: the candidates before idx     *)
(* have made at most CallsPerRun each, the model's turns are the odd       *)
(* supersteps, and all that was sent is the current candidate's.           *)
(***************************************************************************)
RunInv ==
  /\ pc = "build" => step = 0
  /\ pc = "model" => step % 2 = 1
  /\ pc = "tools" => step % 2 = 0
  /\ calls <= idx * CallsPerRun
  /\ pc \notin Over => calls <= (idx - 1) * CallsPerRun + (step + 1) \div 2
  /\ pc \in {"model", "tools"} => idx \in Usable
  /\ \A i \in DOMAIN yielded : yielded[i].cand = idx

(***************************************************************************)
(* Every tier ends: with an answer, an error or nothing, also when every   *)
(* model calls tools for ever.                                             *)
(***************************************************************************)
TierEnds == pc = "build" ~> pc \in Over

(***************************************************************************)
(* streaming.py: stream_agent_answer "yields token strings as they're      *)
(* generated by the agent's final turn".                                   *)
(***************************************************************************)
OnlyFinalTurn ==
  pc = "answer" => \A i \in DOMAIN yielded : yielded[i].step = step
==============================================================================
