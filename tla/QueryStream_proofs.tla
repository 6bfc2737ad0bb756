--------------------------- MODULE QueryStream_proofs ---------------------------
(***************************************************************************)
(* The wire contract gives each call that is closed one terminal chunk,    *)
(* the last, and no other call any.                                        *)
(***************************************************************************)
EXTENDS QueryStream, TLAPS

(* Sending a chunk keeps the types of the streams. *)
LEMMA SendType ==
  ASSUME TypeOK, NEW c \in Calls, NEW kind \in Kinds, Send(c, kind)
  PROVE  stream' \in [Calls -> Seq(Kinds)]
BY DEF TypeOK, Send

(* Every step keeps the types. *)
LEMMA TypeStep == TypeOK /\ [Next]_vars => TypeOK'
<1> SUFFICES ASSUME TypeOK, [Next]_vars PROVE TypeOK'
  OBVIOUS
<1>1. ASSUME NEW c \in Calls, Token(c) \/ Escalate(c) \/ Close(c) PROVE TypeOK'
  <2>1. stream' \in [Calls -> Seq(Kinds)]
    BY <1>1, SendType DEF Token, Escalate, Close, Kinds
  <2>2. state' \in [Calls -> {"open", "closed", "broken"}]
    BY <1>1 DEF TypeOK, Token, Escalate, Close
  <2>3. QED
    BY <2>1, <2>2 DEF TypeOK
<1>2. ASSUME NEW C \in SUBSET Calls, Break(C) PROVE TypeOK'
  BY <1>2 DEF TypeOK, Break
<1>3. CASE UNCHANGED vars
  BY <1>3 DEF TypeOK, vars
<1>4. QED
  BY <1>1, <1>2, <1>3 DEF Next

(***************************************************************************)
(* The streams are sequences of chunk kinds.                               *)
(***************************************************************************)
THEOREM StreamTypeCorrect == Spec => []TypeOK
<1>1. Init => TypeOK
  BY DEF Init, TypeOK
<1>2. QED
  BY <1>1, TypeStep, PTL DEF Spec

(* What OneTerminalChunk says of one call. *)
Terminated(c) ==
  /\ state[c] = "closed" => stream[c] # <<>>
  /\ \A i \in DOMAIN stream[c] :
       stream[c][i] \in {"final", "error"} <=> state[c] = "closed" /\ i = Len(stream[c])

(* A chunk appended to a stream without a terminal chunk. *)
LEMMA Extended ==
  ASSUME NEW s \in Seq(Kinds), \A i \in DOMAIN s : s[i] \notin {"final", "error"},
         NEW kind \in Kinds
  PROVE  /\ Append(s, kind) # <<>>
         /\ \A i \in DOMAIN Append(s, kind) :
              Append(s, kind)[i] \in {"final", "error"}
                <=> i = Len(Append(s, kind)) /\ kind \in {"final", "error"}
<1>1. Len(Append(s, kind)) = Len(s) + 1 /\ DOMAIN Append(s, kind) = 1..(Len(s) + 1)
  OBVIOUS
<1>2. Append(s, kind)[Len(s) + 1] = kind /\ \A i \in 1..Len(s) : Append(s, kind)[i] = s[i]
  OBVIOUS
<1>3. QED
  BY <1>1, <1>2

(* A step appends to an open stream, which has no terminal chunk yet. *)
LEMMA OneTerminalStep == TypeOK /\ OneTerminalChunk /\ [Next]_vars => OneTerminalChunk'
<1> SUFFICES ASSUME TypeOK, OneTerminalChunk, [Next]_vars, NEW c \in Calls
             PROVE  Terminated(c)'
  BY DEF OneTerminalChunk, Terminated
<1> Terminated(c)
  BY DEF OneTerminalChunk, Terminated
<1>1. ASSUME NEW d \in Calls, Token(d) \/ Escalate(d) \/ Close(d) PROVE Terminated(c)'
  <2>1. CASE d # c
    <3>1. stream'[c] = stream[c] /\ state'[c] = state[c]
      BY <1>1, <2>1 DEF TypeOK, Token, Escalate, Close, Send
    <3>2. QED
      BY <3>1 DEF Terminated
  <2>2. CASE d = c
    <3>1. PICK kind \in Kinds :
            /\ state[c] = "open"
            /\ stream'[c] = Append(stream[c], kind)
            /\ kind \in {"final", "error"} <=> state'[c] = "closed"
      BY <1>1, <2>2 DEF TypeOK, Token, Escalate, Close, Send, Kinds
    <3>2. /\ stream[c] \in Seq(Kinds)
          /\ \A i \in DOMAIN stream[c] : stream[c][i] \notin {"final", "error"}
      BY <3>1 DEF TypeOK, Terminated
    <3>3. /\ stream'[c] # <<>>
          /\ \A i \in DOMAIN stream'[c] :
               stream'[c][i] \in {"final", "error"}
                 <=> i = Len(stream'[c]) /\ kind \in {"final", "error"}
      BY <3>1, <3>2, Extended
    <3>4. QED
      BY <3>1, <3>3 DEF Terminated
  <2>3. QED
    BY <2>1, <2>2
<1>2. ASSUME NEW C \in SUBSET Calls, Break(C) PROVE Terminated(c)'
  <2>1. stream' = stream /\ (state'[c] = "closed" <=> state[c] = "closed")
    BY <1>2 DEF TypeOK, Break
  <2>2. QED
    BY <2>1 DEF Terminated
<1>3. CASE UNCHANGED vars
  BY <1>3 DEF vars, Terminated
<1>4. QED
  BY <1>1, <1>2, <1>3 DEF Next

(***************************************************************************)
(* query.proto: "exactly one final metadata chunk (or one error chunk)",   *)
(* after every token: of a call that is closed, and of no other.           *)
(***************************************************************************)
THEOREM ContractHasOneTerminal == Spec => []OneTerminalChunk
<1>1. ASSUME Init PROVE OneTerminalChunk
  <2> SUFFICES ASSUME NEW c \in Calls PROVE Terminated(c)
    BY DEF OneTerminalChunk, Terminated
  <2>1. state[c] = "open" /\ stream[c] = <<>>
    BY <1>1 DEF Init
  <2>2. DOMAIN stream[c] = {}
    BY <2>1
  <2>3. QED
    BY <2>1, <2>2 DEF Terminated
<1>2. QED
  BY <1>1, OneTerminalStep, StreamTypeCorrect, PTL DEF Spec
==============================================================================
