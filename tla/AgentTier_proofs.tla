---------------------------- MODULE AgentTier_proofs ----------------------------
(***************************************************************************)
(* A tier with its agents implements TierStream and calls its models a     *)
(* bounded number of times, for all pools and recursion limits.            *)
(***************************************************************************)
EXTENDS AgentTier, TLAPS

TierInv == TypeOK /\ RunInv

Sent == [cand : 1..Size, step : 1..RecursionLimit]

(* The types of what a run starts with. *)
LEMMA StartTypes ==
  /\ 1 \in 1..Size
  /\ 0 \in 0..RecursionLimit /\ 0 \in 0..MaxChunks
  /\ \A n \in 1..RecursionLimit : n \in 0..RecursionLimit
  /\ \A n \in 1..Size : n \in Nat \ {0} /\ n <= Size /\ (n < Size => n + 1 \in 1..Size)
  BY TierAssumption

LEMMA SentTypes ==
  /\ <<>> \in Seq(Sent)
  /\ \A s \in Seq(Sent), x \in Sent : Append(s, x) \in Seq(Sent)
  OBVIOUS

(* The turns of a run are its odd supersteps. *)
LEMMA HalfLemma ==
  /\ CallsPerRun \in Nat
  /\ \A s \in 0..RecursionLimit :
       /\ (s + 1) \div 2 \in Nat
       /\ (s + 1) \div 2 <= CallsPerRun
       /\ s % 2 = 1 => (s + 2) \div 2 = (s + 1) \div 2 /\ (s + 1) % 2 = 0
       /\ s % 2 = 0 => (s + 2) \div 2 = (s + 1) \div 2 + 1 /\ (s + 1) % 2 = 1
  BY TierAssumption DEF CallsPerRun

(* What the candidates before the next one may have called. *)
LEMMA BudgetLemma ==
  ASSUME NEW n \in Nat \ {0}
  PROVE  /\ (n - 1) * CallsPerRun \in Nat
         /\ n * CallsPerRun \in Nat
         /\ (n - 1) * CallsPerRun + CallsPerRun = n * CallsPerRun
         /\ (n + 1) - 1 = n
         /\ n <= Size => n * CallsPerRun <= Size * CallsPerRun
<1>1. CallsPerRun \in Nat
  BY HalfLemma
<1>2. \A a, b \in Nat : a * b \in Nat
  OBVIOUS
<1>3. \A a \in Int, b \in Nat : (a - 1) * b + b = a * b
  OBVIOUS
<1>4. \A a, b, c \in Nat : a <= b => a * c <= b * c
  OBVIOUS
<1>5. n - 1 \in Nat /\ n \in Nat /\ Size \in Nat /\ (n + 1) - 1 = n
  BY TierAssumption
<1> QED
  BY <1>1, <1>2, <1>3, <1>4, <1>5

LEMMA InitTier == Init => TierInv
<1> SUFFICES ASSUME Init PROVE TierInv
  OBVIOUS
<1>1. TypeOK
  BY StartTypes, SentTypes DEF Init, TypeOK, Sent
<1>2. (1 - 1) * CallsPerRun + (0 + 1) \div 2 = 0
  BY HalfLemma
<1>3. RunInv
  <2>1. 0 <= 1 * CallsPerRun
    BY HalfLemma
  <2> QED
    BY <1>2, <2>1 DEF Init, RunInv, Over
<1> QED
  BY <1>1, <1>3 DEF TierInv

(* The next candidate starts with its own budget untouched. *)
LEMMA RaisesInv ==
  ASSUME TierInv, pc \in {"build", "model", "tools"}, Raises
  PROVE  TierInv'
<1> USE DEF TierInv
<1>1. TypeOK'
  BY StartTypes DEF TypeOK, Raises, Over
<1>2. idx \in Nat \ {0} /\ idx <= Size /\ step \in 0..RecursionLimit /\ calls \in Nat
  BY TierAssumption DEF TypeOK
<1>3. calls <= (idx - 1) * CallsPerRun + (step + 1) \div 2
  BY DEF RunInv, Over
<1>4. calls <= idx * CallsPerRun
  BY <1>2, <1>3, HalfLemma, BudgetLemma
<1>5. CASE yielded # <<>>
  BY <1>1, <1>4, <1>5 DEF Raises, RunInv, Over
<1>6. CASE yielded = <<>> /\ idx < Size
  <2>1. idx' = idx + 1 /\ pc' = "build" /\ step' = 0 /\ calls' = calls /\ yielded' = <<>>
    BY <1>6 DEF Raises
  <2>2. (idx' - 1) * CallsPerRun = idx * CallsPerRun /\ (step' + 1) \div 2 = 0
    BY <1>2, <2>1
  <2>3. calls' <= (idx' - 1) * CallsPerRun + (step' + 1) \div 2
    BY <1>2, <1>4, <2>1, <2>2, BudgetLemma
  <2>4. calls' <= idx' * CallsPerRun
    <3>1. idx * CallsPerRun + CallsPerRun = idx' * CallsPerRun /\ idx * CallsPerRun \in Nat
      BY <1>2, <2>1, <2>2, BudgetLemma
    <3> QED
      BY <1>2, <1>4, <2>1, <3>1, HalfLemma
  <2> QED
    BY <1>1, <2>1, <2>3, <2>4 DEF RunInv
<1>7. CASE yielded = <<>> /\ ~(idx < Size)
  BY <1>1, <1>4, <1>7 DEF Raises, RunInv, Over
<1> QED
  BY <1>1, <1>5, <1>6, <1>7

(* A turn is one more call and an odd superstep. *)
LEMMA TurnInv ==
  ASSUME TierInv, NEW n \in 1..RecursionLimit, n = step + 1, step % 2 = 0,
         idx \in Usable, pc \notin Over, Turn(n)
  PROVE  TierInv'
<1> USE DEF TierInv
<1>1. TypeOK'
  <2>1. calls' \in Nat
    BY DEF TypeOK, Turn
  <2>2. step' \in 0..RecursionLimit /\ said' \in 0..MaxChunks
    BY StartTypes DEF Turn
  <2> QED
    BY <2>1, <2>2 DEF TypeOK, Turn
<1>2. step \in 0..RecursionLimit /\ idx \in Nat \ {0} /\ calls \in Nat
  BY TierAssumption DEF TypeOK
<1>3. calls <= (idx - 1) * CallsPerRun + (step + 1) \div 2
  BY DEF RunInv
<1>4. (step + 2) \div 2 = (step + 1) \div 2 + 1 /\ (step + 1) % 2 = 1
  BY <1>2, HalfLemma
<1>5. step' = step + 1 /\ calls' = calls + 1 /\ idx' = idx /\ pc' = "model" /\ yielded' = yielded
  BY DEF Turn
<1>6. calls' <= (idx' - 1) * CallsPerRun + (step' + 1) \div 2
  <2>1. (step' + 1) = step + 2
    BY <1>2, <1>5
  <2> QED
    BY <1>2, <1>3, <1>4, <1>5, <2>1, BudgetLemma, HalfLemma
<1>7. calls' <= idx' * CallsPerRun
  <2>1. (step' + 1) \div 2 <= CallsPerRun /\ (step' + 1) \div 2 \in Nat
    BY <1>5, HalfLemma, StartTypes
  <2> QED
    BY <1>2, <1>5, <1>6, <2>1, BudgetLemma, HalfLemma
<1> QED
  BY <1>1, <1>4, <1>5, <1>6, <1>7 DEF RunInv

LEMMA NextTier == TierInv /\ [Next]_vars => TierInv'
<1> SUFFICES ASSUME TierInv, [Next]_vars PROVE TierInv'
  OBVIOUS
<1> USE DEF TierInv
<1>1. CASE Build
  <2>1. step = 0 /\ step % 2 = 0 /\ 1 = step + 1
    BY <1>1 DEF Build, RunInv
  <2>2. 1 \in 1..RecursionLimit
    BY TierAssumption
  <2>3. pc \notin Over /\ idx \in Usable /\ Turn(1)
    BY <1>1 DEF Build, Over
  <2> QED
    BY <2>1, <2>2, <2>3, TurnInv
<1>2. CASE BuildRaises \/ LimitReached \/ ModelRaises
  BY <1>2, RaisesInv DEF BuildRaises, LimitReached, ModelRaises
<1>3. CASE ContentChunk
  <2>1. step % 2 = 1 /\ step \in 0..RecursionLimit /\ step \in 1..RecursionLimit
    <3>1. step % 2 = 1 /\ step \in 0..RecursionLimit
      BY <1>3 DEF ContentChunk, RunInv, TypeOK
    <3>2. 0 % 2 = 0
      OBVIOUS
    <3>3. step # 0
      BY <3>1, <3>2
    <3> QED
      BY <3>1, <3>3
  <2>2. TypeOK'
    <3>1. [cand |-> idx, step |-> step] \in Sent
      BY <2>1 DEF TypeOK, Sent
    <3>2. yielded' \in Seq(Sent)
      BY <1>3, <3>1, SentTypes DEF ContentChunk, TypeOK, Sent
    <3>3. said' \in 0..MaxChunks
      BY <1>3, TierAssumption DEF ContentChunk, TypeOK
    <3> QED
      BY <1>3, <3>2, <3>3 DEF ContentChunk, TypeOK, Sent
  <2>3. idx \in Usable
    BY <1>3 DEF ContentChunk, RunInv
  <2>4. \A i \in DOMAIN yielded' : yielded'[i].cand = idx
    BY <1>3 DEF ContentChunk, TypeOK, RunInv
  <2> QED
    BY <1>3, <2>1, <2>2, <2>3, <2>4 DEF ContentChunk, RunInv
<1>4. CASE ToolCallChunk
  BY <1>4 DEF ToolCallChunk, TypeOK, RunInv
<1>5. CASE FinalTurnEnds
  BY <1>5 DEF FinalTurnEnds, TypeOK, RunInv, Over
<1>6. CASE ToolTurnEnds
  <2>1. /\ pc = "model" /\ pc' = "tools" /\ step < RecursionLimit /\ step' = step + 1
        /\ UNCHANGED <<idx, said, tooling, yielded, calls>>
    BY <1>6 DEF ToolTurnEnds, WithinLimit
  <2>2. step \in 0..RecursionLimit /\ step % 2 = 1
    BY <2>1 DEF TypeOK, RunInv
  <2>3. step' \in 0..RecursionLimit
    BY <2>1, <2>2, TierAssumption
  <2>4. TypeOK'
    BY <2>1, <2>3 DEF TypeOK
  <2>5. (step' + 1) \div 2 = (step + 1) \div 2 /\ step' % 2 = 0
    <3>1. step' + 1 = step + 2
      BY <2>1, <2>2
    <3> QED
      BY <2>1, <2>2, <3>1, HalfLemma
  <2> QED
    BY <2>1, <2>4, <2>5 DEF RunInv, Over
<1>7. CASE ToolsReturn
  <2>1. pc = "tools" /\ step < RecursionLimit /\ step % 2 = 0 /\ Turn(step + 1)
    BY <1>7 DEF ToolsReturn, WithinLimit, RunInv
  <2>2. step + 1 \in 1..RecursionLimit
    BY <2>1, TierAssumption DEF TypeOK
  <2>3. idx \in Usable /\ pc \notin Over
    BY <2>1 DEF RunInv, Over
  <2> QED
    BY <2>1, <2>2, <2>3, TurnInv
<1>8. CASE UNCHANGED vars
  BY <1>8 DEF vars, TypeOK, RunInv
<1> QED
  BY <1>1, <1>2, <1>3, <1>4, <1>5, <1>6, <1>7, <1>8 DEF Next

------------------------------------------------------------------------------
(***************************************************************************)
(* The inductive invariant: a model is called in odd supersteps only, each *)
(* candidate within its own share, and the caller has chunks of one        *)
(* candidate, which has an API key.                                        *)
(***************************************************************************)
THEOREM RunInvariance == Spec => [](TypeOK /\ RunInv)
  BY InitTier, NextTier, PTL DEF Spec, TierInv

(***************************************************************************)
(* Types: candidate and superstep stay within the pool and the limit.      *)
(***************************************************************************)
THEOREM TierTypes == Spec => []TypeOK
  BY RunInvariance, PTL

(***************************************************************************)
(* Whatever the models do, a tier calls them at most once for every second *)
(* superstep of every candidate.                                           *)
(***************************************************************************)
THEOREM CallBound == Spec => []CallsAreBounded
<1>1. TierInv => CallsAreBounded
  <2> SUFFICES ASSUME TierInv PROVE CallsAreBounded
    OBVIOUS
  <2>1. idx \in Nat \ {0} /\ idx <= Size /\ calls \in Nat /\ calls <= idx * CallsPerRun
    BY StartTypes DEF TierInv, TypeOK, RunInv
  <2>2. idx * CallsPerRun <= Size * CallsPerRun /\ idx * CallsPerRun \in Nat
    BY <2>1, BudgetLemma
  <2>3. Size * CallsPerRun \in Nat
    BY BudgetLemma, TierAssumption
  <2> QED
    BY <2>1, <2>2, <2>3 DEF CallsAreBounded
<1> QED
  BY <1>1, RunInvariance, PTL DEF TierInv

------------------------------------------------------------------------------
(* The refinement: inside a tier the caller sees tokens and an outcome.    *)

(* A run that raises falls back, interrupts or exhausts the tier. *)
LEMMA RaisesRefines ==
  ASSUME TierInv, pc \notin Over, Raises
  PROVE  Tier!Next
<1>1. UNCHANGED yielded
  BY DEF Raises
<1>2. yielded \in Seq(Sent)
  BY DEF TierInv, TypeOK, Sent
<1>3. yielded = <<>> => Len(yielded) = 0
  OBVIOUS
<1>4. yielded # <<>> => Len(yielded) > 0
  BY <1>2
<1>5. CASE yielded # <<>>
  BY <1>1, <1>4, <1>5 DEF Raises, Over, Tier!Next, Tier!Interrupt
<1>6. CASE yielded = <<>> /\ idx < Size
  BY <1>1, <1>3, <1>6 DEF Raises, Over, Tier!Next, Tier!FallBack
<1>7. CASE yielded = <<>> /\ ~(idx < Size)
  <2>1. idx = Size
    BY <1>7, TierAssumption DEF TierInv, TypeOK
  <2> QED
    BY <1>1, <1>3, <1>7, <2>1 DEF Raises, Over, Tier!Next, Tier!Exhaust
<1> QED
  BY <1>5, <1>6, <1>7

LEMMA StepRefines ==
  ASSUME TierInv, [Next]_vars
  PROVE  [Tier!Next]_<<idx, Len(yielded), IF pc \in Over THEN pc ELSE "running">>
<1>1. CASE BuildRaises \/ LimitReached \/ ModelRaises
  BY <1>1, RaisesRefines DEF BuildRaises, LimitReached, ModelRaises, Over
<1>2. CASE ContentChunk
  <2>1. Len(yielded') = Len(yielded) + 1
    BY <1>2 DEF ContentChunk, TierInv, TypeOK
  <2> QED
    BY <1>2, <2>1 DEF ContentChunk, Over, Tier!Next, Tier!Send
<1>3. CASE FinalTurnEnds
  BY <1>3 DEF FinalTurnEnds, Over, Tier!Next, Tier!Succeed
<1>4. CASE Build \/ ToolCallChunk \/ ToolTurnEnds \/ ToolsReturn
  BY <1>4 DEF Build, ToolCallChunk, ToolTurnEnds, ToolsReturn, Turn, Over
<1>5. CASE UNCHANGED vars
  BY <1>5 DEF vars
<1> QED
  BY <1>1, <1>2, <1>3, <1>4, <1>5 DEF Next

(***************************************************************************)
(* The tier implements TierStream: no candidate is tried after a token has *)
(* reached the client, and every outcome tells what the client has seen.   *)
(***************************************************************************)
THEOREM Refinement == Spec => KeepsTierContract
<1>1. Init => Tier!Init
  BY DEF Init, Over, Tier!Init
<1> QED
  BY <1>1, StepRefines, RunInvariance, PTL DEF Spec, TierInv, KeepsTierContract, Tier!Spec
==============================================================================
