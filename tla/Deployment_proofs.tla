--------------------------- MODULE Deployment_proofs ---------------------------
(***************************************************************************)
(* The bounds of module Deployment, for all numbers of the probes.         *)
(***************************************************************************)
EXTENDS Deployment, TLAPS

(* What a failure takes from the time that is left to a silent container.  *)
LEMMA SlackLemma ==
  ASSUME NEW N \in Nat \ {0}, NEW P \in Nat \ {0}, NEW f \in 0..(N - 1)
  PROVE  /\ (N - 1 - f) * P \in Nat
         /\ (N - 1 - (f + 1)) * P + P = (N - 1 - f) * P
         /\ (N - 1 - 0) * P + P = N * P
         /\ f = N - 1 => (N - 1 - f) * P = 0
<1>1. (N - 1 - f) \in Nat
  OBVIOUS
<1>2. \A a, b \in Nat : a * b \in Nat
  OBVIOUS
<1>3. \A a \in Int, b \in Nat : (a - 1) * b + b = a * b
  OBVIOUS
<1>4. N - 1 - (f + 1) = (N - 1 - f) - 1 /\ N - 1 - 0 = N - 1
  OBVIOUS
<1>5. f = N - 1 => N - 1 - f = 0
  OBVIOUS
<1>6. 0 * P = 0
  OBVIOUS
<1> QED
  BY <1>1, <1>2, <1>3, <1>4, <1>5, <1>6

(* The same of the two probes' slack, and of where it starts. *)
LEMMA LivenessSlackLemma ==
  /\ LivenessFailures * LivenessPeriod \in Nat
  /\ LivenessSlack(0) + LivenessPeriod = LivenessFailures * LivenessPeriod
  /\ \A f \in 0..(LivenessFailures - 1) :
       /\ LivenessSlack(f) \in Nat
       /\ LivenessSlack(f + 1) + LivenessPeriod = LivenessSlack(f)
       /\ f = LivenessFailures - 1 => LivenessSlack(f) = 0
<1>1. LivenessFailures * LivenessPeriod \in Nat
  BY DeploymentAssumption
<1>2. 0 \in 0..(LivenessFailures - 1)
  BY DeploymentAssumption
<1> QED
  BY <1>1, <1>2, SlackLemma, DeploymentAssumption DEF LivenessSlack

LEMMA ReadinessSlackLemma ==
  /\ ReadinessFailures * ReadinessPeriod \in Nat
  /\ ReadinessSlack(0) + ReadinessPeriod = ReadinessFailures * ReadinessPeriod
  /\ \A f \in 0..(ReadinessFailures - 1) :
       /\ ReadinessSlack(f) \in Nat
       /\ ReadinessSlack(f + 1) + ReadinessPeriod = ReadinessSlack(f)
<1>1. ReadinessFailures * ReadinessPeriod \in Nat
  BY DeploymentAssumption
<1>2. 0 \in 0..(ReadinessFailures - 1)
  BY DeploymentAssumption
<1> QED
  BY <1>1, <1>2, SlackLemma, DeploymentAssumption DEF ReadinessSlack

(* The start-up fits before the probe that would kill the container. *)
LEMMA StartUpFits ==
  ASSUME NEW t \in StartTimes, NEW d \in FirstProbe(LivenessDelay, LivenessPeriod)
  PROVE  /\ t \in Nat /\ d \in Nat
         /\ t <= d + LivenessSlack(0)
         /\ d + LivenessSlack(0) <= LivenessDelay + LivenessFailures * LivenessPeriod
<1>1. t <= LivenessDelay + (LivenessFailures - 1) * LivenessPeriod
  BY StartUpAssumption
<1>2. (LivenessFailures - 1) * LivenessPeriod = LivenessSlack(0)
  <2>1. LivenessFailures - 1 - 0 = LivenessFailures - 1
    BY DeploymentAssumption
  <2> QED
    BY <2>1 DEF LivenessSlack
<1>3. LivenessDelay \in Nat /\ LivenessPeriod \in Nat /\ t \in Nat
  BY DeploymentAssumption
<1>4. d \in Nat /\ LivenessDelay <= d /\ d < LivenessDelay + LivenessPeriod
  BY <1>3 DEF FirstProbe
<1>5. LivenessSlack(0) \in Nat
  BY LivenessSlackLemma, DeploymentAssumption
<1> HIDE DEF LivenessSlack
<1> DEFINE S == LivenessSlack(0)  M == LivenessFailures * LivenessPeriod
<1>6. S + LivenessPeriod = M /\ M \in Nat /\ S \in Nat
  BY <1>5, LivenessSlackLemma
<1>7. t <= LivenessDelay + S
  BY <1>1, <1>2
<1> HIDE DEF S, M
<1>8. t <= d + S /\ d + S <= LivenessDelay + M
  BY <1>3, <1>4, <1>6, <1>7
<1> QED
  BY <1>3, <1>4, <1>8 DEF S, M

(* The types of what a start of the container chooses. *)
LEMMA BootTypes ==
  /\ StartTimes \subseteq Nat
  /\ Handlers \subseteq BOOLEAN
  /\ FirstProbe(LivenessDelay, LivenessPeriod) \subseteq Nat
  /\ FirstProbe(ReadinessDelay, ReadinessPeriod) \subseteq Nat
  /\ 0 \in 0..(LivenessFailures - 1)
  /\ 0 \in 0..ReadinessFailures
<1>1. Handlers \subseteq BOOLEAN
  BY DEF Handlers
<1>2. FirstProbe(LivenessDelay, LivenessPeriod) \subseteq Nat
  BY DeploymentAssumption DEF FirstProbe
<1>3. FirstProbe(ReadinessDelay, ReadinessPeriod) \subseteq Nat
  BY DeploymentAssumption DEF FirstProbe
<1>4. 0 \in 0..(LivenessFailures - 1) /\ 0 \in 0..ReadinessFailures
  BY DeploymentAssumption
<1> QED
  BY <1>1, <1>2, <1>3, <1>4, DeploymentAssumption

(* A container that is started, first or again, satisfies the invariant.   *)
LEMMA InitInv == Init => DeploymentInv
<1> SUFFICES ASSUME Init PROVE DeploymentInv
  OBVIOUS
<1>1. TypeOK
  BY BootTypes DEF Init, TypeOK, Faults
<1>2. LivenessInv /\ StartUpInv
  <2>1. left \in StartTimes /\ liveIn \in FirstProbe(LivenessDelay, LivenessPeriod)
        /\ liveFails = 0 /\ mute = 0
    BY DEF Init
  <2>2. /\ left <= liveIn + LivenessSlack(0)
        /\ liveIn + LivenessSlack(0) <= LivenessDelay + LivenessFailures * LivenessPeriod
        /\ liveIn \in Nat
    BY <2>1, StartUpFits
  <2>3. \A n \in Nat : 0 + n = n
    OBVIOUS
  <2> QED
    BY <2>1, <2>2, <2>3 DEF LivenessInv, StartUpInv
<1>3. ReadinessInv /\ MuteInv
  BY DEF Init, ReadinessInv, MuteInv
<1> QED
  BY <1>1, <1>2, <1>3 DEF DeploymentInv

LEMMA BootInv == TypeOK /\ Boot => DeploymentInv'
<1> SUFFICES ASSUME TypeOK, Boot PROVE DeploymentInv'
  OBVIOUS
<1>1. TypeOK'
  BY BootTypes DEF Boot, Restart, TypeOK
<1>2. LivenessInv' /\ StartUpInv'
  <2>1. left' \in StartTimes /\ liveIn' \in FirstProbe(LivenessDelay, LivenessPeriod)
        /\ liveFails' = 0 /\ mute' = 0
    BY DEF Boot, Restart
  <2>2. /\ left' <= liveIn' + LivenessSlack(0)
        /\ liveIn' + LivenessSlack(0) <= LivenessDelay + LivenessFailures * LivenessPeriod
        /\ liveIn' \in Nat
    BY <2>1, StartUpFits
  <2>3. \A n \in Nat : 0 + n = n
    OBVIOUS
  <2> QED
    BY <2>1, <2>2, <2>3 DEF LivenessInv, StartUpInv
<1>3. ReadinessInv' /\ MuteInv'
  BY DEF Boot, Restart, ReadinessInv, MuteInv
<1> QED
  BY <1>1, <1>2, <1>3 DEF DeploymentInv

------------------------------------------------------------------------------
(* The invariant under each action.                                        *)

(* With the same counters, and a container silent for no longer, the       *)
(* bounds are kept.                                                        *)
LEMMA KeepsBounds ==
  ASSUME DeploymentInv, TypeOK', MuteInv', mute' <= mute, left' = left, ready' = ready,
         UNCHANGED <<liveIn, liveFails, readyIn, readyFails>>
  PROVE  DeploymentInv'
<1> USE DEF DeploymentInv
<1>1. LivenessSlack(liveFails) \in Nat /\ LivenessSlack(liveFails)' = LivenessSlack(liveFails)
  BY LivenessSlackLemma DEF TypeOK, LivenessSlack
<1>2. LivenessInv'
  BY <1>1, LivenessSlackLemma, DeploymentAssumption DEF LivenessInv, TypeOK
<1>3. StartUpInv'
  BY <1>1 DEF StartUpInv
<1>4. ReadinessInv'
  <2> SUFFICES ASSUME ready' PROVE ReadinessInv'
    BY DEF ReadinessInv
  <2>1. readyFails \in 0..(ReadinessFailures - 1)
    BY DeploymentAssumption DEF ReadinessInv, TypeOK
  <2>2. ReadinessSlack(readyFails) \in Nat /\ ReadinessSlack(readyFails)' = ReadinessSlack(readyFails)
    BY <2>1, ReadinessSlackLemma DEF ReadinessSlack
  <2> QED
    BY <2>2, ReadinessSlackLemma DEF ReadinessInv, TypeOK, Listening
<1> QED
  BY <1>2, <1>3, <1>4

LEMMA FlushInv ==
  ASSUME DeploymentInv, NEW n \in FlushTimes, Flush(n)
  PROVE  DeploymentInv'
<1>1. mute' \in Nat /\ mute' <= mute /\ MuteInv'
  BY DEF DeploymentInv, TypeOK, Flush, Elapsed, MuteInv
<1>2. TypeOK'
  BY <1>1, DeploymentAssumption DEF DeploymentInv, TypeOK, Flush
<1> QED
  BY <1>1, <1>2, KeepsBounds DEF Flush

LEMMA FaultChangesInv == DeploymentInv /\ FaultChanges => DeploymentInv'
<1> SUFFICES ASSUME DeploymentInv, FaultChanges PROVE DeploymentInv'
  OBVIOUS
<1>1. mute' \in Nat /\ mute' <= mute /\ MuteInv'
  BY DEF DeploymentInv, TypeOK, FaultChanges, Elapsed, MuteInv
<1>2. TypeOK'
  BY <1>1 DEF DeploymentInv, TypeOK, FaultChanges
<1> QED
  BY <1>1, <1>2, KeepsBounds DEF FaultChanges

LEMMA TickInv == DeploymentInv /\ Tick => DeploymentInv'
<1> SUFFICES ASSUME DeploymentInv, Tick PROVE DeploymentInv'
  OBVIOUS
<1> USE DEF DeploymentInv
<1>1. mute' \in Nat /\ mute' <= mute + 1 /\ MuteInv'
  BY DEF TypeOK, Tick, Elapsed, MuteInv
<1>2. /\ left' \in Nat /\ (left' > 0 => left' = left - 1) /\ (left = 0 => left' = 0)
      /\ busy' \in Nat
      /\ liveIn' \in Nat /\ liveIn' = liveIn - 1
      /\ readyIn' \in Nat /\ readyIn' = readyIn - 1
  BY DEF TypeOK, Tick, RunDown
<1>3. TypeOK'
  BY <1>1, <1>2 DEF TypeOK, Tick
<1>4. LivenessSlack(liveFails) \in Nat /\ LivenessSlack(liveFails)' = LivenessSlack(liveFails)
  BY LivenessSlackLemma DEF TypeOK, LivenessSlack, Tick
<1>5. LivenessInv'
  BY <1>1, <1>2, <1>4, LivenessSlackLemma, DeploymentAssumption DEF LivenessInv, TypeOK
<1>6. StartUpInv'
  BY <1>2, <1>4 DEF StartUpInv, TypeOK
<1>7. ReadinessInv'
  <2> SUFFICES ASSUME ready' PROVE ReadinessInv'
    BY DEF ReadinessInv
  <2>1. ready /\ readyFails' = readyFails
    BY DEF Tick
  <2>2. readyFails \in 0..(ReadinessFailures - 1)
    BY <2>1, DeploymentAssumption DEF ReadinessInv, TypeOK
  <2>3. ReadinessSlack(readyFails) \in Nat /\ ReadinessSlack(readyFails)' = ReadinessSlack(readyFails)
    BY <2>1, <2>2, ReadinessSlackLemma DEF ReadinessSlack
  <2> QED
    BY <1>1, <1>2, <2>1, <2>3, ReadinessSlackLemma DEF ReadinessInv, TypeOK, Listening
<1> QED
  BY <1>1, <1>3, <1>5, <1>6, <1>7

(* A liveness probe touches neither what it shows nor the other probe.     *)
LEMMA KeepsReadiness ==
  ASSUME DeploymentInv, UNCHANGED <<left, readyIn, readyFails, ready, mute>>
  PROVE  ReadinessInv'
  BY DEF DeploymentInv, ReadinessInv, ReadinessSlack, Listening

LEMMA LivenessSucceedsInv == DeploymentInv /\ LivenessSucceeds => DeploymentInv'
<1> SUFFICES ASSUME DeploymentInv, LivenessSucceeds PROVE DeploymentInv'
  OBVIOUS
<1> USE DEF DeploymentInv
<1>1. TypeOK'
  BY DeploymentAssumption DEF TypeOK, LivenessSucceeds
<1>2. ReadinessInv'
  BY KeepsReadiness DEF LivenessSucceeds
<1>3. left' = 0 /\ liveIn = 0 /\ liveIn' = LivenessPeriod /\ liveFails' = 0 /\ mute' = mute
  BY DEF LivenessSucceeds, Answers, HealthResponds, PingReturns, Listening
<1>4. StartUpInv'
  BY <1>3 DEF StartUpInv
<1>5. MuteInv' /\ mute = 0
  BY DEF MuteInv, LivenessSucceeds, Answers, HealthResponds, PingReturns, Listening
<1>6. LivenessInv'
  <2>1. LivenessPeriod + LivenessSlack(0) = LivenessFailures * LivenessPeriod
        /\ LivenessSlack(0) \in Nat /\ LivenessFailures * LivenessPeriod \in Nat
    BY LivenessSlackLemma, DeploymentAssumption
  <2>2. LivenessSlack(liveFails)' = LivenessSlack(0)
    BY <1>3 DEF LivenessSlack
  <2> QED
    BY <1>3, <1>5, <2>1, <2>2, DeploymentAssumption DEF LivenessInv
<1> QED
  BY <1>1, <1>2, <1>4, <1>5, <1>6

LEMMA LivenessFailsInv == DeploymentInv /\ LivenessFails => DeploymentInv'
<1> SUFFICES ASSUME DeploymentInv, LivenessFails PROVE DeploymentInv'
  OBVIOUS
<1> USE DEF DeploymentInv
<1>1. TypeOK'
  BY DeploymentAssumption DEF TypeOK, LivenessFails
<1>2. ReadinessInv' /\ MuteInv'
  BY KeepsReadiness DEF LivenessFails, MuteInv, Answers, HealthResponds, PingReturns, Listening
<1>3. liveIn = 0 /\ liveIn' = LivenessPeriod /\ liveFails' = liveFails + 1
      /\ left' = left /\ mute' = mute
  BY DEF LivenessFails
<1>4. /\ LivenessSlack(liveFails)' + LivenessPeriod = LivenessSlack(liveFails)
      /\ LivenessSlack(liveFails)' \in Nat /\ LivenessSlack(liveFails) \in Nat
  <2>1. liveFails \in 0..(LivenessFailures - 1) /\ liveFails + 1 \in 0..(LivenessFailures - 1)
    BY <1>1, <1>3 DEF TypeOK
  <2>2. LivenessSlack(liveFails)' = LivenessSlack(liveFails + 1)
    BY <1>3 DEF LivenessSlack
  <2> QED
    BY <2>1, <2>2, LivenessSlackLemma
<1>5. LivenessInv'
  BY <1>3, <1>4, LivenessSlackLemma, DeploymentAssumption DEF LivenessInv, TypeOK
<1>6. StartUpInv'
  BY <1>3, <1>4, DeploymentAssumption DEF StartUpInv, TypeOK
<1> QED
  BY <1>1, <1>2, <1>5, <1>6

(* A readiness probe touches neither the container nor the other probe.    *)
LEMMA KeepsLiveness ==
  ASSUME DeploymentInv, UNCHANGED <<left, busy, fault, liveIn, liveFails, mute>>
  PROVE  LivenessInv' /\ StartUpInv' /\ MuteInv'
  BY DEF DeploymentInv, LivenessInv, StartUpInv, MuteInv, Answers, HealthResponds, PingReturns, Listening, LivenessSlack

LEMMA ReadinessSucceedsInv == DeploymentInv /\ ReadinessSucceeds => DeploymentInv'
<1> SUFFICES ASSUME DeploymentInv, ReadinessSucceeds PROVE DeploymentInv'
  OBVIOUS
<1> USE DEF DeploymentInv
<1>1. TypeOK'
  BY DeploymentAssumption DEF TypeOK, ReadinessSucceeds
<1>2. LivenessInv' /\ StartUpInv' /\ MuteInv'
  BY KeepsLiveness DEF ReadinessSucceeds
<1>3. readyIn' = ReadinessPeriod /\ readyFails' = 0 /\ left' = 0 /\ mute' = 0
  BY DEF ReadinessSucceeds, Answers, HealthResponds, PingReturns, Listening, MuteInv
<1>4. ReadinessPeriod + ReadinessSlack(0) = ReadinessFailures * ReadinessPeriod
      /\ ReadinessSlack(0) \in Nat /\ ReadinessFailures * ReadinessPeriod \in Nat
  BY ReadinessSlackLemma, DeploymentAssumption
<1>5. ReadinessSlack(readyFails)' = ReadinessSlack(0)
  BY <1>3 DEF ReadinessSlack
<1>6. ReadinessInv'
  BY <1>3, <1>4, <1>5, DeploymentAssumption DEF ReadinessInv, Listening
<1> QED
  BY <1>1, <1>2, <1>6

LEMMA ReadinessFailsInv == DeploymentInv /\ ReadinessFails => DeploymentInv'
<1> SUFFICES ASSUME DeploymentInv, ReadinessFails PROVE DeploymentInv'
  OBVIOUS
<1> USE DEF DeploymentInv
<1>1. TypeOK'
  BY DeploymentAssumption DEF TypeOK, ReadinessFails
<1>2. LivenessInv' /\ StartUpInv' /\ MuteInv'
  BY KeepsLiveness DEF ReadinessFails
<1>3. ReadinessInv'
  <2> SUFFICES ASSUME ready' PROVE ReadinessInv'
    BY DEF ReadinessInv
  <2>1. ready /\ left = 0 /\ left' = 0 /\ readyIn = 0 /\ readyIn' = ReadinessPeriod
        /\ mute' = mute /\ readyFails' < ReadinessFailures
    BY DEF ReadinessFails, ReadinessInv, Listening
  <2>2. readyFails' = readyFails + 1
    BY <2>1 DEF ReadinessFails, ReadinessInv, TypeOK
  <2>3. readyFails \in 0..(ReadinessFailures - 1) /\ readyFails + 1 \in 0..(ReadinessFailures - 1)
    BY <2>1, <2>2, DeploymentAssumption DEF TypeOK
  <2>4. ReadinessSlack(readyFails)' = ReadinessSlack(readyFails + 1)
    BY <2>2 DEF ReadinessSlack
  <2>5. /\ ReadinessSlack(readyFails)' + ReadinessPeriod = ReadinessSlack(readyFails)
        /\ ReadinessSlack(readyFails)' \in Nat /\ ReadinessSlack(readyFails) \in Nat
    BY <2>3, <2>4, ReadinessSlackLemma
  <2> QED
    BY <2>1, <2>5, ReadinessSlackLemma, DeploymentAssumption DEF ReadinessInv, TypeOK, Listening
<1> QED
  BY <1>1, <1>2, <1>3

LEMMA NextInv == DeploymentInv /\ [Next]_vars => DeploymentInv'
<1> SUFFICES ASSUME DeploymentInv, [Next]_vars PROVE DeploymentInv'
  OBVIOUS
<1>1. CASE LivenessSucceeds \/ LivenessFails
  BY <1>1, LivenessSucceedsInv, LivenessFailsInv
<1>2. CASE Kill \/ StartUpFails
  BY <1>2, BootInv DEF Kill, StartUpFails, DeploymentInv
<1>3. CASE ReadinessSucceeds \/ ReadinessFails
  BY <1>3, ReadinessSucceedsInv, ReadinessFailsInv
<1>4. CASE Tick
  BY <1>4, TickInv
<1>5. CASE \E n \in FlushTimes : Flush(n)
  BY <1>5, FlushInv
<1>6. CASE FaultChanges
  BY <1>6, FaultChangesInv
<1>7. CASE UNCHANGED vars
  BY <1>7 DEF vars, DeploymentInv, TypeOK, MuteInv, Answers, HealthResponds, PingReturns, Listening, LivenessInv,
              LivenessSlack, ReadinessInv, ReadinessSlack, StartUpInv
<1> QED
  BY <1>1, <1>2, <1>3, <1>4, <1>5, <1>6, <1>7 DEF Next, Clockwork

------------------------------------------------------------------------------
(***************************************************************************)
(* The inductive invariant holds, for all numbers of the probes and all    *)
(* start-up times that fit the liveness probe.                             *)
(***************************************************************************)
THEOREM Invariance == Spec => []DeploymentInv
  BY InitInv, NextInv, PTL DEF Spec

(***************************************************************************)
(* A silent container exits or is restarted within the initial delay and   *)
(* the periods of the failures that the liveness probe forgives.           *)
(***************************************************************************)
THEOREM MuteBound == Spec => []MuteIsBounded
<1>1. DeploymentInv => MuteIsBounded
  <2> SUFFICES ASSUME DeploymentInv PROVE MuteIsBounded
    OBVIOUS
  <2>1. LivenessSlack(liveFails) \in Nat
    BY LivenessSlackLemma DEF DeploymentInv, TypeOK
  <2> QED
    BY <2>1, LivenessSlackLemma, DeploymentAssumption
       DEF DeploymentInv, TypeOK, LivenessInv, MuteIsBounded
<1> QED
  BY <1>1, Invariance, PTL

(***************************************************************************)
(* The pod gets calls only while its process listens, and for at most the  *)
(* readiness probe's failures after it has stopped to answer.              *)
(***************************************************************************)
THEOREM Rotation == Spec => []RotationIsSound
<1>1. DeploymentInv => RotationIsSound
  <2> SUFFICES ASSUME DeploymentInv, ready PROVE RotationIsSound
    BY DEF RotationIsSound
  <2>1. readyFails \in 0..(ReadinessFailures - 1)
    BY DeploymentAssumption DEF DeploymentInv, TypeOK, ReadinessInv
  <2>2. ReadinessSlack(readyFails) \in Nat
    BY <2>1, ReadinessSlackLemma
  <2> QED
    BY <2>2, ReadinessSlackLemma, DeploymentAssumption
       DEF DeploymentInv, TypeOK, ReadinessInv, RotationIsSound
<1> QED
  BY <1>1, Invariance, PTL

(***************************************************************************)
(* The liveness probe never kills a container that is still starting up.   *)
(***************************************************************************)
THEOREM StartUp == Spec => StartUpIsNotKilled
<1>1. DeploymentInv => (Kill => Listening)
  <2> SUFFICES ASSUME DeploymentInv, Kill PROVE Listening
    OBVIOUS
  <2>1. liveIn = 0 /\ liveFails = LivenessFailures - 1
    BY DeploymentAssumption DEF Kill, DeploymentInv, TypeOK
  <2>2. LivenessSlack(liveFails) = 0
    BY <2>1, LivenessSlackLemma DEF DeploymentInv, TypeOK
  <2> QED
    BY <2>1, <2>2 DEF DeploymentInv, TypeOK, StartUpInv, Listening
<1> QED
  BY <1>1, Invariance, PTL DEF StartUpIsNotKilled
==============================================================================
