------------------------------ MODULE Deployment ------------------------------
(***************************************************************************)
(* The supervisor's container under the kubelet's probes                   *)
(* (infra/k8s/03-supervisor.yaml), which run supervisor/healthcheck.py     *)
(* against the Health RPC.  The process listens only after its start-up    *)
(* (the embedding model is downloaded when the router is imported), and    *)
(* answers nothing while flush() of the tracing client blocks its event    *)
(* loop, nor while Health waits for a Redis that is silent.                *)
(*                                                                         *)
(* Time is counted in ticks; it does not pass a probe that is due.         *)
(***************************************************************************)
EXTENDS Integers

CONSTANTS
  StartTimes,         \* ticks from the start of the container to server.start()
  FlushTimes,         \* ticks that a flush() may block the event loop
  TracingKeys,        \* whether LANGFUSE_PUBLIC_KEY and _SECRET_KEY are set
  LivenessDelay, LivenessPeriod, LivenessFailures,    \* livenessProbe
  ReadinessDelay, ReadinessPeriod, ReadinessFailures  \* readinessProbe

ASSUME DeploymentAssumption ==
  /\ LivenessDelay \in Nat /\ LivenessPeriod \in Nat \ {0} /\ LivenessFailures \in Nat \ {0}
  /\ ReadinessDelay \in Nat /\ ReadinessPeriod \in Nat \ {0} /\ ReadinessFailures \in Nat \ {0}
  /\ StartTimes \subseteq Nat
  /\ FlushTimes \subseteq Nat
  /\ TracingKeys \in BOOLEAN

(* "liveness needs even more [headroom] or it'll kill a pod that's still    *)
(* legitimately starting up": what that asks of the start-up.              *)
ASSUME StartUpAssumption ==
  \A t \in StartTimes : t <= LivenessDelay + (LivenessFailures - 1) * LivenessPeriod

VARIABLES
  left,        \* ticks of start-up left
  busy,        \* ticks that the event loop stays blocked
  tracing,     \* langfuse_handler is not None
  fault,       \* what is wrong around the container
  liveIn, liveFails,    \* ticks to the next liveness probe, failures in a row
  readyIn, readyFails,  \* and of the readiness probe
  ready,       \* the Service sends calls to the pod
  mute         \* (history) ticks since the container last could answer

vars == <<left, busy, tracing, fault, liveIn, liveFails, readyIn, readyFails, ready, mute>>

(* Redis refuses connections, or accepts and stays silent; the model cannot *)
(* be downloaded or a key is missing.                                      *)
Faults == {"none", "redis refuses", "redis silent", "start-up fails"}

TypeOK ==
  /\ left \in Nat /\ busy \in Nat /\ mute \in Nat
  /\ tracing \in BOOLEAN /\ ready \in BOOLEAN
  /\ fault \in Faults
  /\ liveIn \in Nat /\ readyIn \in Nat
  /\ liveFails \in 0..(LivenessFailures - 1)
  /\ readyFails \in 0..ReadinessFailures

------------------------------------------------------------------------------
(* The process *)

Listening == left = 0

(* ping() is True, or False when Redis refuses; no timeout bounds it when  *)
(* Redis is silent.                                                        *)
PingReturns == fault # "redis silent"

(* Health runs in the event loop and awaits ping(). *)
HealthResponds == Listening /\ busy = 0 /\ PingReturns

(* A check that looks at the status. *)
DegradedIsUnhealthy == HealthResponds /\ fault # "redis refuses"

(* healthcheck.py: any response will do, also "degraded". *)
Answers == HealthResponds

(* The last conjunct of an action that takes n ticks. *)
Elapsed(n) == mute' = IF Answers' THEN 0 ELSE mute + n

(* Probing from the start of the container on. *)
NoDelay(delay, period) == 0..(period - 1)

(* The first probe comes in the period that follows the initial delay. *)
FirstProbe(delay, period) == delay..(delay + period - 1)

(* Tracing fails to initialize: the supervisor goes on without. *)
Handlers == IF TracingKeys THEN BOOLEAN ELSE {FALSE}

Init ==
  /\ left \in StartTimes
  /\ busy = 0
  /\ tracing \in Handlers
  /\ fault = "none"
  /\ liveIn \in FirstProbe(LivenessDelay, LivenessPeriod) /\ liveFails = 0
  /\ readyIn \in FirstProbe(ReadinessDelay, ReadinessPeriod) /\ readyFails = 0
  /\ ready = FALSE
  /\ mute = 0

(* The container is started again.  Neither the back-off before it nor the *)
(* grace period that a container is given to terminate is counted.         *)
Restart ==
  /\ left' \in StartTimes
  /\ busy' = 0
  /\ tracing' \in Handlers
  /\ liveIn' \in FirstProbe(LivenessDelay, LivenessPeriod) /\ liveFails' = 0
  /\ readyIn' \in FirstProbe(ReadinessDelay, ReadinessPeriod) /\ readyFails' = 0
  /\ mute' = 0
  /\ UNCHANGED fault

(* A restart that leaves the pod in the Service. *)
BootKeepsReady == Restart /\ UNCHANGED ready

Boot == Restart /\ ready' = FALSE

(* An exception while the modules are imported ends the process. *)
StartUpFails == ~Listening /\ fault = "start-up fails" /\ Boot

(* The finally of SubmitQuery: flush() returns at once without a handler.  *)
Flush(n) ==
  /\ Listening /\ busy = 0
  /\ tracing
  /\ busy' = n
  /\ UNCHANGED <<left, tracing, fault, liveIn, liveFails, readyIn, readyFails, ready>>
  /\ Elapsed(0)

------------------------------------------------------------------------------
(* The probes *)

LivenessSucceeds ==
  /\ liveIn = 0
  /\ Answers
  /\ liveIn' = LivenessPeriod /\ liveFails' = 0
  /\ UNCHANGED <<left, busy, tracing, fault, readyIn, readyFails, ready, mute>>

(* A count of failures that never reaches the threshold. *)
LivenessNeverCounts ==
  /\ liveIn = 0
  /\ ~Answers
  /\ liveFails + 1 < LivenessFailures
  /\ liveIn' = LivenessPeriod
  /\ UNCHANGED <<left, busy, tracing, fault, liveFails, readyIn, readyFails, ready, mute>>

LivenessFails ==
  /\ liveIn = 0
  /\ ~Answers
  /\ liveFails + 1 < LivenessFailures
  /\ liveIn' = LivenessPeriod /\ liveFails' = liveFails + 1
  /\ UNCHANGED <<left, busy, tracing, fault, readyIn, readyFails, ready, mute>>

Kill ==
  /\ liveIn = 0
  /\ ~Answers
  /\ liveFails + 1 = LivenessFailures
  /\ Boot

ReadinessSucceeds ==
  /\ readyIn = 0
  /\ Answers
  /\ readyIn' = ReadinessPeriod /\ readyFails' = 0
  /\ ready' = TRUE
  /\ UNCHANGED <<left, busy, tracing, fault, liveIn, liveFails, mute>>

(* The count stops at the threshold. *)
ReadinessFails ==
  /\ readyIn = 0
  /\ ~Answers
  /\ readyIn' = ReadinessPeriod
  /\ readyFails' = IF readyFails < ReadinessFailures THEN readyFails + 1 ELSE readyFails
  /\ ready' = (ready /\ readyFails' < ReadinessFailures)
  /\ UNCHANGED <<left, busy, tracing, fault, liveIn, liveFails, mute>>

------------------------------------------------------------------------------
(* Time and environment *)

RunDown(timer) == IF timer = 0 THEN 0 ELSE timer - 1

Tick ==
  /\ liveIn > 0 /\ readyIn > 0
  /\ left' = RunDown(left) /\ busy' = RunDown(busy)
  /\ liveIn' = liveIn - 1 /\ readyIn' = readyIn - 1
  /\ UNCHANGED <<tracing, fault, liveFails, readyFails, ready>>
  /\ Elapsed(1)

FaultChanges ==
  /\ fault' \in Faults \ {fault}
  /\ UNCHANGED <<left, busy, tracing, liveIn, liveFails, readyIn, readyFails, ready>>
  /\ Elapsed(0)

Clockwork ==
  \/ LivenessSucceeds \/ LivenessFails \/ Kill
  \/ ReadinessSucceeds \/ ReadinessFails
  \/ Tick

Next ==
  \/ Clockwork
  \/ StartUpFails
  \/ \E n \in FlushTimes : Flush(n)
  \/ FaultChanges

(* Time passes and the kubelet probes. *)
Spec == Init /\ [][Next]_vars /\ WF_vars(Clockwork)

------------------------------------------------------------------------------
(* Properties *)

(***************************************************************************)
(* 03-supervisor.yaml: liveness must not "kill a pod that's still          *)
(* legitimately starting up".                                              *)
(***************************************************************************)
StartUpIsNotKilled == [][Kill => Listening]_vars

(***************************************************************************)
(* Whatever blocks the event loop, Redis or the start-up, the container    *)
(* answers, exits or is restarted within a time the probe's numbers give.  *)
(***************************************************************************)
MuteIsBounded == mute <= LivenessDelay + LivenessFailures * LivenessPeriod

(***************************************************************************)
(* healthcheck.py: "container started" is not "ready to accept             *)
(* connections".  The Service sends calls only to a container that         *)
(* listens, and not for long to one that has stopped to answer.            *)
(***************************************************************************)
RotationIsSound ==
  ready => Listening /\ mute <= ReadinessFailures * ReadinessPeriod

(***************************************************************************)
(* Once start-up works and nothing holds the event loop or Health back any *)
(* more, the pod gets its calls and keeps them, also when Redis refuses    *)
(* connections all the time: "degraded" is an answer.                      *)
(***************************************************************************)
ComesBack ==
  <>[](busy = 0 /\ fault \in {"none", "redis refuses"}) => <>[]ready

------------------------------------------------------------------------------
(* The arithmetic behind the bounds: what a container has been silent, and *)
(* what it may yet be before the threshold is reached.                     *)
LivenessSlack(fails) == (LivenessFailures - 1 - fails) * LivenessPeriod
ReadinessSlack(fails) == (ReadinessFailures - 1 - fails) * ReadinessPeriod

LivenessInv ==
  mute + liveIn + LivenessSlack(liveFails) <= LivenessDelay + LivenessFailures * LivenessPeriod

ReadinessInv ==
  ready =>
    /\ Listening
    /\ readyFails < ReadinessFailures
    /\ mute + readyIn + ReadinessSlack(readyFails) <= ReadinessFailures * ReadinessPeriod

(* The start-up is over before the probe that reaches the threshold. *)
StartUpInv == left > 0 => left <= liveIn + LivenessSlack(liveFails)

(* mute counts from the last time the container could answer.              *)
MuteInv == Answers => mute = 0

(***************************************************************************)
(* The inductive invariant behind the three bounds above, in any state of  *)
(* the container and its surroundings.                                     *)
(***************************************************************************)
DeploymentInv == TypeOK /\ MuteInv /\ LivenessInv /\ ReadinessInv /\ StartUpInv
==============================================================================
