------------------------------ MODULE TierStream ------------------------------
(***************************************************************************)
(* What _stream_tier (supervisor/main.py) promises the request that        *)
(* consumes it, and what module Supervisor takes a tier for: candidates    *)
(* are tried in order, another one only while the caller has seen nothing; *)
(* the tier yields an answer, is interrupted, or is exhausted unseen.      *)
(***************************************************************************)
EXTENDS Naturals

CONSTANT Size       \* the number of candidates of the pool

VARIABLES
  candidate,        \* the candidate that is tried
  sent,             \* the tokens that reached the caller
  outcome           \* what result_holder says

Init == candidate = 1 /\ sent = 0 /\ outcome = "running"

Send ==
  /\ outcome = "running"
  /\ sent' = sent + 1
  /\ UNCHANGED <<candidate, outcome>>

FallBack ==
  /\ outcome = "running" /\ sent = 0
  /\ candidate < Size
  /\ candidate' = candidate + 1
  /\ UNCHANGED <<sent, outcome>>

Exhaust ==
  /\ outcome = "running" /\ sent = 0
  /\ candidate = Size
  /\ outcome' = "exhausted"
  /\ UNCHANGED <<candidate, sent>>

Interrupt ==
  /\ outcome = "running" /\ sent > 0
  /\ outcome' = "fatal"
  /\ UNCHANGED <<candidate, sent>>

Succeed ==
  /\ outcome = "running"
  /\ outcome' = "answer"
  /\ UNCHANGED <<candidate, sent>>

Next == Send \/ FallBack \/ Exhaust \/ Interrupt \/ Succeed

Spec == Init /\ [][Next]_<<candidate, sent, outcome>>
==============================================================================
