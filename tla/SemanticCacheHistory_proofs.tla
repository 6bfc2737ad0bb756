---------------------- MODULE SemanticCacheHistory_proofs ----------------------
(***************************************************************************)
(* What get_similar returns, proved for any tasks, keys, hash function,    *)
(* similarity and threshold.  The argument: a step of any task keeps the   *)
(* loop invariant ScanInv, because a steady key is by definition one that  *)
(* nobody has changed, and best only improves.                             *)
(***************************************************************************)
EXTENDS SemanticCacheHistory, TLAPS

(* The cache itself. *)

(* Initially every variable has its type. *)
LEMMA TypeInit == Init => TypeOK
BY DEF Init, TypeOK

(* Every action keeps the type invariant; a hash that HSET writes is an    *)
(* Entry at one of the Keys.                                               *)
LEMMA TypeStep == TypeOK /\ [Next]_vars => TypeOK'
<1> SUFFICES ASSUME TypeOK, [Next]_vars PROVE TypeOK'
  OBVIOUS
<1> USE DEF TypeOK
<1>1. ASSUME NEW t \in Tasks, Begin(t) PROVE TypeOK'
  BY <1>1 DEF Begin, Present
<1>2. ASSUME NEW t \in Tasks, NEW k \in Keys, Visit(t, k) PROVE TypeOK'
  BY <1>2 DEF Visit, Better
<1>3. ASSUME NEW t \in Tasks, Hit(t) PROVE TypeOK'
  BY <1>3 DEF Hit
<1>4. ASSUME NEW t \in Tasks, Miss(t) PROVE TypeOK'
  BY <1>4 DEF Miss
<1>5. ASSUME NEW t \in Tasks, Abandon(t) PROVE TypeOK'
  BY <1>5 DEF Abandon
<1>6. ASSUME NEW t \in Tasks, NEW v \in Values, Put(query[t], v) PROVE TypeOK'
  <2>1. KeyOf[<<salt, query[t]>>] \in Keys
    BY CacheAssumption
  <2>2. [query |-> query[t], value |-> v] \in Entry
    BY DEF Entry
  <2>3. QED
    BY <1>6, <2>1, <2>2 DEF Put
<1>7. ASSUME Environment PROVE TypeOK'
  BY <1>7 DEF Environment, RedisStops, RedisStarts, Flush, Restart
<1>8. CASE UNCHANGED vars
  BY <1>8 DEF vars
<1>9. QED
  BY <1>1, <1>2, <1>3, <1>4, <1>5, <1>6, <1>7, <1>8 DEF Next, Raise

(***************************************************************************)
(* The cache's variables keep their types: what is stored is an Entry.       *)
(***************************************************************************)
THEOREM TypeCorrect == Spec => []TypeOK
BY TypeInit, TypeStep, PTL DEF Spec

------------------------------------------------------------------------------
(* What Track says of the history of one task *)

(* A key that is steady after a step is one whose entry the step left      *)
(* alone, of a task that is scanning.                                      *)
LEMMA TrackSteady ==
  ASSUME Track, NEW t \in Tasks, NEW k \in steady'[t]
  PROVE  /\ t \in scanning'
         /\ store'[k] = store[k]
         /\ up /\ up'
         /\ t \in scanning => k \in steady[t]
         /\ t \notin scanning => k \in Present
BY DEF Track

(* Entries in the window of a running lookup stay there, and so do the     *)
(* entries that the step finds in the store.                               *)
LEMMA TrackWindow ==
  ASSUME Track, NEW t \in Tasks, t \in scanning'
  PROVE  /\ t \in scanning => window[t] \subseteq window'[t]
         /\ \A k \in Keys : store[k] # None => store[k] \in window'[t]
BY DEF Track, Stored, Present

(* The history has its type. *)
LEMMA HTypeInit == HInit => HTypeOK
BY TypeInit DEF HInit, HTypeOK

LEMMA HTypeStep == HTypeOK /\ [HNext]_hvars => HTypeOK'
<1> SUFFICES ASSUME HTypeOK, [HNext]_hvars PROVE HTypeOK'
  OBVIOUS
<1>1. TypeOK'
  BY TypeStep DEF HTypeOK, HNext, hvars
<1>2. CASE UNCHANGED hvars
  BY <1>1, <1>2 DEF hvars, HTypeOK
<1>3. CASE HNext
  <2>1. steady' \in [Tasks -> SUBSET Keys]
    BY <1>3 DEF HNext, Track, HTypeOK, Present
  <2>2. Stored \subseteq Entry /\ Stored' \subseteq Entry
    BY <1>1 DEF Stored, Present, HTypeOK, TypeOK
  <2>3. window' \in [Tasks -> SUBSET Entry]
    BY <1>3, <2>2 DEF HNext, Track, HTypeOK
  <2>4. QED
    BY <1>1, <2>1, <2>3 DEF HTypeOK
<1>4. QED
  BY <1>2, <1>3

(***************************************************************************)
(* The history variables have their types, and do not constrain the cache. *)
(***************************************************************************)
THEOREM HTypeCorrect == HSpec => []HTypeOK
BY HTypeInit, HTypeStep, PTL DEF HSpec

------------------------------------------------------------------------------
(* The steps of a lookup that goes on, as one of four kinds. *)
LEMMA LookupSteps ==
  ASSUME HTypeOK, HNext, NEW t \in Tasks, t \in scanning'
  PROVE  \/ Begin(t)
         \/ t \in scanning /\ \E k \in Keys : Visit(t, k)
         \/ t \in scanning /\ best'[t] = best[t] /\ todo'[t] = todo[t]
         \/ t \in scanning /\ best'[t] = best[t] /\ ~up
<1>1. CASE \E u \in Tasks : Begin(u)
  BY <1>1 DEF Begin, HTypeOK, TypeOK
<1>2. CASE \E u \in Tasks, k \in Keys : Visit(u, k)
  <2>1. PICK u \in Tasks, k \in Keys : Visit(u, k)
    BY <1>2
  <2>2. CASE u = t
    BY <2>1, <2>2 DEF Visit
  <2>3. CASE u # t
    BY <2>1, <2>3 DEF Visit, HTypeOK, TypeOK
  <2>4. QED
    BY <2>2, <2>3
<1>3. CASE \E u \in Tasks : Hit(u) \/ Miss(u) \/ Raise(u) \/ Abandon(u)
  <2>1. PICK u \in Tasks : Hit(u) \/ Miss(u) \/ Abandon(u)
    BY <1>3 DEF Raise
  <2>2. u # t /\ t \in scanning
    BY <2>1 DEF Hit, Miss, Abandon
  <2>3. QED
    BY <2>1, <2>2 DEF Hit, Miss, Abandon, HTypeOK, TypeOK
<1>4. CASE \E u \in Tasks, v \in Values : Put(query[u], v)
  BY <1>4 DEF Put
<1>5. CASE Environment
  BY <1>5 DEF Environment, RedisStops, RedisStarts, Flush, Restart
<1>6. QED
  BY <1>1, <1>2, <1>3, <1>4, <1>5 DEF HNext, Next

(* query never changes, so neither does a score. *)
LEMMA SameQuery == HNext => query' = query
BY DEF HNext, Next, Begin, Visit, Hit, Miss, Raise, Abandon, Put, Environment,
       RedisStops, RedisStarts, Flush, Restart

(* What a lookup holds comes from its own time window. *)
LEMMA NoStaleHitStep == HTypeOK /\ NoStaleHit /\ [HNext]_hvars => NoStaleHit'
<1> SUFFICES ASSUME HTypeOK, NoStaleHit, [HNext]_hvars,
                    NEW t \in scanning', best'[t] # None
             PROVE  best'[t] \in window'[t]
  BY DEF NoStaleHit
<1>1. CASE UNCHANGED hvars
  BY <1>1 DEF hvars, vars, NoStaleHit
<1>2. CASE HNext
  <2>1. t \in Tasks
    BY HTypeStep DEF HTypeOK, TypeOK
  <2>2. Track
    BY <1>2 DEF HNext
  <2>3. CASE Begin(t)
    BY <2>1, <2>3 DEF Begin, HTypeOK, TypeOK
  <2>4. ASSUME NEW k \in Keys, t \in scanning, Visit(t, k) PROVE best'[t] \in window'[t]
    <3>1. CASE Better(t, store[k])
      BY <2>1, <2>2, <2>4, <3>1, TrackWindow DEF Visit, Better, HTypeOK, TypeOK
    <3>2. CASE ~Better(t, store[k])
      BY <2>1, <2>2, <2>4, <3>2, TrackWindow DEF Visit, NoStaleHit
    <3>3. QED
      BY <3>1, <3>2
  <2>5. CASE t \in scanning /\ best'[t] = best[t]
    BY <2>1, <2>2, <2>5, TrackWindow DEF NoStaleHit
  <2>6. QED
    BY <1>2, <2>1, <2>3, <2>4, <2>5, LookupSteps
<1>3. QED
  BY <1>1, <1>2

(***************************************************************************)
(* get_similar never returns an entry that was not in the store while it   *)
(* ran.                                                                    *)
(***************************************************************************)
THEOREM NeverStale == HSpec => []NoStaleHit
<1>1. HInit => NoStaleHit
  BY DEF HInit, Init, NoStaleHit
<1>2. QED
  BY <1>1, NoStaleHitStep, HTypeCorrect, PTL DEF HSpec

------------------------------------------------------------------------------
(* The similarity of a task's query and an entry is a number. *)
LEMMA ScoreIsInt ==
  ASSUME TypeOK, NEW t \in Tasks, NEW e \in Entry
  PROVE  ScoreOf(t, e) \in Int
BY CacheAssumption DEF TypeOK, ScoreOf, Entry

(* The loop invariant: a step of any task keeps it for every lookup. *)
LEMMA ScanInvStep == HTypeOK /\ ScanInv /\ [HNext]_hvars => ScanInv'
<1> SUFFICES ASSUME HTypeOK, ScanInv, [HNext]_hvars,
                    NEW t \in scanning', NEW k \in steady'[t]
             PROVE  /\ store'[k] # None
                    /\ k \notin todo'[t] =>
                         /\ best'[t] # None
                         /\ ScoreOf(t, best[t])' >= ScoreOf(t, store[k])'
  BY DEF ScanInv
<1>1. CASE UNCHANGED hvars
  BY <1>1 DEF hvars, vars, ScanInv, ScoreOf
<1>2. CASE HNext
  <2>1. t \in Tasks /\ k \in Keys
    BY HTypeStep DEF HTypeOK, TypeOK
  <2>2. /\ store'[k] = store[k] /\ up
        /\ t \in scanning => k \in steady[t]
        /\ t \notin scanning => k \in Present
    BY <1>2, <2>1, TrackSteady DEF HNext
  <2>3. query' = query
    BY <1>2, SameQuery
  <2>4. CASE Begin(t)
    BY <2>1, <2>2, <2>4 DEF Begin, Present, HTypeOK, TypeOK
  <2>5. ASSUME NEW j \in Keys, t \in scanning, Visit(t, j)
        PROVE  /\ store'[k] # None
               /\ k \notin todo'[t] =>
                    /\ best'[t] # None
                    /\ ScoreOf(t, best[t])' >= ScoreOf(t, store[k])'
    <3>1. store[k] \in Entry /\ store[k] # None /\ k \in steady[t]
      BY <2>1, <2>2, <2>5 DEF ScanInv, HTypeOK, TypeOK
    <3>2. SUFFICES ASSUME k \notin todo'[t]
                   PROVE  best'[t] # None /\ ScoreOf(t, best'[t]) >= ScoreOf(t, store[k])
      BY <2>2, <2>3, <3>1 DEF ScoreOf
    <3>3. todo'[t] = todo[t] \ {j}
      BY <2>1, <2>5 DEF Visit, HTypeOK, TypeOK
    <3>4. /\ best[t] \in Entry \union {None} /\ store[j] \in Entry \union {None}
          /\ best'[t] = IF Better(t, store[j]) THEN store[j] ELSE best[t]
      BY <2>1, <2>5 DEF Visit, HTypeOK, TypeOK
    <3>5. /\ ScoreOf(t, store[k]) \in Int
          /\ best[t] # None => ScoreOf(t, best[t]) \in Int
          /\ store[j] # None => ScoreOf(t, store[j]) \in Int
      BY <2>1, <3>1, <3>4, ScoreIsInt DEF HTypeOK
    <3>6. CASE j = k
      BY <3>1, <3>4, <3>5, <3>6 DEF Better
    <3>7. CASE j # k
      <4>1. best[t] # None /\ ScoreOf(t, best[t]) >= ScoreOf(t, store[k])
        BY <2>5, <3>1, <3>2, <3>3, <3>7 DEF ScanInv
      <4>2. QED
        BY <3>4, <3>5, <4>1 DEF Better
    <3>8. QED
      BY <3>6, <3>7
  <2>6. CASE t \in scanning /\ best'[t] = best[t] /\ todo'[t] = todo[t]
    BY <2>1, <2>2, <2>3, <2>6 DEF ScanInv, ScoreOf
  <2>7. QED
    BY <1>2, <2>1, <2>2, <2>4, <2>5, <2>6, LookupSteps
<1>3. QED
  BY <1>1, <1>2

(***************************************************************************)
(* The loop invariant of get_similar under every interleaving of writers,  *)
(* flushes and outages.                                                    *)
(***************************************************************************)
THEOREM ScanInvariant == HSpec => []ScanInv
<1>1. HInit => ScanInv
  BY DEF HInit, Init, ScanInv
<1>2. QED
  BY <1>1, ScanInvStep, HTypeCorrect, PTL DEF HSpec

(***************************************************************************)
(* A miss means that no entry that was in the store throughout the lookup  *)
(* reaches the threshold.                                                  *)
(***************************************************************************)
THEOREM MissIsTrue == HSpec => NoFalseMiss
<1>1. ASSUME HTypeOK, ScanInv, NEW t \in Tasks, Miss(t), NEW k \in steady[t]
      PROVE  ScoreOf(t, store[k]) < Threshold
  <2>1. best[t] # None /\ ScoreOf(t, best[t]) >= ScoreOf(t, store[k]) /\ store[k] # None
    BY <1>1 DEF Miss, ScanInv
  <2>2. ScoreOf(t, best[t]) \in Int /\ ScoreOf(t, store[k]) \in Int /\ Threshold \in Int
    BY <1>1, <2>1, ScoreIsInt, CacheAssumption DEF HTypeOK, TypeOK
  <2>3. ~(ScoreOf(t, best[t]) >= Threshold)
    BY <1>1, <2>1 DEF Miss, Similar
  <2>4. QED
    BY <2>1, <2>2, <2>3
<1>2. HTypeOK /\ ScanInv =>
        (\A t \in Tasks : Miss(t) => \A k \in steady[t] : ScoreOf(t, store[k]) < Threshold)
  BY <1>1
<1>3. QED
  BY <1>2, HTypeCorrect, ScanInvariant, PTL DEF NoFalseMiss

(***************************************************************************)
(* A hit is as similar as any entry that was in the store throughout the   *)
(* lookup.                                                                 *)
(***************************************************************************)
THEOREM HitIsBest == HSpec => HitIsMostSimilar
<1>1. ScanInv =>
        (\A t \in Tasks : Hit(t) =>
           \A k \in steady[t] : ScoreOf(t, best[t]) >= ScoreOf(t, store[k]))
  BY DEF Hit, ScanInv
<1>2. QED
  BY <1>1, ScanInvariant, PTL DEF HitIsMostSimilar
==============================================================================
