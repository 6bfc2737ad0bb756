------------------------- MODULE SemanticCacheHistory -------------------------
(***************************************************************************)
(* SemanticCache with two history variables that remember what the store   *)
(* looked like during a lookup, and the properties of get_similar that     *)
(* relate a lookup's result to the whole time it took.                     *)
(***************************************************************************)
EXTENDS SemanticCache

VARIABLES
  steady,     \* keys whose entry has not changed since the lookup began
  window      \* entries that were in the store at some time of the lookup

hvars == <<vars, steady, window>>

HTypeOK ==
  /\ TypeOK
  /\ steady \in [Tasks -> SUBSET Keys]
  /\ window \in [Tasks -> SUBSET Entry]

Stored == {store[k] : k \in Present}

HInit ==
  /\ Init
  /\ steady = [t \in Tasks |-> {}]
  /\ window = [t \in Tasks |-> {}]

(* The history is kept while a lookup runs and starts afresh with each.    *)
(* No key is steady across an outage of Redis.                             *)
Track ==
  /\ steady' = [t \in Tasks |->
       {k \in IF t \in scanning THEN steady[t] ELSE Present :
          t \in scanning' /\ store'[k] = store[k] /\ up /\ up'}]
  /\ window' = [t \in Tasks |->
       IF t \in scanning' THEN (IF t \in scanning THEN window[t] ELSE {}) \union Stored \union Stored'
       ELSE {}]

HNext == Next /\ Track

HSpec == HInit /\ [][HNext]_hvars

------------------------------------------------------------------------------
(***************************************************************************)
(* What get_similar holds as its best entry was in the store while the     *)
(* lookup ran, whatever was written, flushed or overwritten meanwhile:     *)
(* never a leftover of an earlier lookup.                                  *)
(***************************************************************************)
NoStaleHit == \A t \in scanning : best[t] # None => best[t] \in window[t]

(***************************************************************************)
(* get_similar returns None only if no entry that stayed in the store for  *)
(* the whole lookup is similar enough: concurrent writes, deletions and    *)
(* keys returned twice cannot make it overlook one.                        *)
(***************************************************************************)
NoFalseMiss ==
  [][\A t \in Tasks : Miss(t) =>
       \A k \in steady[t] : ScoreOf(t, store[k]) < Threshold]_hvars

(***************************************************************************)
(* The entry get_similar returns is at least as similar to the query as    *)
(* every entry that stayed in the store for the whole lookup.              *)
(***************************************************************************)
HitIsMostSimilar ==
  [][\A t \in Tasks : Hit(t) =>
       \A k \in steady[t] : ScoreOf(t, best[t]) >= ScoreOf(t, store[k])]_hvars

------------------------------------------------------------------------------
(***************************************************************************)
(* The loop invariant of get_similar, inductive with HTypeOK: a steady key *)
(* that SCAN has already returned is no more similar than best.            *)
(***************************************************************************)
ScanInv ==
  \A t \in scanning : \A k \in steady[t] :
    /\ store[k] # None
    /\ k \notin todo[t] =>
         /\ best[t] # None
         /\ ScoreOf(t, best[t]) >= ScoreOf(t, store[k])
==============================================================================
