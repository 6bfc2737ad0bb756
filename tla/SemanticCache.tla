---------------------------- MODULE SemanticCache ----------------------------
(***************************************************************************)
(* The Redis semantic cache of supervisor/cache/semantic_cache.py, used by *)
(* concurrent tasks of one asyncio event loop.                             *)
(*                                                                         *)
(* get_similar(query) is not atomic: it iterates over the keys with SCAN   *)
(* and fetches every hash with HGETALL, suspending at each reply, while    *)
(* other tasks write, an operator flushes, or Redis goes away.             *)
(* set(query, value) is one HSET of all the fields of a hash, which Redis  *)
(* executes atomically.                                                    *)
(*                                                                         *)
(* An embedding is a function of its query (the encoder is deterministic), *)
(* so an entry holds the query for both; Score is the cosine similarity of *)
(* two queries, scaled to integers.                                        *)
(***************************************************************************)
EXTENDS Integers

CONSTANTS
  Tasks,      \* the coroutines that call the cache
  Queries,    \* query texts
  Values,     \* the dicts that set() stores
  Keys,       \* the Redis keys the prefix matches
  Salts,      \* seeds of Python's str hash: one per supervisor process
  KeyOf,      \* abs(hash(query)) under a seed: may collide
  Score,      \* cosine similarity of two queries
  Threshold,  \* settings.cache_similarity_threshold
  None        \* no hash at a key, no result of a lookup

(* The fields of one hash; "embedding" is a function of "query". *)
Entry == [query : Queries, value : Values]

ASSUME CacheAssumption ==
  /\ KeyOf \in [Salts \X Queries -> Keys]
  /\ Score \in [Queries \X Queries -> Int]
  /\ Threshold \in Int
  /\ None \notin Entry

VARIABLES
  store,      \* Redis: the entry at each key, or None
  up,         \* Redis answers
  salt,       \* hash seed of the running supervisor process
  query,      \* the query of each task
  scanning,   \* the tasks inside get_similar
  todo,       \* keys a task's SCAN has still to return
  best        \* best_entry of a task's scan; after a hit, what it returned

redisVars == <<store, up>>
taskVars  == <<scanning, todo, best>>
vars      == <<store, up, salt, query, scanning, todo, best>>

TypeOK ==
  /\ store \in [Keys -> Entry \union {None}]
  /\ up \in BOOLEAN
  /\ salt \in Salts
  /\ query \in [Tasks -> Queries]
  /\ scanning \subseteq Tasks
  /\ todo \in [Tasks -> SUBSET Keys]
  /\ best \in [Tasks -> Entry \union {None}]

Present == {k \in Keys : store[k] # None}

ScoreOf(t, e) == Score[<<query[t], e.query>>]

Init ==
  /\ store = [k \in Keys |-> None]
  /\ up = TRUE
  /\ salt \in Salts
  /\ query \in [Tasks -> Queries]
  /\ scanning = {}
  /\ todo = [t \in Tasks |-> {}]
  /\ best = [t \in Tasks |-> None]

------------------------------------------------------------------------------
(* get_similar *)

(* A lookup that keeps the best entry of the task's previous one. *)
BeginKeepsBest(t) ==
  /\ t \notin scanning
  /\ scanning' = scanning \union {t}
  /\ todo' = [todo EXCEPT ![t] = Present]
  /\ UNCHANGED <<best, store, up, salt, query>>

(* best_score, best_entry = -1.0, None; the first SCAN.  A full SCAN        *)
(* iteration returns every key that is present from its start to its end.  *)
Begin(t) ==
  /\ t \notin scanning
  /\ scanning' = scanning \union {t}
  /\ todo' = [todo EXCEPT ![t] = Present]
  /\ best' = [best EXCEPT ![t] = None]
  /\ UNCHANGED <<store, up, salt, query>>

(* score > best_score, written as < : the scan keeps the worst entry. *)
BetterIsWorse(t, e) ==
  /\ e # None
  /\ best[t] # None => ScoreOf(t, e) < ScoreOf(t, best[t])

(* score > best_score, strictly: of equal scores the first one seen stays.  *)
(* A hash that vanished since SCAN returned its key is skipped.            *)
Better(t, e) ==
  /\ e # None
  /\ best[t] # None => ScoreOf(t, e) > ScoreOf(t, best[t])

(* HGETALL of one key.  SCAN may also return a key created during the      *)
(* iteration, and may return a key more than once.                         *)
Visit(t, k) ==
  /\ t \in scanning
  /\ up
  /\ k \in todo[t] \union Present
  /\ todo' = [todo EXCEPT ![t] = @ \ {k}]
  /\ best' = IF Better(t, store[k]) THEN [best EXCEPT ![t] = store[k]] ELSE best
  /\ UNCHANGED <<store, up, salt, query, scanning>>

(* best_entry is not None and best_score >= threshold *)
Similar(t) == best[t] # None /\ ScoreOf(t, best[t]) >= Threshold

(* The scan is over and returns best_entry. *)
Hit(t) ==
  /\ t \in scanning
  /\ todo[t] = {}
  /\ Similar(t)
  /\ scanning' = scanning \ {t}
  /\ UNCHANGED <<store, up, salt, query, todo, best>>

(* A scan that gives up before SCAN has returned every key. *)
MissEarly(t) ==
  /\ t \in scanning
  /\ ~Similar(t)
  /\ scanning' = scanning \ {t}
  /\ todo' = [todo EXCEPT ![t] = {}]
  /\ best' = [best EXCEPT ![t] = None]
  /\ UNCHANGED <<store, up, salt, query>>

(* The scan is over and returns None. *)
Miss(t) ==
  /\ t \in scanning
  /\ todo[t] = {}
  /\ ~Similar(t)
  /\ scanning' = scanning \ {t}
  /\ best' = [best EXCEPT ![t] = None]
  /\ UNCHANGED <<store, up, salt, query, todo>>

(* The task is cancelled inside get_similar. *)
Abandon(t) ==
  /\ t \in scanning
  /\ scanning' = scanning \ {t}
  /\ todo' = [todo EXCEPT ![t] = {}]
  /\ best' = [best EXCEPT ![t] = None]
  /\ UNCHANGED <<store, up, salt, query>>

(* A client that retries for as long as Redis is away. *)
RetryForever(t) == ~up /\ t \in scanning /\ UNCHANGED vars

(* SCAN or HGETALL raises: get_similar catches nothing. *)
Raise(t) == ~up /\ Abandon(t)

------------------------------------------------------------------------------
(* set *)

(* The mapping of HSET with two fields swapped. *)
PutSwapped(q, v) ==
  /\ up
  /\ store' = [store EXCEPT ![KeyOf[<<salt, q>>]] = [query |-> v, value |-> q]]
  /\ UNCHANGED <<up, salt, query, scanning, todo, best>>

(* HSETNX for the query: on a collision the fields are of two entries. *)
PutKeepsQuery(q, v) ==
  LET k == KeyOf[<<salt, q>>] IN
  /\ up
  /\ store' = [store EXCEPT ![k] = [query |-> IF @ = None THEN q ELSE @.query, value |-> v]]
  /\ UNCHANGED <<up, salt, query, scanning, todo, best>>

(* HSET writes every field of the hash at the query's key. *)
Put(q, v) ==
  /\ up
  /\ store' = [store EXCEPT ![KeyOf[<<salt, q>>]] = [query |-> q, value |-> v]]
  /\ UNCHANGED <<up, salt, query, scanning, todo, best>>

------------------------------------------------------------------------------
(* Environment *)

RedisStops == up /\ up' = FALSE /\ UNCHANGED <<store, salt, query, scanning, todo, best>>

(* The cursor of a SCAN in progress means nothing to a new server: that     *)
(* scan may then miss keys, or return any that are there.                  *)
RedisStarts ==
  /\ ~up
  /\ up' = TRUE
  /\ todo' = [t \in Tasks |-> {}]
  /\ UNCHANGED <<store, salt, query, scanning, best>>

(* FLUSHALL by an operator, or a Redis container that comes back empty. *)
Flush ==
  /\ store' = [k \in Keys |-> None]
  /\ UNCHANGED <<up, salt, query, scanning, todo, best>>

(* The supervisor process is replaced: its tasks are gone, and the new     *)
(* process draws its own hash seed.                                        *)
Restart ==
  /\ salt' \in Salts
  /\ scanning' = {}
  /\ todo' = [t \in Tasks |-> {}]
  /\ best' = [t \in Tasks |-> None]
  /\ UNCHANGED <<store, up, query>>

------------------------------------------------------------------------------
Environment == RedisStops \/ RedisStarts \/ Flush \/ Restart

(* What the task itself does next in get_similar. *)
Progress(t) ==
  \/ \E k \in todo[t] : Visit(t, k)
  \/ Hit(t)
  \/ Miss(t)
  \/ Raise(t)

Next ==
  \/ \E t \in Tasks : Begin(t)
  \/ \E t \in Tasks, k \in Keys : Visit(t, k)
  \/ \E t \in Tasks : Hit(t) \/ Miss(t) \/ Raise(t) \/ Abandon(t)
  \/ \E t \in Tasks, v \in Values : Put(query[t], v)
  \/ Environment

(* No fairness: the client has no socket timeout (it is made from the URL  *)
(* alone), so that a command may wait for its reply for ever.              *)
Spec == Init /\ [][Next]_vars

(***************************************************************************)
(* A get_similar whose own commands are each answered or fail ends (with a *)
(* result or an exception), also while other tasks keep writing or wait    *)
(* for replies that never come, and Redis comes and goes: the keys a scan  *)
(* has to see are fixed when it begins.                                    *)
(***************************************************************************)
LookupEnds ==
  \A t \in Tasks : WF_vars(Progress(t)) => (t \in scanning ~> t \notin scanning)
==============================================================================
