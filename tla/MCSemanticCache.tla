---------------------------- MODULE MCSemanticCache ----------------------------
(***************************************************************************)
(* SemanticCacheHistory with two lookups, three queries and two keys.      *)
(* "a" and "b" are paraphrases, "c" is about something else; under either  *)
(* seed two of the queries share a key, and each seed places them          *)
(* differently, as a new supervisor process does.                          *)
(***************************************************************************)
EXTENDS SemanticCacheHistory

CONSTANTS t1, t2, k1, k2

MCQueries == {"a", "b", "c"}

MCKeyOf == [p \in Salts \X MCQueries |->
  IF (p[1] = 1) = (p[2] = "a") THEN k1 ELSE k2]

MCScore == [p \in MCQueries \X MCQueries |->
  IF p[1] = p[2] THEN 2 ELSE IF "c" \in {p[1], p[2]} THEN 0 ELSE 1]
==============================================================================
