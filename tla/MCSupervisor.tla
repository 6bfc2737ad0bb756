----------------------------- MODULE MCSupervisor -----------------------------
(***************************************************************************)
(* The supervisor with two queries: "a", which the semantic router knows,  *)
(* and "b", a paraphrase similar enough for the cache, of which it is not  *)
(* sure.  Under seed 1 they have a key each, under seed 2 they collide.    *)
(***************************************************************************)
EXTENDS SupervisorProperties, TLC

CONSTANTS r1, r2, k1, k2, devops, hr, d1, d2, e1, e2, e3

MCQueries == {"a", "b"}
MCKeyOf == [p \in Salts \X Queries |-> IF p[1] = 2 \/ p[2] = "a" THEN k1 ELSE k2]
MCScore == [p \in Queries \X Queries |-> IF p[1] = p[2] THEN 2 ELSE 1]
MCSemanticRoute == [q \in Queries |-> IF q = "a" THEN devops ELSE None]

OneModel == <<d1>>
OneStrongModel == <<e1>>

(* The sizes of DEFAULT_POOL and ESCALATION_POOL. *)
TwoModels == <<d1, d2>>
ThreeStrongModels == <<e1, e2, e3>>

TwoRequests == Permutations({r1, r2})
==============================================================================
