------------------------------ MODULE MCDelivery ------------------------------
(***************************************************************************)
(* The golden dataset cut to two cases: "a", which the semantic router     *)
(* knows, and "b", which is similar enough for the cache.                  *)
(***************************************************************************)
EXTENDS Delivery

CONSTANTS r1, k1, k2, devops, hr, d1, e1

MCQueries == {"a", "b"}
MCKeyOf == [p \in Salts \X Queries |-> IF p[2] = "a" THEN k1 ELSE k2]
MCScore == [p \in Queries \X Queries |-> IF p[1] = p[2] THEN 2 ELSE 1]
MCSemanticRoute == [q \in Queries |-> IF q = "a" THEN devops ELSE None]
MCExpected == [q \in Queries |-> IF q = "a" THEN devops ELSE hr]

MCDefaultPool == <<d1>>
MCEscalationPool == <<e1>>
==============================================================================
