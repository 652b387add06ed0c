-------------------------- MODULE MCTaskProjection --------------------------
(***************************************************************************)
(* TaskProjection on small instances: one task of the Gateway, which has   *)
(* four event ids, and one reported without numbers.                       *)
(***************************************************************************)
EXTENDS TaskProjection

CONSTANTS t1, n1

OneTask == {t1}
OneNative == {n1}
NoTask == {}
=============================================================================
