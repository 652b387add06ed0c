-------------------------- MODULE MCTaskExecution ---------------------------
(***************************************************************************)
(* TaskExecution on small instances.  Two handler slots suffice for a      *)
(* handler that was cut off to meet the one its command was redelivered    *)
(* to; MaxClaims is the number of deliveries the limit allows, so that the *)
(* bound on claims never withholds one.                                    *)
(***************************************************************************)
EXTENDS TaskExecution, TLC

CONSTANTS a1, t1, t2, w1, w2

OneAgent == {a1}
OneTask == {t1}
TwoTasks == {t1, t2}
TwoWorkers == {w1, w2}

TaskWorkerSymmetry == Permutations(TwoTasks) \cup Permutations(TwoWorkers)
=============================================================================
