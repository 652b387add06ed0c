----------------------- MODULE MCExperienceCollection -----------------------
(***************************************************************************)
(* ExperienceCollection on a small instance: one task, whose message is    *)
(* published up to twice, and two handlers.                                *)
(***************************************************************************)
EXTENDS ExperienceCollection

CONSTANTS a1, t1, w1, w2

AgentSet == {a1}
TaskSet == {t1}
WorkerSet == {w1, w2}
=============================================================================
