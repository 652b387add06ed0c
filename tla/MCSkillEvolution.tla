------------------------- MODULE MCSkillEvolution ---------------------------
(***************************************************************************)
(* SkillEvolution with the scheduler and one command beside it.            *)
(***************************************************************************)
EXTENDS SkillEvolution, TLC

CONSTANTS p1, scheduler, command, r1

NoPolicies == {}
OnePolicy == {p1}
OneResource == {r1}
Processes == {scheduler, command}

ProcessSymmetry == Permutations(Processes)
=============================================================================
