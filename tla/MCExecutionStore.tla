-------------------------- MODULE MCExecutionStore --------------------------
(***************************************************************************)
(* ExecutionStore on a small instance: two agents with two tasks each, so  *)
(* that rows compete for message ids and those of one agent go with it     *)
(* while the others stay, and three claims, enough for a claim, its        *)
(* takeover after the lease ran out and a claim of the other table or row. *)
(***************************************************************************)
EXTENDS ExecutionStore, TLC

CONSTANTS a1, a2, t1, t2, m1, m2, ok, empty

MCAgent == {a1, a2}
MCTask == {t1, t2}
MCMessage == {m1, m2}
MCText == {ok, empty}

Symmetry ==
  Permutations(MCAgent) \cup Permutations(MCTask) \cup Permutations(MCMessage)
=============================================================================
