-------------------------- MODULE MCAgentRegistry ---------------------------
(***************************************************************************)
(* Onboarding with one agent, which registers itself with a manifest of    *)
(* every kind: agents share nothing but the administrators, who each have  *)
(* one form.                                                               *)
(***************************************************************************)
EXTENDS Onboarding, TLC

CONSTANTS planner, admin1, admin2, k1, k2, g1, g2, legacy

OneAgent == {planner}
TwoEditors == {admin1, admin2}
Tokens == {k1, k2}
Gateways == {g1, g2}

Interface(kind, auth) == [agent |-> planner, kind |-> kind, content |-> 1, auth |-> auth]

Manifests ==
  {Interface("native", "unset"), Interface("openclaw", "unset"), Interface("declarative", "none"),
   Interface("probed", "env"), Interface("unsupported", "unset")}

EditorSymmetry ==
  Permutations(TwoEditors) \cup Permutations(Tokens) \cup Permutations(Gateways)
=============================================================================
