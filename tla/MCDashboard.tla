---------------------------- MODULE MCDashboard -----------------------------
(***************************************************************************)
(* Dashboard with one call of refreshData under way at a time, beside that *)
(* of refreshRuntimeStatuses.                                              *)
(***************************************************************************)
EXTENDS Dashboard, TLC

CONSTANT call1

OneCall == {call1}
=============================================================================
