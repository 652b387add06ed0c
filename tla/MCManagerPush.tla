--------------------------- MODULE MCManagerPush ----------------------------
(***************************************************************************)
(* ManagerPush with one task of an agent that pushes and one of an agent   *)
(* that is polled.                                                         *)
(***************************************************************************)
EXTENDS ManagerPush

CONSTANTS pushed, polled

BothTasks == {pushed, polled}
PushedTask == {pushed}
=============================================================================
