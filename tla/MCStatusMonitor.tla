-------------------------- MODULE MCStatusMonitor ---------------------------
(***************************************************************************)
(* StatusMonitor with two agents, an endpoint that can be probed and one   *)
(* that cannot, and one request beside the loop.                           *)
(***************************************************************************)
EXTENDS StatusMonitor, TLC

CONSTANTS planner, writer, good, bad, post1

TwoAgents == {planner, writer}
Endpoints == {good, bad}
NotParsed == {bad}
OneRequest == {post1}
=============================================================================
