-------------------------- MODULE MCMonitoredPage ---------------------------
(***************************************************************************)
(* MonitoredPage with one agent, an endpoint that can be probed and one    *)
(* that cannot, and one call of refreshData beside the monitor's loop.     *)
(***************************************************************************)
EXTENDS MonitoredPage, TLC

CONSTANTS planner, good, bad, call1

OneAgent == {planner}
Endpoints == {good, bad}
NotParsed == {bad}
OneCall == {call1}

(* Bound: one event or incident, or one change of the agent or endpoint. *)
OneDisturbance == recorded + incidents + (epoch - 1) <= 1
=============================================================================
