--------------------------- MODULE MonitoredPage ----------------------------
(***************************************************************************)
(* The Registry's page with the status monitor it asks: Dashboard, with    *)
(* StatusMonitor in the place of StatusPromise.                            *)
(*                                                                         *)
(* The request of a refresh that the monitor serves is that of a call of   *)
(* refreshData.  A step of the two is one of each; every other step is of  *)
(* one of them and leaves the other alone.                                 *)
(***************************************************************************)
EXTENDS StatusMonitor, PageBounds

VARIABLES recorded, queue, stream, timer, calls, statusCall, screen, authorized, incidents

Page == INSTANCE Dashboard WITH
  Slot <- Request, seen <- statuses.seen, asked <- [r \in Request |-> asked[r]]

pageVars == <<recorded, queue, stream, timer, calls, statusCall, screen, authorized, incidents>>
monitoredVars == <<vars, pageVars>>

MonitoredInit == Init /\ Page!PageInit

-----------------------------------------------------------------------------
(* refresh_agent_status: the page's call waits in AgentStatusMonitor. *)
ForcedStep(r) ==
  \/ AskRefresh(r) /\ Page!ForceSent(r)
  \/ RefreshEnds(r) /\ Page!RefreshTaken(r)
  \/ RefreshRaises(r) /\ Page!RefreshRaised(r)

(* list_agent_status and runtime_statuses take a snapshot. *)
StatusesRead ==
  /\ TakeSnapshot
  /\ Page!StatusCallAnswered \/ \E r \in Request : Page!StatusesAnswered(r)

(* The page's own steps, and those of the stream of task events. *)
PageAlone ==
  /\ UNCHANGED vars
  /\ \/ \E r \in Request :
          Page!Poll(r) \/ Page!AgentsAnswered(r) \/ Page!DataShown(r)
            \/ Page!DataFails(r) \/ Page!EnterToken(r)
     \/ Page!RecordEvent \/ Page!StreamStep \/ Page!StreamFails \/ Page!StreamEnds
     \/ Page!EventRead \/ Page!StatusesShown \/ Page!StatusCallFails

(* The monitor's loop, probes, other clients and what changes outside. *)
MonitorAlone ==
  /\ \/ AskRefresh("loop") \/ RefreshEnds("loop") \/ RefreshRaises("loop")
     \/ \E c \in Caller : ListRecords(c) \/ \E a \in Agent : ProbeEnds(c, a)
     \/ TakeSnapshot
     \/ \E a \in Agent : AgentChanges(a)
     \/ \E e \in Endpoint \ Unprobeable : EndpointChanges(e)
  /\ UNCHANGED pageVars

MonitoredNext ==
  \/ MonitorAlone \/ PageAlone \/ StatusesRead
  \/ \E r \in Request : ForcedStep(r)

MonitoredSpec == MonitoredInit /\ [][MonitoredNext]_monitoredVars

-----------------------------------------------------------------------------
(* Properties. *)

(* The page that asks the monitor is the page of Dashboard: each of its    *)
(* calls that forces a refresh is in the lock's queue exactly while it     *)
(* waits, the one that leaves the queue is the one that is answered, and   *)
(* what the monitor answers is never older than the call.                  *)
PageSpec == Page!Spec
=============================================================================
