----------------------------- MODULE PageBounds ------------------------------
(***************************************************************************)
(* The limits of the page and of its event stream, for Dashboard and for   *)
(* MonitoredPage.                                                          *)
(***************************************************************************)
EXTENDS Naturals

CONSTANTS
  QueueSize,    \* asyncio.Queue(maxsize=256) of a subscriber
  MaxEvent,     \* bound on task events
  MaxIncident   \* bound on requests and streams that break, and on tokens entered

ASSUME PageAssumption ==
  QueueSize \in Nat \ {0} /\ MaxEvent \in Nat /\ MaxIncident \in Nat
=============================================================================
