----------------------------- MODULE Dashboard ------------------------------
(***************************************************************************)
(* The Registry's web page (registry-web App.vue, api.ts): it shows the    *)
(* agents, their availability and what they are doing, from GET requests   *)
(* that it repeats every 30 seconds, on demand, and when the stream of     *)
(* task events (app.py) says that something has happened.                  *)
(*                                                                         *)
(* A request has three steps: the page sends it, the Registry answers, and *)
(* the page takes the answer.  Answers overtake each other.  Of the agents *)
(* and their availability the model keeps the epoch they are of (see       *)
(* StatusPromise, which StatusMonitor implements), and of the task events  *)
(* their number, since the page reads them again with the statuses.        *)
(***************************************************************************)
EXTENDS PageBounds

CONSTANTS
  Slot,         \* calls of refreshData that may be under way at once
  MaxEpoch      \* bound on the changes of agents and network

ASSUME DashboardAssumption == MaxEpoch \in Nat \ {0}

VARIABLES
  epoch, seen, asked, unfit,   \* see StatusPromise
  recorded,    \* task events the Registry has recorded
  queue,       \* events in the page's queue at the Registry
  stream,      \* the page's event stream
  timer,       \* eventReconnectTimer is running
  calls,       \* refreshData
  statusCall,  \* refreshRuntimeStatuses, while statusRefreshPending
  screen,      \* what the page shows
  authorized,  \* the page has a token the Registry accepts
  incidents    \* requests and streams broken and tokens entered so far

registryVars == <<epoch, seen, asked, unfit>>
streamVars == <<recorded, queue, stream, timer>>
pageVars == <<calls, statusCall, screen>>
vars == <<registryVars, streamVars, pageVars, authorized, incidents>>

Monitor == INSTANCE StatusPromise WITH Request <- Slot

(* The answer to a request for the statuses: snapshots, and the projection *)
(* of the tasks.                                                           *)
Statuses == [seen: 0 .. MaxEpoch, tasks: 0 .. MaxEvent]
Nothing == [tasks |-> 0]
Ready == [seen |-> seen, tasks |-> recorded]

Idle == [force |-> FALSE]

(* agents: the epoch of the agents that were answered, or 0; since: that   *)
(* in which the call was made.                                             *)
Call ==
  [force: BOOLEAN, since: 1 .. MaxEpoch, agents: 0 .. MaxEpoch,
   statuses: Statuses \cup {Nothing}]

TypeOK ==
  /\ Monitor!TypeOK
  /\ recorded \in 0 .. MaxEvent
  /\ queue \in 0 .. QueueSize
  /\ stream \in {"closed", "connecting", "open"}
  /\ timer \in BOOLEAN
  /\ calls \in [Slot -> Call \cup {Idle}]
  /\ statusCall \in Statuses \cup {Nothing, Idle}
  /\ screen \in [agents: 0 .. MaxEpoch, seen: 0 .. MaxEpoch, tasks: 0 .. MaxEvent]
  /\ authorized \in BOOLEAN
  /\ incidents \in 0 .. MaxIncident

-----------------------------------------------------------------------------
Queued == IF stream = "open" /\ queue < QueueSize THEN queue + 1 ELSE queue

(* ingest_task_event: a full queue misses the event. *)
RecordEvent ==
  /\ recorded < MaxEvent
  /\ recorded' = recorded + 1
  /\ queue' = Queued
  /\ UNCHANGED <<registryVars, stream, timer, pageVars, authorized, incidents>>

RegistryChanges ==
  /\ Monitor!Changes \/ Monitor!Refreshed
  /\ UNCHANGED <<streamVars, pageVars, authorized, incidents>>

(* refreshData: the agents and the statuses are asked for at once, and     *)
(* shown when both are there.  Without a token both are refused.           *)
Sends(s, force) ==
  /\ calls[s] = Idle
  /\ calls' = [calls EXCEPT ![s] =
       [force |-> force, since |-> epoch, agents |-> 0, statuses |-> Nothing]]

(* Mutant of Poll: the page polls only while it has no stream. *)
PollWithoutStream(s) ==
  /\ authorized /\ stream = "closed"
  /\ Sends(s, FALSE)
  /\ UNCHANGED <<registryVars, streamVars, statusCall, screen, authorized, incidents>>

Poll(s) ==
  /\ authorized
  /\ Sends(s, FALSE)
  /\ UNCHANGED <<registryVars, streamVars, statusCall, screen, authorized, incidents>>

(* The forced one makes the Registry refresh and waits for it. *)
ForceSent(s) ==
  /\ authorized
  /\ Sends(s, TRUE)
  /\ UNCHANGED <<streamVars, statusCall, screen, authorized, incidents>>

Force(s) == ForceSent(s) /\ Monitor!Ask(s)

AwaitsAgents(s) == calls[s] # Idle /\ calls[s].agents = 0
AwaitsStatuses(s) == calls[s] # Idle /\ calls[s].statuses = Nothing

AgentsAnswered(s) ==
  /\ AwaitsAgents(s)
  /\ calls' = [calls EXCEPT ![s].agents = epoch]
  /\ UNCHANGED <<registryVars, streamVars, statusCall, screen, authorized, incidents>>

(* Mutant of StatusesAnswered: a forced call is answered like a poll.      *)
AnsweredUnrefreshed(s) ==
  /\ AwaitsStatuses(s)
  /\ calls' = [calls EXCEPT ![s].statuses = Ready]
  /\ UNCHANGED <<registryVars, streamVars, statusCall, screen, authorized, incidents>>

StatusesAnswered(s) ==
  /\ AwaitsStatuses(s) /\ ~calls[s].force
  /\ calls' = [calls EXCEPT ![s].statuses = Ready]
  /\ UNCHANGED <<registryVars, streamVars, statusCall, screen, authorized, incidents>>

(* refresh_agent_status: when the refresh raises, so does the call. *)
RefreshTaken(s) ==
  /\ calls' = [calls EXCEPT ![s].statuses = [seen |-> seen', tasks |-> recorded]]
  /\ UNCHANGED <<streamVars, statusCall, screen, authorized, incidents>>

RefreshRaised(s) ==
  /\ calls' = [calls EXCEPT ![s] = Idle]
  /\ UNCHANGED <<streamVars, statusCall, screen, authorized, incidents>>

RefreshAnswered(s) == Monitor!Answer(s) /\ RefreshTaken(s)
RefreshRefused(s) == Monitor!Refuse(s) /\ RefreshRaised(s)

DataShown(s) ==
  /\ calls[s] # Idle /\ ~AwaitsAgents(s) /\ ~AwaitsStatuses(s)
  /\ screen' = [agents |-> calls[s].agents, seen |-> calls[s].statuses.seen,
                tasks |-> calls[s].statuses.tasks]
  /\ calls' = [calls EXCEPT ![s] = Idle]
  /\ UNCHANGED <<registryVars, streamVars, statusCall, authorized, incidents>>

Happens == incidents < MaxIncident /\ incidents' = incidents + 1

(* What is shown stays. *)
DataFails(s) ==
  /\ calls[s] # Idle /\ asked[s] = 0
  /\ Happens
  /\ calls' = [calls EXCEPT ![s] = Idle]
  /\ UNCHANGED <<registryVars, streamVars, statusCall, screen, authorized>>

-----------------------------------------------------------------------------
(* streamTaskEvents and connectTaskEventStream. *)

(* A stream that is live is aborted.  Its rejection is looked at when      *)
(* eventController is the new one already, and taken for a failure.        *)
Connect(armed) ==
  /\ stream' = "connecting"
  /\ queue' = 0
  /\ timer' = (armed \/ stream # "closed")

StreamOpens ==
  /\ stream = "connecting" /\ authorized
  /\ stream' = "open"
  /\ UNCHANGED <<registryVars, recorded, queue, timer, pageVars, authorized, incidents>>

Rejected == stream' = "closed" /\ queue' = 0 /\ timer' = TRUE

StreamRefused ==
  /\ stream = "connecting" /\ ~authorized
  /\ Rejected
  /\ UNCHANGED <<registryVars, recorded, pageVars, authorized, incidents>>

StreamFails ==
  /\ stream # "closed"
  /\ Happens
  /\ Rejected
  /\ UNCHANGED <<registryVars, recorded, pageVars, authorized>>

(* A stream that ends is not rejected, and nothing opens another one. *)
StreamEnds ==
  /\ stream = "open"
  /\ Happens
  /\ stream' = "closed" /\ queue' = 0
  /\ UNCHANGED <<registryVars, recorded, timer, pageVars, authorized>>

TimerFires ==
  /\ timer
  /\ Connect(FALSE)
  /\ UNCHANGED <<registryVars, recorded, pageVars, authorized, incidents>>

(* The page reads an event: refreshRuntimeStatuses, unless it is under way *)
(* already.                                                                *)
EventRead ==
  /\ queue > 0
  /\ queue' = queue - 1
  /\ statusCall' = IF statusCall = Idle THEN Nothing ELSE statusCall
  /\ UNCHANGED <<registryVars, recorded, stream, timer, calls, screen, authorized, incidents>>

StatusCallAnswered ==
  /\ statusCall = Nothing
  /\ statusCall' = Ready
  /\ UNCHANGED <<registryVars, streamVars, calls, screen, authorized, incidents>>

StatusesShown ==
  /\ statusCall \notin {Idle, Nothing}
  /\ screen' = [screen EXCEPT !.seen = statusCall.seen, !.tasks = statusCall.tasks]
  /\ statusCall' = Idle
  /\ UNCHANGED <<registryVars, streamVars, calls, authorized, incidents>>

StatusCallFails ==
  /\ statusCall # Idle
  /\ Happens
  /\ statusCall' = Idle
  /\ UNCHANGED <<registryVars, streamVars, calls, screen, authorized>>

(* applyAdminToken, with a token that is right or wrong: bootstrap(), and  *)
(* connectTaskEventStream(), which leaves a timer that is running alone.   *)
EnterToken(s) ==
  /\ Happens
  /\ authorized' \in BOOLEAN
  /\ IF authorized' THEN Sends(s, FALSE) ELSE UNCHANGED calls
  /\ Connect(timer)
  /\ UNCHANGED <<registryVars, recorded, statusCall, screen>>

-----------------------------------------------------------------------------
(* onMounted: the first connection is made; bootstrap() calls refreshData  *)
(* like the timer of Poll.                                                 *)
PageInit ==
  /\ recorded = 0 /\ queue = 0 /\ stream = "connecting" /\ timer = FALSE
  /\ authorized \in BOOLEAN /\ incidents = 0
  /\ calls = [s \in Slot |-> Idle]
  /\ statusCall = Idle
  /\ screen = [agents |-> 0, seen |-> 0, tasks |-> 0]

Init == Monitor!Init /\ PageInit

CallStep(s) ==
  AgentsAnswered(s) \/ StatusesAnswered(s) \/ RefreshAnswered(s)
    \/ RefreshRefused(s) \/ DataShown(s)

StreamStep == StreamOpens \/ StreamRefused \/ TimerFires

StatusCallStep == StatusCallAnswered \/ StatusesShown

Next ==
  \/ RegistryChanges \/ RecordEvent
  \/ \E s \in Slot : Poll(s) \/ Force(s) \/ CallStep(s) \/ DataFails(s) \/ EnterToken(s)
  \/ StreamStep \/ StreamFails \/ StreamEnds
  \/ EventRead \/ StatusCallStep \/ StatusCallFails

Spec == Init /\ [][Next]_vars

(* The monitor catches up (StatusMonitor, SnapshotsCatchUp), what is sent  *)
(* is answered, an answer that came is taken, and the page's timers fire.  *)
(* Nothing is assumed of administrators, agents and failures.              *)
FairSpec ==
  /\ Spec
  /\ WF_vars(Monitor!CatchesUp /\ RegistryChanges)
  /\ \A s \in Slot : WF_vars(CallStep(s))
  /\ WF_vars(\E s \in Slot : Poll(s))
  /\ WF_vars(StreamStep) /\ WF_vars(EventRead) /\ WF_vars(StatusCallStep)

-----------------------------------------------------------------------------
(* Properties. *)

(* When a call of refreshData is shown, the agents are not older than the  *)
(* call and, if an administrator forced a refresh, neither is what is said *)
(* of their availability: a click is never answered with statuses that     *)
(* were there or under way before, whoever else has them refreshed.        *)
ShowsFresh ==
  \A s \in Slot : DataShown(s) =>
    /\ screen'.agents >= calls[s].since
    /\ calls[s].force => screen'.seen >= calls[s].since

RefreshIsFresh == [][ShowsFresh]_vars

(* The page shows the registered agents, whether they can be reached now,  *)
(* and their tasks.                                                        *)
Truthful == screen = [agents |-> epoch, seen |-> epoch, tasks |-> recorded]

(* Once nothing changes any more, a page with a token shows the Registry   *)
(* as it is and goes on doing so: events that were dropped, streams that   *)
(* ended, and old answers that overtook new ones are made up for.          *)
ScreenCatchesUp == <>[](authorized /\ Monitor!Probeable => Truthful)

-----------------------------------------------------------------------------
(* What RefreshIsFresh rests on.  Exactly the forced calls that wait for   *)
(* statuses wait at the monitor, since they were made.                     *)
ForcedWait ==
  \A s \in Slot :
    asked[s] = IF AwaitsStatuses(s) /\ calls[s].force THEN calls[s].since ELSE 0

(* What a call has got is not older than it. *)
CallsFresh ==
  \A s \in Slot : calls[s] # Idle =>
    /\ calls[s].since <= epoch
    /\ ~AwaitsAgents(s) => calls[s].agents >= calls[s].since
    /\ calls[s].force /\ ~AwaitsStatuses(s) => calls[s].statuses.seen >= calls[s].since

(* Events wait only for a stream that is open. *)
QueueServed == queue > 0 => stream = "open"

PageInv == TypeOK /\ ForcedWait /\ CallsFresh /\ QueueServed
=============================================================================
