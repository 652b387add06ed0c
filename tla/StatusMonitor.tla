--------------------------- MODULE StatusMonitor ----------------------------
(***************************************************************************)
(* The Registry's availability snapshots (registry-service status.py): a   *)
(* background loop and the administrators' requests refresh them one at a  *)
(* time, by probing the endpoint of every registered agent.                *)
(*                                                                         *)
(* The steps of a refresh are the code between its awaits: it gets the     *)
(* lock and lists the records, each probe is answered, and the snapshots   *)
(* are replaced when the last one is.  Definitions and endpoints change    *)
(* meanwhile.                                                              *)
(***************************************************************************)
EXTENDS Naturals, Sequences, FiniteSets

CONSTANTS
  Agent,        \* agent_id values
  Endpoint,     \* endpoints of definitions
  NoEndpoint,   \* a definition that names no HTTP endpoint
  Unprobeable,  \* endpoints whose port does not parse
  Request,      \* POST requests for a refresh
  MaxEpoch      \* bound on epoch

ASSUME MonitorAssumption ==
  /\ NoEndpoint \notin Endpoint /\ Unprobeable \subseteq Endpoint
  /\ "loop" \notin Request
  /\ MaxEpoch \in Nat \ {0}

VARIABLES
  registry,  \* the definition of each agent
  up,        \* the endpoints that accept a connection now
  epoch,     \* the changes of registry and up, counted from 1
  statuses,  \* AgentStatusMonitor._statuses
  waiting,   \* the holder of _refresh_lock and those who wait for it, in order
  refresh,   \* the refresh each caller is in
  asked,     \* the epoch in which each caller came, 0 if it is not there
  unfit      \* history: the last epoch in which a probe could raise

worldVars == <<registry, up, epoch, unfit>>
vars == <<worldVars, statuses, waiting, refresh, asked>>

Caller == {"loop"} \cup Request

(* What the monitor reads of a definition. *)
Definition == [status: {"ACTIVE", "DISABLED"}, endpoint: Endpoint \cup {NoEndpoint}]
Absent == [status |-> "ABSENT", endpoint |-> NoEndpoint]

Availability == {"NONE", "ONLINE", "OFFLINE", "DISABLED", "UNKNOWN"}

(* seen: the epoch in which the refresh of these statuses was begun.       *)
Statuses == [seen: 0 .. MaxEpoch, of: [Agent -> Availability]]

(* records: what registry.list returned; of: the results of the probes.    *)
Refresh ==
  [records: [Agent -> Definition \cup {Absent}], seen: 1 .. MaxEpoch,
   of: [Agent -> Availability \cup {"PENDING"}]]
NoRefresh == [seen |-> 0]

TypeOK ==
  /\ registry \in [Agent -> Definition \cup {Absent}]
  /\ up \in SUBSET Endpoint
  /\ epoch \in 1 .. MaxEpoch
  /\ statuses \in Statuses
  /\ waiting \in Seq(Caller)
  /\ refresh \in [Caller -> Refresh \cup {NoRefresh}]
  /\ asked \in [Caller -> 0 .. MaxEpoch]
  /\ unfit \in 0 .. MaxEpoch

(* The port of an endpoint is parsed outside the try of _probe. *)
ProbeRaises(record) == record.status = "ACTIVE" /\ record.endpoint \in Unprobeable

Probeable == \A a \in Agent : ~ProbeRaises(registry[a])

Init ==
  /\ registry \in [Agent -> Definition \cup {Absent}]
  /\ up \in SUBSET (Endpoint \ Unprobeable)
  /\ epoch = 1
  /\ statuses = [seen |-> 0, of |-> [a \in Agent |-> "NONE"]]
  /\ waiting = <<>>
  /\ refresh = [c \in Caller |-> NoRefresh]
  /\ asked = [c \in Caller |-> 0]
  /\ unfit = IF Probeable THEN 0 ELSE 1

-----------------------------------------------------------------------------
(* AgentStatusMonitor.refresh. *)
AskRefresh(c) ==
  /\ asked[c] = 0
  /\ asked' = [asked EXCEPT ![c] = epoch]
  /\ waiting' = Append(waiting, c)
  /\ UNCHANGED <<worldVars, statuses, refresh>>

(* Mutant of HoldsLock: refreshes are not kept apart. *)
WaitsForNobody(c) == asked[c] # 0

HoldsLock(c) == waiting # <<>> /\ Head(waiting) = c

ListRecords(c) ==
  /\ HoldsLock(c)
  /\ refresh[c] = NoRefresh
  /\ refresh' = [refresh EXCEPT ![c] =
       [records |-> registry, seen |-> epoch,
        of |-> [a \in Agent |-> IF registry[a] = Absent THEN "NONE" ELSE "PENDING"]]]
  /\ UNCHANGED <<worldVars, statuses, waiting, asked>>

(* What _probe makes of a record: disabled agents and those without an     *)
(* endpoint are not connected to.  A timeout is an endpoint that is not up.*)
Probe(record) ==
  CASE record.status = "DISABLED" -> "DISABLED"
    [] record.status = "ACTIVE" /\ record.endpoint = NoEndpoint -> "UNKNOWN"
    [] record.status = "ACTIVE" /\ record.endpoint \in up -> "ONLINE"
    [] OTHER -> "OFFLINE"

Pending(c) == {a \in Agent : refresh[c] # NoRefresh /\ refresh[c].of[a] = "PENDING"}

ProbeEnds(c, a) ==
  /\ a \in Pending(c)
  /\ ~ProbeRaises(refresh[c].records[a])
  /\ refresh' = [refresh EXCEPT ![c].of[a] = Probe(refresh[c].records[a])]
  /\ UNCHANGED <<worldVars, statuses, waiting, asked>>

(* async with: the holder releases the lock however the refresh ends, and  *)
(* the next in line has it.                                                *)
Leaves(c) ==
  /\ waiting' = Tail(waiting)
  /\ refresh' = [refresh EXCEPT ![c] = NoRefresh]
  /\ asked' = [asked EXCEPT ![c] = 0]

Raises(c) == \E a \in Pending(c) : ProbeRaises(refresh[c].records[a])

(* Mutant of RefreshRaises: the loop does not catch it, and ends. *)
RaisesThroughLoop(c) ==
  /\ Raises(c)
  /\ waiting' = Tail(waiting)
  /\ refresh' = [refresh EXCEPT ![c] = NoRefresh]
  /\ asked' = IF c = "loop" THEN asked ELSE [asked EXCEPT ![c] = 0]
  /\ UNCHANGED <<worldVars, statuses>>

(* gather raises what the first probe raises; nothing is replaced.  The    *)
(* loop goes on, a request fails.                                          *)
RefreshRaises(c) ==
  /\ Raises(c)
  /\ Leaves(c)
  /\ UNCHANGED <<worldVars, statuses>>

(* snapshot: the statuses of agents that are gone are dropped. *)
Kept(of) == [a \in Agent |-> IF registry[a] = Absent THEN "NONE" ELSE of[a]]

(* Mutant of Complete: the statuses are replaced before the last probe.    *)
Begun(c) == refresh[c] # NoRefresh

Complete(c) == refresh[c] # NoRefresh /\ Pending(c) = {}

(* The lock is released and, for a request, the snapshot taken, without an *)
(* await in between.                                                       *)
RefreshEnds(c) ==
  /\ Complete(c)
  /\ statuses' = [seen |-> refresh[c].seen,
                  of |-> IF c = "loop" THEN refresh[c].of ELSE Kept(refresh[c].of)]
  /\ Leaves(c)
  /\ UNCHANGED worldVars

(* GET /v1/agent-status and the like. *)
TakeSnapshot ==
  /\ statuses' = [statuses EXCEPT !.of = Kept(@)]
  /\ UNCHANGED <<worldVars, waiting, refresh, asked>>

(* What it shows of an agent: one that no refresh has seen is not claimed  *)
(* to be reachable or not.                                                 *)
Shown(a) ==
  IF registry[a] # Absent /\ statuses.of[a] = "NONE"
  THEN IF registry[a].status = "DISABLED" THEN "DISABLED" ELSE "UNKNOWN"
  ELSE Kept(statuses.of)[a]

-----------------------------------------------------------------------------
(* Agents are saved and deleted, endpoints go up and down. *)
Changes ==
  /\ epoch < MaxEpoch
  /\ epoch' = epoch + 1
  /\ unfit' = IF Probeable' THEN unfit ELSE epoch'
  /\ UNCHANGED <<statuses, waiting, refresh, asked>>

AgentChanges(a) ==
  /\ \E definition \in Definition \cup {Absent} :
       definition # registry[a] /\ registry' = [registry EXCEPT ![a] = definition]
  /\ UNCHANGED up
  /\ Changes

EndpointChanges(e) ==
  /\ up' = IF e \in up THEN up \ {e} ELSE up \cup {e}
  /\ UNCHANGED registry
  /\ Changes

RefreshStep(c) ==
  \/ ListRecords(c) \/ RefreshEnds(c) \/ RefreshRaises(c)
  \/ \E a \in Agent : ProbeEnds(c, a)

Next ==
  \/ \E c \in Caller : AskRefresh(c) \/ RefreshStep(c)
  \/ TakeSnapshot
  \/ \E a \in Agent : AgentChanges(a)
  \/ \E e \in Endpoint \ Unprobeable : EndpointChanges(e)

Spec == Init /\ [][Next]_vars

(* The loop goes round, a lock that is free is taken, and every probe ends *)
(* within its timeout.                                                     *)
FairSpec ==
  /\ Spec
  /\ WF_vars(AskRefresh("loop"))
  /\ \A c \in Caller : WF_vars(RefreshStep(c))

-----------------------------------------------------------------------------
(* Properties. *)

(* Who waits for the lock, each once, are those who asked; only the holder *)
(* refreshes.                                                              *)
QueueKept ==
  /\ \A c \in Caller : asked[c] # 0 <=> \E i \in DOMAIN waiting : waiting[i] = c
  /\ \A i, j \in DOMAIN waiting : waiting[i] = waiting[j] => i = j
  /\ \A c \in Caller : refresh[c] # NoRefresh => HoldsLock(c)

(* A refresh is begun after its caller came and after the statuses it will *)
(* replace; what it cannot probe was there when it was begun.              *)
LooksKept ==
  /\ statuses.seen <= epoch /\ unfit <= epoch
  /\ \A c \in Caller : asked[c] <= epoch
  /\ Probeable \/ unfit = epoch
  /\ \A c \in Caller : refresh[c] # NoRefresh =>
       /\ asked[c] <= refresh[c].seen
       /\ statuses.seen <= refresh[c].seen /\ refresh[c].seen <= epoch
       /\ \A a \in Agent : ProbeRaises(refresh[c].records[a]) => refresh[c].seen <= unfit

IInv == TypeOK /\ QueueKept /\ LooksKept

(* Snapshots that are not older than the last change are right: whoever    *)
(* reads them sees of every agent what a probe of it would find now, even  *)
(* if the agent's record was replaced, and agents came and went, while     *)
(* other refreshes were under way.                                         *)
FreshIsRight ==
  statuses.seen = epoch =>
    \A a \in Agent : registry[a] # Absent => Shown(a) = Probe(registry[a])

(* It rests on this: what is known of an agent, in the snapshots or by a   *)
(* refresh under way, is what a probe of it would find now, unless         *)
(* something has changed since the look.                                   *)
LooksRight ==
  /\ statuses.seen = epoch =>
       \A a \in Agent : registry[a] # Absent => statuses.of[a] = Probe(registry[a])
  /\ \A c \in Caller : refresh[c] # NoRefresh /\ refresh[c].seen = epoch =>
       /\ refresh[c].records = registry
       /\ \A a \in Agent : registry[a] # Absent =>
            refresh[c].of[a] \in {"PENDING", Probe(registry[a])}

Promise == INSTANCE StatusPromise WITH
  seen <- statuses.seen, asked <- [r \in Request |-> asked[r]]

(* However the loop and the administrators' requests interleave, and       *)
(* whatever changes under a refresh, the snapshots never go back to an     *)
(* older look at the agents, and an administrator who asks for a refresh   *)
(* is not answered from probes made for somebody who asked earlier, and    *)
(* fails only where an agent that cannot be probed was active meanwhile.   *)
PromiseSpec == Promise!Spec

(* Once nothing changes, the snapshots come to be those of the agents and  *)
(* of the network as they are, also when refreshes raised or were queued   *)
(* behind others before; unless an agent stays active whose endpoint makes *)
(* every refresh raise.                                                    *)
SnapshotsCatchUp ==
  <>[](Probeable => statuses.seen = epoch /\ FreshIsRight)
=============================================================================
